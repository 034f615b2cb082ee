---------------------------- MODULE Pages_proof ----------------------------
(***************************************************************************)
(* What the pages of Pages keep for any users, classes, activities and     *)
(* requests under way, and any number of visits, choices and losses: one   *)
(* inductive invariant for each page, then what it implies in the          *)
(* composition.                                                            *)
(***************************************************************************)
EXTENDS Pages, FiniteSetTheorems, TLAPS

(***************************************************************************)
(* Signing in                                                              *)
(***************************************************************************)
(***************************************************************************)
(* The invariant                                                           *)
(***************************************************************************)
AuCall ==
  [kind : {"none", "init", "profile", "write", "logout"},
   at : {"idle", "out", "back", "again", "joining", "waiting"},
   cred : Nat, csrf : BOOLEAN, tries : Nat, authTried : BOOLEAN, csrfTried : BOOLEAN,
   answer : {"none", "ok", "401", "csrf", "busy", "net"}, applied : Nat]
AuRefreshOf ==
  [at : {"none", "lock", "out", "csrf", "ok", "failed"}, token : Nat, csrf : BOOLEAN,
   warmed : BOOLEAN, fresh : Nat]

\* A write that was applied is answered for good: nothing sends it again.
AuOnce(c) ==
  c.kind = "write" /\ c.applied # 0 => c.applied = 1 /\ c.at = "back" /\ c.answer \in {"ok", "busy", "net"}

AuCallsInv ==
  /\ auCalls \in [DOMAIN auCalls -> AuCall]
  /\ \A id \in DOMAIN auCalls : AuOnce(auCalls[id])

AuTypeOK ==
  /\ auJar \in [access : Nat, refresh : Nat, csrf : BOOLEAN]
  /\ auRefresh \in [AuTabs -> AuRefreshOf]
  /\ auCount \in [faults : Nat, expiries : Nat, logins : Nat]
  /\ \E m \in Nat : DOMAIN auServer.tokens = 1..m
  /\ auServer = [valid |-> auServer.valid, tokens |-> auServer.tokens, reuse |-> auServer.reuse]

AuLive == {k \in DOMAIN auServer.tokens : auServer.tokens[k] = "live"}

\* The holder of the lock is the one tab whose refresh is past it.
AuLockInv ==
  /\ \A t, u \in auLock : t = u
  /\ \A t \in AuTabs : auRefresh[t].at \in {"out", "csrf", "ok", "failed"} <=> t \in auLock
  /\ auLock \subseteq AuTabs

\* Unless an answer was lost: a refresh under way carries a live token or none, and
\* that of the cookie is live, or about to be replaced by a live one.
AuTokensInv ==
  /\ ~auServer.reuse
  /\ \A t \in AuTabs : auRefresh[t].at = "out" => auRefresh[t].token = 0 \/ auRefresh[t].token \in AuLive
  /\ \A t \in AuTabs : auRefresh[t].at = "ok" => auRefresh[t].fresh \in AuLive
  /\ \/ auJar.refresh = 0 \/ auJar.refresh \in AuLive
     \/ \E t \in AuTabs : auRefresh[t].at = "ok"

AuInv == AuTypeOK /\ AuLockInv /\ (auCount.faults = 0 => AuTokensInv)

(***************************************************************************)
(* Writes                                                                  *)
(***************************************************************************)
LEMMA IdleCall == AuIdle \in AuCall /\ AuOnce(AuIdle)
BY DEF AuIdle, AuCall, AuOnce

\* One call changes, into one that keeps the invariant.
LEMMA OneCall ==
  ASSUME AuCallsInv, NEW id \in DOMAIN auCalls, NEW c, c \in AuCall, AuOnce(c), AuSet(id, c)
  PROVE  AuCallsInv'
BY DEF AuCallsInv, AuSet

LEMMA SentCall ==
  ASSUME AuTypeOK, NEW c \in AuCall, c.kind = "write" => c.applied = 0
  PROVE  AuSent(c) \in AuCall /\ AuOnce(AuSent(c))
<1>1. AuSent(c) \in AuCall
  BY Zenon DEF AuTypeOK, AuSent, AuCall
<1>2. AuSent(c).kind = c.kind /\ AuSent(c).applied = c.applied
  BY DEF AuSent, AuCall
<1>. QED  BY <1>1, <1>2 DEF AuOnce

\* The server handles a write that waits for it: applied now, or not at all.
LEMMA HandledCall ==
  ASSUME NEW c \in AuCall, c.kind = "write" => c.applied = 0,
         NEW answer \in {"ok", "401", "csrf", "busy", "net"}, answer \in {"busy", "net"} \/ answer = AuVerdict(c)
  PROVE  AuBack(AuDone(c), answer) \in AuCall /\ AuOnce(AuBack(AuDone(c), answer))
<1>. DEFINE done == AuDone(c)
<1>1. done \in AuCall /\ done.kind = c.kind
  BY DEF AuDone, AuCall
<1>2. c.kind = "write" => done.applied = IF AuVerdict(c) = "ok" THEN 1 ELSE 0
  BY DEF AuDone, AuCall
<1>. HIDE DEF done
<1>3. AuBack(done, answer) \in AuCall
  BY <1>1 DEF AuBack, AuCall
<1>4. LET b == AuBack(done, answer)
      IN b.kind = c.kind /\ b.applied = done.applied /\ b.at = "back" /\ b.answer = answer
  BY <1>1 DEF AuBack, AuCall
<1>5. AuOnce(AuBack(done, answer))
  BY <1>2, <1>4 DEF AuOnce
<1>. QED  BY <1>3, <1>5 DEF done

LEMMA LostCall ==
  ASSUME NEW c \in AuCall, c.kind = "write" => c.applied = 0, NEW answer \in {"busy", "net"}
  PROVE  AuBack(c, answer) \in AuCall /\ AuOnce(AuBack(c, answer))
BY DEF AuBack, AuCall, AuOnce

LEMMA VerdictOf ==
  ASSUME NEW c
  PROVE  AuVerdict(c) \in {"ok", "401", "csrf"}
BY DEF AuVerdict

LEMMA CallsStep ==
  ASSUME AuTypeOK, AuCallsInv, [AuNext]_auVars
  PROVE  AuCallsInv'
<1>. DEFINE Keeps(id) == \/ AuBoot(id[1], id) \/ AuHandled(id) \/ AuLost(id) \/ AuAnswered(id)
                         \/ AuAgain(id) \/ AuJoin(id)
                         \/ \E kind \in {"write", "profile", "logout"} : AuStart(id, kind)
<1>1. ASSUME NEW id \in DOMAIN auCalls, Keeps(id) PROVE AuCallsInv'
  <2>. DEFINE c == auCalls[id]
  <2>0. c \in AuCall /\ AuOnce(c)
    BY DEF AuCallsInv
  <2>f. c.at # "back" => (c.kind = "write" => c.applied = 0)
    BY <2>0 DEF AuOnce
  <2>1. CASE AuBoot(id[1], id)
    <3>. DEFINE boot == [AuIdle EXCEPT !.kind = "init"]
    <3>1. boot \in AuCall /\ boot.kind = "init"
      BY DEF AuIdle, AuCall
    <3>2. AuSet(id, AuSent(boot)) \/ UNCHANGED auCalls
      BY <2>1 DEF AuBoot
    <3>. HIDE DEF boot
    <3>3. AuSent(boot) \in AuCall /\ AuOnce(AuSent(boot))
      BY <3>1, SentCall
    <3>. QED  BY <3>2, <3>3, OneCall DEF AuCallsInv
  <2>2. CASE AuHandled(id)
    <3>1. c.at = "out"
      BY <2>2 DEF AuHandled
    <3>2. \E answer \in {"busy", "net", AuVerdict(c)} : AuSet(id, AuBack(AuDone(c), answer))
      BY <2>2 DEF AuHandled
    <3>3. PICK answer \in {"busy", "net", AuVerdict(c)} : AuSet(id, AuBack(AuDone(c), answer))
      BY <3>2
    <3>4. AuBack(AuDone(c), answer) \in AuCall /\ AuOnce(AuBack(AuDone(c), answer))
      BY <2>0, <2>f, <3>1, VerdictOf, HandledCall
    <3>. QED  BY <3>3, <3>4, OneCall
  <2>3. CASE AuLost(id)
    <3>1. PICK lost \in {"busy", "net"} : c.at = "out" /\ AuSet(id, AuBack(c, lost))
      BY <2>3 DEF AuLost
    <3>2. AuBack(c, lost) \in AuCall /\ AuOnce(AuBack(c, lost))
      BY <2>0, <2>f, <3>1, LostCall
    <3>. QED  BY <3>1, <3>2, OneCall
  <2>4. CASE AuAnswered(id)
    <3>. DEFINE join == [c EXCEPT !.at = "joining", !.authTried = TRUE]
                warm == [c EXCEPT !.at = "again", !.csrfTried = TRUE]
                more == c.tries + 1
                again == [c EXCEPT !.at = "again", !.tries = more]
    <3>1. CASE AuSet(id, AuIdle)
      BY <3>1, IdleCall, OneCall
    <3>2. CASE AuSet(id, join) /\ c.answer = "401"
      <4>1. join \in AuCall
        BY <2>0, Zenon DEF AuCall
      <4>2. AuOnce(join)
        BY <2>0, <3>2 DEF AuOnce, AuCall
      <4>. QED  BY <3>2, <4>1, <4>2, OneCall
    <3>3. CASE AuSet(id, warm) /\ c.answer = "csrf"
      <4>1. warm \in AuCall
        BY <2>0, Zenon DEF AuCall
      <4>2. AuOnce(warm)
        BY <2>0, <3>3 DEF AuOnce, AuCall
      <4>. QED  BY <3>3, <4>1, <4>2, OneCall
    <3>4. CASE AuSet(id, again) /\ c.kind # "write"
      <4>0. more \in Nat
        BY <2>0 DEF AuCall
      <4>. HIDE DEF more
      <4>1. again \in AuCall /\ again.kind = c.kind
        BY <2>0, <4>0 DEF AuCall
      <4>2. AuOnce(again)
        BY <3>4, <4>1 DEF AuOnce
      <4>. QED  BY <3>4, <4>1, <4>2, OneCall
    <3>. HIDE DEF join, warm, again
    <3>. QED  BY <2>4, <3>1, <3>2, <3>3, <3>4
             DEF AuAnswered, AuSettle, AuRetriable, AuLogoutAgain, AuUnsafe, join, warm, again
  <2>5. CASE AuAgain(id)
    <3>1. c.at = "again" /\ AuSet(id, AuSent(c))
      BY <2>5 DEF AuAgain
    <3>2. AuSent(c) \in AuCall /\ AuOnce(AuSent(c))
      BY <2>0, <2>f, <3>1, SentCall
    <3>. QED  BY <3>1, <3>2, OneCall
  <2>6. CASE AuJoin(id)
    <3>. DEFINE waits == [c EXCEPT !.at = "waiting"]
    <3>1. c.at = "joining" /\ AuSet(id, waits)
      BY <2>6 DEF AuJoin
    <3>2. waits \in AuCall /\ AuOnce(waits)
      BY <2>0, <2>f, <3>1 DEF AuCall, AuOnce
    <3>. HIDE DEF waits
    <3>. QED  BY <3>1, <3>2, OneCall
  <2>7. ASSUME NEW kind \in {"write", "profile", "logout"}, AuStart(id, kind) PROVE AuCallsInv'
    <3>. DEFINE new == [AuIdle EXCEPT !.kind = kind]
    <3>1. new \in AuCall /\ new.applied = 0
      BY DEF AuIdle, AuCall
    <3>2. AuSet(id, AuSent(new))
      BY <2>7 DEF AuStart
    <3>. HIDE DEF new
    <3>3. AuSent(new) \in AuCall /\ AuOnce(AuSent(new))
      BY <3>1, SentCall
    <3>. QED  BY <3>2, <3>3, OneCall
  <2>. QED  BY <1>1, <2>1, <2>2, <2>3, <2>4, <2>5, <2>6, <2>7
<1>2. ASSUME NEW win \in AuTabs, AuRefreshed(win) PROVE AuCallsInv'
  <2>1. \A c \in AuCall : c.at = "waiting" /\ AuOnce(c) =>
          [c EXCEPT !.at = "again"] \in AuCall /\ AuOnce([c EXCEPT !.at = "again"])
    BY DEF AuCall, AuOnce
  <2>2. /\ DOMAIN auCalls' = DOMAIN auCalls
        /\ auCalls' = [id \in DOMAIN auCalls |-> auCalls'[id]]
        /\ \A id \in DOMAIN auCalls :
             \/ auCalls'[id] = auCalls[id] \/ auCalls'[id] = AuIdle
             \/ auCalls[id].at = "waiting" /\ auCalls'[id] = [auCalls[id] EXCEPT !.at = "again"]
    BY <1>2 DEF AuRefreshed
  <2>3. \A id \in DOMAIN auCalls : auCalls'[id] \in AuCall /\ AuOnce(auCalls'[id])
    BY <2>1, <2>2, IdleCall DEF AuCallsInv
  <2>. QED  BY <2>2, <2>3 DEF AuCallsInv
<1>3. CASE UNCHANGED auCalls
  BY <1>3 DEF AuCallsInv
<1>4. ASSUME NEW win \in AuTabs,
             \/ AuLogin(win) \/ AuCancel(win) \/ AuLocked(win) \/ AuRefreshHandled(win) \/ AuRefreshWarmed(win)
      PROVE  UNCHANGED auCalls
  BY <1>4 DEF AuLogin, AuCancel, AuLocked, AuRefreshHandled, AuRefreshWarmed
<1>5. AuExpire \/ UNCHANGED auVars => UNCHANGED auCalls
  BY DEF AuExpire, auVars
<1>. QED  BY <1>1, <1>2, <1>3, <1>4, <1>5 DEF AuNext

(***************************************************************************)
(* Refresh tokens                                                          *)
(***************************************************************************)
LEMMA Numbered ==
  ASSUME AuTypeOK
  PROVE  LET n == Cardinality(DOMAIN auServer.tokens) + 1
         IN n \in Nat \ {0} /\ DOMAIN auServer.tokens = 1..(n - 1)
<1>1. PICK m \in Nat : DOMAIN auServer.tokens = 1..m
  BY DEF AuTypeOK
<1>2. Cardinality(1..m) = m
  BY FS_Interval
<1>. QED  BY <1>1, <1>2

\* What most steps do: tokens and refreshes stay, the cookies stay or go.
LEMMA NothingRefreshed ==
  ASSUME AuInv, UNCHANGED <<auRefresh, auLock>>,
         auServer' = auServer \/ \E valid : auServer' = [auServer EXCEPT !.valid = valid],
         auJar' \in [access : Nat, refresh : Nat, csrf : BOOLEAN], auJar'.refresh \in {0, auJar.refresh},
         auCount' \in [faults : Nat, expiries : Nat, logins : Nat], auCount'.faults = 0 => auCount.faults = 0
  PROVE  AuInv'
<1>0. /\ auServer'.tokens = auServer.tokens /\ auServer'.reuse = auServer.reuse
      /\ auServer' = [valid |-> auServer'.valid, tokens |-> auServer'.tokens, reuse |-> auServer'.reuse]
  BY DEF AuInv, AuTypeOK
<1>1. AuTypeOK'
  BY <1>0 DEF AuInv, AuTypeOK
<1>2. AuLockInv'
  BY DEF AuInv, AuLockInv
<1>3. ASSUME auCount'.faults = 0 PROVE AuTokensInv'
  BY <1>0, <1>3 DEF AuInv, AuTokensInv, AuLive
<1>. QED  BY <1>1, <1>2, <1>3 DEF AuInv

\* The counts only grow.
LEMMA Counted ==
  ASSUME AuTypeOK, AuFault
  PROVE  auCount' \in [faults : Nat, expiries : Nat, logins : Nat] /\ auCount'.faults # 0
BY DEF AuTypeOK, AuFault

LEMMA RequestsKeep ==
  ASSUME AuInv, NEW id \in DOMAIN auCalls,
         \/ AuBoot(id[1], id) \/ AuHandled(id) \/ AuLost(id) \/ AuAnswered(id) \/ AuAgain(id)
         \/ \E kind \in {"write", "profile", "logout"} : AuStart(id, kind)
  PROVE  AuInv'
<1>0. /\ AuTypeOK /\ auCount \in [faults : Nat, expiries : Nat, logins : Nat]
      /\ auJar \in [access : Nat, refresh : Nat, csrf : BOOLEAN]
  BY DEF AuInv, AuTypeOK
<1>1. CASE AuBoot(id[1], id) \/ AuAgain(id)
  BY <1>0, <1>1, NothingRefreshed DEF AuBoot, AuAgain
<1>2. CASE AuHandled(id)
  <2>1. UNCHANGED <<auJar, auRefresh, auLock>> /\ (UNCHANGED auCount \/ AuFault)
    BY <1>2 DEF AuHandled
  <2>2. auServer' = auServer \/ \E valid : auServer' = [auServer EXCEPT !.valid = valid]
    BY <1>2 DEF AuHandled
  <2>. QED  BY <1>0, <2>1, <2>2, Counted, NothingRefreshed
<1>3. CASE AuLost(id)
  BY <1>0, <1>3, Counted, NothingRefreshed DEF AuLost
<1>4. CASE AuAnswered(id)
  <2>1. auJar' \in [access : Nat, refresh : Nat, csrf : BOOLEAN] /\ auJar'.refresh \in {0, auJar.refresh}
    <3>. DEFINE out == [access |-> 0, refresh |-> 0, csrf |-> TRUE]
                back == [auJar EXCEPT !.csrf = TRUE]
    <3>1. auJar' \in {auJar, out, back}
      BY <1>4 DEF AuAnswered, AuJarAfter
    <3>2. 0 \in Nat
      OBVIOUS
    <3>3. out \in [access : Nat, refresh : Nat, csrf : BOOLEAN] /\ out.refresh = 0
      BY <3>2, Zenon
    <3>4. back \in [access : Nat, refresh : Nat, csrf : BOOLEAN]
      BY <1>0, Zenon
    <3>5. back.refresh = auJar.refresh
      BY <1>0
    <3>. HIDE DEF out, back
    <3>. QED  BY <1>0, <3>1, <3>3, <3>4, <3>5
  <2>. QED  BY <1>0, <1>4, <2>1, NothingRefreshed DEF AuAnswered
<1>5. ASSUME NEW kind, AuStart(id, kind) PROVE AuInv'
  <2>1. auCount' \in [faults : Nat, expiries : Nat, logins : Nat] /\ auCount'.faults = auCount.faults
    BY <1>0, <1>5 DEF AuStart
  <2>. QED  BY <1>0, <1>5, <2>1, NothingRefreshed DEF AuStart
<1>. QED  BY <1>1, <1>2, <1>3, <1>4, <1>5

LEMMA BrowserKeeps ==
  ASSUME AuInv, AuExpire \/ \E win \in AuTabs : AuCancel(win)
  PROVE  AuInv'
<1>0. /\ auCount \in [faults : Nat, expiries : Nat, logins : Nat]
      /\ auJar \in [access : Nat, refresh : Nat, csrf : BOOLEAN]
  BY DEF AuInv, AuTypeOK
<1>1. CASE AuExpire
  <2>1. auCount' \in [faults : Nat, expiries : Nat, logins : Nat] /\ auCount'.faults = auCount.faults
    BY <1>0, <1>1 DEF AuExpire
  <2>2. auJar' \in [access : Nat, refresh : Nat, csrf : BOOLEAN] /\ auJar'.refresh = auJar.refresh
    BY <1>0, <1>1 DEF AuExpire
  <2>. QED  BY <1>1, <2>1, <2>2, NothingRefreshed DEF AuExpire
<1>2. ASSUME NEW win \in AuTabs, AuCancel(win) PROVE AuInv'
  BY <1>0, <1>2, NothingRefreshed DEF AuCancel
<1>. QED  BY <1>1, <1>2

LEMMA JoinKeeps ==
  ASSUME AuInv, NEW id, AuJoin(id)
  PROVE  AuInv'
<1>0. auRefresh \in [AuTabs -> AuRefreshOf] /\ UNCHANGED <<auJar, auServer, auLock, auCount>>
  BY DEF AuInv, AuTypeOK, AuJoin
<1>1. /\ auRefresh' \in [AuTabs -> AuRefreshOf]
      /\ \A t \in AuTabs : auRefresh'[t] = auRefresh[t] \/ (auRefresh[t].at = "none" /\ auRefresh'[t].at = "lock")
  <2>1. \A r \in AuRefreshOf : [r EXCEPT !.at = "lock"] \in AuRefreshOf /\ [r EXCEPT !.at = "lock"].at = "lock"
    BY DEF AuRefreshOf
  <2>. QED  BY <1>0, <2>1 DEF AuJoin
<1>2. AuTypeOK'
  BY <1>0, <1>1 DEF AuInv, AuTypeOK
<1>3. AuLockInv'
  BY <1>0, <1>1 DEF AuInv, AuLockInv
<1>4. AuTokensInv => AuTokensInv'
  BY <1>0, <1>1 DEF AuTokensInv, AuLive
<1>. QED  BY <1>0, <1>2, <1>3, <1>4 DEF AuInv

\* A sign-in adds a live token and puts it into the cookie.
LEMMA LoginKeeps ==
  ASSUME AuInv, NEW win \in AuTabs, AuLogin(win)
  PROVE  AuInv'
<1>. DEFINE n == Cardinality(DOMAIN auServer.tokens) + 1
            new == [k \in 1..n |-> IF k = n THEN "live" ELSE auServer.tokens[k]]
<1>0. /\ auCount \in [faults : Nat, expiries : Nat, logins : Nat] /\ n \in Nat \ {0}
      /\ DOMAIN auServer.tokens = 1..(n - 1) /\ UNCHANGED <<auRefresh, auLock>>
  BY Numbered DEF AuInv, AuTypeOK, AuLogin
<1>1. auCount' \in [faults : Nat, expiries : Nat, logins : Nat] /\ auCount'.faults = auCount.faults
  BY <1>0 DEF AuLogin
<1>2. CASE UNCHANGED <<auServer, auJar>>
  <2>1. auJar \in [access : Nat, refresh : Nat, csrf : BOOLEAN]
    BY DEF AuInv, AuTypeOK
  <2>. QED  BY <1>0, <1>1, <1>2, <2>1, NothingRefreshed
<1>3. CASE AuCookies(n)
  <2>. HIDE DEF n
  <2>1. auJar' = [access |-> n, refresh |-> n, csrf |-> TRUE]
    BY <1>3 DEF AuCookies
  <2>2. /\ auServer'.tokens = new /\ auServer'.reuse = auServer.reuse
        /\ auServer' = [valid |-> auServer'.valid, tokens |-> auServer'.tokens, reuse |-> auServer'.reuse]
    BY <1>3 DEF AuCookies, AuInv, AuTypeOK
  <2>3. DOMAIN new = 1..n /\ new[n] = "live" /\ n \in 1..n /\ \A k \in 1..(n - 1) : k \in 1..n /\ new[k] = auServer.tokens[k]
    BY <1>0
  <2>. HIDE DEF new
  <2>4. AuTypeOK'
    BY <1>0, <1>1, <2>1, <2>2, <2>3 DEF AuInv, AuTypeOK
  <2>5. AuLockInv'
    BY <1>0 DEF AuInv, AuLockInv
  <2>6. AuLive \subseteq AuLive' /\ n \in AuLive'
    <3>1. auServer'.tokens = new
      BY <2>2
    <3>2. ASSUME NEW k \in AuLive PROVE k \in AuLive'
      BY <1>0, <2>3, <3>1, <3>2 DEF AuLive
    <3>3. n \in AuLive'
      BY <2>3, <3>1 DEF AuLive
    <3>. QED  BY <3>2, <3>3
  <2>7. AuTokensInv => AuTokensInv'
    <3>. SUFFICES ASSUME AuTokensInv PROVE AuTokensInv'
      OBVIOUS
    <3>1. auJar'.refresh = n /\ n \in AuLive'
      BY <2>1, <2>6
    <3>2. auJar'.refresh \in AuLive'
      BY <3>1
    <3>3. auServer'.reuse = auServer.reuse /\ auRefresh' = auRefresh
      BY <1>0, <2>2
    <3>4. AuLive \subseteq AuLive'
      BY <2>6
    <3>. QED  BY <3>2, <3>3, <3>4 DEF AuTokensInv
  <2>. QED  BY <1>1, <2>4, <2>5, <2>7 DEF AuInv
<1>. QED  BY <1>2, <1>3 DEF AuLogin

\* One refresh changes, the numbers of the tokens and the shape of the rest stay.
LEMMA RefreshTyped ==
  ASSUME AuTypeOK, NEW win \in AuTabs, NEW r \in AuRefreshOf, auRefresh' = [auRefresh EXCEPT ![win] = r]
  PROVE  /\ auRefresh' \in [AuTabs -> AuRefreshOf] /\ auRefresh'[win] = r
         /\ \A t \in AuTabs : t # win => auRefresh'[t] = auRefresh[t]
BY DEF AuTypeOK

\* The lock is free: no refresh is past it, so the cookie holds a live token, or none.
LEMMA LockedKeeps ==
  ASSUME AuInv, NEW win \in AuTabs, AuLocked(win)
  PROVE  AuInv'
<1>. DEFINE r == AuRefreshSent(auRefresh[win])
<1>0. /\ AuTypeOK /\ AuLockInv /\ auLock = {} /\ auLock' = {win}
      /\ UNCHANGED <<auJar, auServer, auCount>> /\ auRefresh' = [auRefresh EXCEPT ![win] = r]
  BY DEF AuInv, AuLocked
<1>1. r \in AuRefreshOf
  BY <1>0, Zenon DEF AuTypeOK, AuRefreshOf, AuRefreshSent
<1>2. r.at = "out" /\ r.token = auJar.refresh
  BY <1>0 DEF AuTypeOK, AuRefreshOf, AuRefreshSent
<1>. HIDE DEF r
<1>3. /\ auRefresh' \in [AuTabs -> AuRefreshOf] /\ auRefresh'[win] = r
      /\ \A t \in AuTabs : t # win => auRefresh'[t] = auRefresh[t]
  BY <1>0, <1>1, RefreshTyped
<1>4. AuTypeOK'
  BY <1>0, <1>3 DEF AuTypeOK
<1>5. \A t \in AuTabs : auRefresh[t].at \in {"none", "lock"}
  BY <1>0 DEF AuLockInv, AuTypeOK, AuRefreshOf
<1>6. AuLockInv'
  BY <1>0, <1>2, <1>3, <1>5 DEF AuLockInv
<1>7. AuTokensInv => AuTokensInv'
  BY <1>0, <1>2, <1>3, <1>5 DEF AuTokensInv, AuLive
<1>. QED  BY <1>0, <1>4, <1>6, <1>7 DEF AuInv

\* A refresh that stays past the lock: the holder of the lock is the same.
LEMMA HolderStays ==
  ASSUME AuLockInv, NEW win \in AuTabs, UNCHANGED auLock,
         auRefresh[win].at \in {"out", "csrf"}, auRefresh'[win].at \in {"out", "csrf", "ok", "failed"},
         \A t \in AuTabs : t # win => auRefresh'[t] = auRefresh[t]
  PROVE  /\ AuLockInv'
         /\ \A t \in AuTabs : t # win => auRefresh[t].at \notin {"out", "csrf", "ok", "failed"}
BY DEF AuLockInv

\* The warm-up sends what the cookie holds now; no other tab is refreshing.
LEMMA WarmedKeeps ==
  ASSUME AuInv, NEW win \in AuTabs, AuRefreshWarmed(win)
  PROVE  AuInv'
<1>. DEFINE old == auRefresh[win]
            r == [old EXCEPT !.at = "out", !.token = auJar.refresh, !.csrf = TRUE, !.warmed = TRUE]
            jar == [auJar EXCEPT !.csrf = TRUE]
<1>0. /\ AuTypeOK /\ AuLockInv /\ auRefresh[win].at = "csrf" /\ auJar' = jar
      /\ UNCHANGED <<auServer, auLock, auCount>> /\ auRefresh' = [auRefresh EXCEPT ![win] = r]
  BY DEF AuInv, AuRefreshWarmed
<1>1. old \in AuRefreshOf /\ auJar \in [access : Nat, refresh : Nat, csrf : BOOLEAN] /\ auJar.refresh \in Nat
  BY <1>0 DEF AuTypeOK
<1>. HIDE DEF old
<1>2. r \in AuRefreshOf
  BY <1>1, Zenon DEF AuRefreshOf
<1>3. r.at = "out" /\ r.token = auJar.refresh
  BY <1>1 DEF AuRefreshOf
<1>4. jar \in [access : Nat, refresh : Nat, csrf : BOOLEAN]
  BY <1>1, Zenon
<1>5. jar.refresh = auJar.refresh
  BY <1>1
<1>. HIDE DEF r, jar
<1>6. /\ auRefresh' \in [AuTabs -> AuRefreshOf] /\ auRefresh'[win] = r
      /\ \A t \in AuTabs : t # win => auRefresh'[t] = auRefresh[t]
  BY <1>0, <1>2, RefreshTyped
<1>7. AuTypeOK'
  BY <1>0, <1>4, <1>6 DEF AuTypeOK
<1>8. /\ AuLockInv'
      /\ \A t \in AuTabs : t # win => auRefresh[t].at \notin {"out", "csrf", "ok", "failed"}
  BY <1>0, <1>3, <1>6, HolderStays
<1>9. AuTokensInv => AuTokensInv'
  BY <1>0, <1>3, <1>5, <1>6, <1>8 DEF AuTokensInv, AuLive
<1>. QED  BY <1>0, <1>7, <1>8, <1>9 DEF AuInv

\* A refresh is over: its fresh token, if it has one, is in the cookie and live.
LEMMA RefreshedKeeps ==
  ASSUME AuInv, NEW win \in AuTabs, AuRefreshed(win)
  PROVE  AuInv'
<1>. DEFINE r == auRefresh[win]
            jar == [access |-> r.fresh, refresh |-> r.fresh, csrf |-> TRUE]
<1>0. /\ AuTypeOK /\ AuLockInv /\ r.at \in {"ok", "failed", "csrf"} /\ auLock' = auLock \ {win}
      /\ UNCHANGED <<auServer, auCount>> /\ auRefresh' = [auRefresh EXCEPT ![win] = AuNoRefresh]
      /\ auJar' = IF r.at = "ok" THEN jar ELSE auJar
  BY DEF AuInv, AuRefreshed
<1>1. AuNoRefresh \in AuRefreshOf /\ AuNoRefresh.at = "none"
  BY DEF AuNoRefresh, AuRefreshOf
<1>2. /\ auRefresh' \in [AuTabs -> AuRefreshOf] /\ auRefresh'[win] = AuNoRefresh
      /\ \A t \in AuTabs : t # win => auRefresh'[t] = auRefresh[t]
  BY <1>0, <1>1, RefreshTyped
<1>3. r \in AuRefreshOf /\ r.fresh \in Nat /\ auJar \in [access : Nat, refresh : Nat, csrf : BOOLEAN]
  BY <1>0 DEF AuTypeOK, AuRefreshOf
<1>4. jar \in [access : Nat, refresh : Nat, csrf : BOOLEAN]
  BY <1>3, Zenon
<1>5. AuTypeOK'
  BY <1>0, <1>2, <1>3, <1>4 DEF AuTypeOK
<1>6. \A t \in AuTabs : t # win => auRefresh[t].at \notin {"out", "csrf", "ok", "failed"}
  BY <1>0 DEF AuLockInv
<1>7. AuLockInv'
  BY <1>0, <1>1, <1>2 DEF AuLockInv
<1>8. AuTokensInv => AuTokensInv'
  <2>. SUFFICES ASSUME AuTokensInv PROVE AuTokensInv'
    OBVIOUS
  <2>1. auServer' = auServer /\ AuLive' = AuLive
    BY <1>0 DEF AuLive
  <2>2. auJar'.refresh = 0 \/ auJar'.refresh \in AuLive
    <3>1. CASE r.at = "ok"
      BY <1>0, <3>1 DEF AuTokensInv
    <3>2. CASE r.at # "ok"
      BY <1>0, <1>6, <3>2 DEF AuTokensInv
    <3>. QED  BY <3>1, <3>2
  <2>. QED  BY <1>1, <1>2, <2>1, <2>2 DEF AuTokensInv
<1>. QED  BY <1>0, <1>5, <1>7, <1>8 DEF AuInv

\* The server takes the one refresh under way: its token is live, so it is replaced.
\* An answer that is lost counts as a fault, and the old token stays in the cookie.
LEMMA RefreshHandledKeeps ==
  ASSUME AuInv, NEW win \in AuTabs, AuRefreshHandled(win)
  PROVE  AuInv'
<1>. DEFINE old == auRefresh[win]
            token == old.token
            known == token \in DOMAIN auServer.tokens
            n == Cardinality(DOMAIN auServer.tokens) + 1
            left(at, fresh) == [old EXCEPT !.at = at, !.fresh = fresh]
            next == [k \in 1..n |-> IF k = n THEN "live" ELSE IF k = token THEN "used" ELSE auServer.tokens[k]]
<1>0. /\ AuTypeOK /\ AuLockInv /\ old.at = "out" /\ UNCHANGED <<auJar, auLock>>
  BY DEF AuInv, AuRefreshHandled
<1>1. old \in AuRefreshOf /\ n \in Nat \ {0} /\ DOMAIN auServer.tokens = 1..(n - 1)
  BY <1>0, Numbered DEF AuTypeOK
<1>a. ASSUME NEW at \in {"ok", "failed"}, NEW fresh \in Nat
      PROVE  left(at, fresh) \in AuRefreshOf /\ left(at, fresh).at = at /\ left(at, fresh).fresh = fresh
  <2>. HIDE DEF old
  <2>. QED  BY <1>1 DEF AuRefreshOf
<1>2. CASE ~old.csrf /\ known
  <2>1. auRefresh' = [auRefresh EXCEPT ![win] = left("csrf", 0)] /\ UNCHANGED <<auServer, auCount>>
    BY <1>2 DEF AuRefreshHandled
  <2>2. left("csrf", 0) \in AuRefreshOf /\ left("csrf", 0).at = "csrf"
    BY <1>1 DEF AuRefreshOf
  <2>. HIDE DEF left
  <2>3. /\ auRefresh' \in [AuTabs -> AuRefreshOf] /\ auRefresh'[win].at = "csrf"
        /\ \A t \in AuTabs : t # win => auRefresh'[t] = auRefresh[t]
    BY <1>0, <2>1, <2>2, RefreshTyped
  <2>4. AuTypeOK'
    BY <1>0, <2>1, <2>3 DEF AuTypeOK
  <2>5. AuLockInv'
    BY <1>0, <2>3, HolderStays
  <2>6. AuTokensInv => AuTokensInv'
    BY <1>0, <2>1, <2>3 DEF AuTokensInv, AuLive
  <2>. QED  BY <2>1, <2>4, <2>5, <2>6 DEF AuInv
<1>3. CASE ~(~old.csrf /\ known) /\ known /\ auServer.tokens[token] = "live"
  <2>1. PICK at \in {"ok", "failed"}, fresh \in {n, 0} :
          /\ auRefresh' = [auRefresh EXCEPT ![win] = left(at, fresh)]
          /\ at = "ok" => fresh = n
          /\ (at = "ok" /\ UNCHANGED auCount) \/ (at = "failed" /\ AuFault)
    BY <1>3 DEF AuRefreshHandled
  <2>2. \E valid : auServer' = [auServer EXCEPT !.valid = valid, !.tokens = next]
    BY <1>3 DEF AuRefreshHandled
  <2>3. left(at, fresh) \in AuRefreshOf /\ left(at, fresh).at = at /\ left(at, fresh).fresh = fresh
    <3>. HIDE DEF left, n
    <3>1. fresh \in Nat
      BY <1>1
    <3>. QED  BY <1>a, <3>1
  <2>4. DOMAIN next = 1..n /\ n \in 1..n /\ next[n] = "live"
    BY <1>1
  <2>5. \A k \in 1..(n - 1) : k \in 1..n /\ (k # token => next[k] = auServer.tokens[k])
    BY <1>1
  <2>. HIDE DEF left, next, n, old
  <2>6. /\ auServer'.tokens = next /\ auServer'.reuse = auServer.reuse
        /\ auServer' = [valid |-> auServer'.valid, tokens |-> auServer'.tokens, reuse |-> auServer'.reuse]
    BY <2>2, <1>0 DEF AuTypeOK
  <2>7. /\ auRefresh' \in [AuTabs -> AuRefreshOf] /\ auRefresh'[win] = left(at, fresh)
        /\ \A t \in AuTabs : t # win => auRefresh'[t] = auRefresh[t]
    BY <1>0, <2>1, <2>3, RefreshTyped
  <2>8. auCount' \in [faults : Nat, expiries : Nat, logins : Nat] /\ (at = "failed" => auCount'.faults # 0)
    BY <1>0, <2>1, Counted DEF AuTypeOK
  <2>9. AuTypeOK'
    <3>1. n \in Nat /\ DOMAIN auServer'.tokens = 1..n
      BY <1>1, <2>4, <2>6
    <3>. QED  BY <1>0, <2>6, <2>7, <2>8, <3>1 DEF AuTypeOK
  <2>10. /\ AuLockInv'
         /\ \A t \in AuTabs : t # win => auRefresh[t].at \notin {"out", "csrf", "ok", "failed"}
    <3>1. auRefresh'[win].at \in {"out", "csrf", "ok", "failed"} /\ auRefresh[win].at \in {"out", "csrf"}
      BY <1>0, <2>3, <2>7 DEF old
    <3>. QED  BY <1>0, <2>7, <3>1, HolderStays
  <2>11. n \in AuLive' /\ AuLive \ {token} \subseteq AuLive'
    <3>1. n \in AuLive'
      BY <2>4, <2>6 DEF AuLive
    <3>2. ASSUME NEW k \in AuLive, k # token PROVE k \in AuLive'
      BY <1>1, <2>4, <2>5, <2>6, <3>2 DEF AuLive
    <3>. QED  BY <3>1, <3>2
  <2>12. ASSUME auCount'.faults = 0 PROVE AuTokensInv'
    <3>1. at = "ok" /\ fresh = n /\ auCount.faults = 0
      BY <2>1, <2>8, <2>12
    <3>2. AuTokensInv
      BY <3>1 DEF AuInv
    <3>3. auRefresh'[win].at = "ok" /\ auRefresh'[win].fresh \in AuLive'
      BY <2>3, <2>7, <2>11, <3>1
    <3>4. ~auServer'.reuse
      BY <2>6, <3>2 DEF AuTokensInv
    <3>. QED  BY <2>7, <2>10, <3>3, <3>4 DEF AuTokensInv
  <2>. QED  BY <2>9, <2>10, <2>12 DEF AuInv
<1>4. CASE ~(~old.csrf /\ known) /\ ~(known /\ auServer.tokens[token] = "live")
  <2>1. /\ auRefresh' = [auRefresh EXCEPT ![win] = left("failed", 0)] /\ UNCHANGED auCount
        /\ auServer' = IF known THEN [auServer EXCEPT !.reuse = TRUE,
                               !.tokens = [k \in DOMAIN auServer.tokens |-> "revoked"]] ELSE auServer
    BY <1>4 DEF AuRefreshHandled
  <2>2. left("failed", 0) \in AuRefreshOf /\ left("failed", 0).at = "failed"
    BY <1>1 DEF AuRefreshOf
  <2>. HIDE DEF left
  <2>3. /\ auRefresh' \in [AuTabs -> AuRefreshOf] /\ auRefresh'[win].at = "failed"
        /\ \A t \in AuTabs : t # win => auRefresh'[t] = auRefresh[t]
    BY <1>0, <2>1, <2>2, RefreshTyped
  <2>4. /\ DOMAIN auServer'.tokens = DOMAIN auServer.tokens
        /\ auServer' = [valid |-> auServer'.valid, tokens |-> auServer'.tokens, reuse |-> auServer'.reuse]
    BY <1>0, <2>1 DEF AuTypeOK
  <2>5. AuTypeOK'
    BY <1>0, <2>1, <2>3, <2>4 DEF AuTypeOK
  <2>6. AuLockInv'
    BY <1>0, <2>3, HolderStays
  <2>7. ASSUME AuTokensInv PROVE AuTokensInv'
    <3>1. token = 0 \/ token \in AuLive
      BY <1>0, <2>7 DEF AuTokensInv
    <3>2. ~known
      BY <1>1, <1>4, <3>1 DEF AuLive
    <3>3. auServer' = auServer
      BY <2>1, <3>2
    <3>. QED  BY <1>0, <2>3, <2>7, <3>3 DEF AuTokensInv, AuLive
  <2>. QED  BY <2>1, <2>5, <2>6, <2>7 DEF AuInv
<1>. QED  BY <1>2, <1>3, <1>4

(***************************************************************************)
(* Theorems                                                                *)
(***************************************************************************)
AuSpec == AuInit /\ [][AuNext]_auVars

LEMMA InitInv ==
  ASSUME AuInit
  PROVE  AuInv /\ AuCallsInv
<1>1. PICK n \in {0, 1}, valid \in SUBSET {1} :
        /\ auJar = [access |-> n, refresh |-> n, csrf |-> TRUE]
        /\ auServer = [valid |-> valid, tokens |-> [k \in 1..n |-> "live"], reuse |-> FALSE]
  BY DEF AuInit
<1>2. /\ auRefresh = [t \in AuTabs |-> AuNoRefresh] /\ auLock = {}
      /\ auCount = [faults |-> 0, expiries |-> 0, logins |-> 0]
  BY DEF AuInit
<1>3. auJar \in [access : Nat, refresh : Nat, csrf : BOOLEAN]
  <2>1. n \in Nat
    BY <1>1
  <2>. QED  BY <1>1, <2>1, Zenon
<1>4. auRefresh \in [AuTabs -> AuRefreshOf] /\ \A t \in AuTabs : auRefresh[t].at = "none"
  <2>1. AuNoRefresh \in AuRefreshOf /\ AuNoRefresh.at = "none"
    BY DEF AuNoRefresh, AuRefreshOf
  <2>. QED  BY <1>2, <2>1
<1>5. DOMAIN auServer.tokens = 1..n /\ n \in Nat
  BY <1>1
<1>6. AuTypeOK
  BY <1>1, <1>2, <1>3, <1>4, <1>5 DEF AuTypeOK
<1>7. AuLockInv
  BY <1>2, <1>4 DEF AuLockInv
<1>8. AuTokensInv
  BY <1>1, <1>4 DEF AuTokensInv, AuLive
<1>9. AuCallsInv
  BY IdleCall DEF AuInit, AuCallsInv
<1>. QED  BY <1>6, <1>7, <1>8, <1>9 DEF AuInv

LEMMA StepKeeps ==
  ASSUME AuInv, [AuNext]_auVars
  PROVE  AuInv'
<1>1. CASE UNCHANGED auVars
  BY <1>1 DEF AuInv, AuTypeOK, AuLockInv, AuTokensInv, AuLive, auVars
<1>2. CASE AuNext
  BY <1>2, RequestsKeep, BrowserKeeps, JoinKeeps, LoginKeeps, LockedKeeps, WarmedKeeps,
     RefreshedKeeps, RefreshHandledKeeps DEF AuNext
<1>. QED  BY <1>1, <1>2

\* Whatever the tabs send, lose and send again, the refreshes of a browser stay one at
\* a time and the calls keep what AppliedOnce rests on: api.ts with authStore.ts.
THEOREM AuInvHolds == AuSpec => [](AuInv /\ AuCallsInv)
<1>1. AuInit => AuInv /\ AuCallsInv
  BY InitInv
<1>2. (AuInv /\ AuCallsInv) /\ [AuNext]_auVars => (AuInv /\ AuCallsInv)'
  BY StepKeeps, CallsStep DEF AuInv
<1>. QED  BY <1>1, <1>2, PTL DEF AuSpec

\* No write is applied twice by the resending of request().
THEOREM AppliedOnceHolds == AuSpec => []AppliedOnce
<1>1. AuCallsInv => AppliedOnce
  BY DEF AuCallsInv, AuCall, AuOnce, AppliedOnce
<1>. QED  BY <1>1, AuInvHolds, PTL

\* Without a lost answer no used refresh token reaches the server: tryRefresh and its lock.
THEOREM ReuseOnlyAfterFaultHolds == AuSpec => []ReuseOnlyAfterFault
<1>1. AuInv => ReuseOnlyAfterFault
  BY DEF AuInv, AuTokensInv, ReuseOnlyAfterFault
<1>. QED  BY <1>1, AuInvHolds, PTL

(***************************************************************************)
(* The settings                                                            *)
(***************************************************************************)
LEMMA SettingsInitial == SeInit => SettingsInv
<1>. SUFFICES ASSUME SeInit PROVE SettingsInv
  OBVIOUS
<1>1. seRow \in [SeUsers -> SeRecord]
  BY SeAssumption DEF SeInit
<1>2. seUser \in [id : SeId, name : {"none", "old", "new"}, avatar : {"none", "AB"}] /\ seHint \in SeId
        /\ seUser.id = seHint
        /\ seAt \in {"profile", "levels", "elsewhere"} /\ seLocal \in SeMarker
  BY <1>1 DEF SeInit, SeDefault, SeId, SeRecord, SeMarker, SeMarkerStyle, SeStyles, SeMarkerFx, SeImageKind
<1>3. seSync \in [timer : BOOLEAN, current : Nat, used : Nat] /\ sePuts = {} /\ seMe = {} /\ seEdit = SeNoEdit
        /\ seSync.used = 0
  BY DEF SeInit
<1>4. seHist \in SeHistOf /\ seHist.last = 0 /\ ~seHist.owed
  BY DEF SeInit, SeHistOf
<1>5. SeTypeOK
  BY <1>1, <1>2, <1>3, <1>4 DEF SeTypeOK
<1>. QED  BY <1>2, <1>3, <1>4, <1>5 DEF SettingsInv, PutsNumbered, OneIdentity, LastChangeSent

(* ---- the fields, step by step ------------------------------------------------- *)
\* What the proofs below read from the types.
LEMMA SeParts ==
  ASSUME SettingsInv
  PROVE  /\ SeTypeOK /\ PutsNumbered /\ OneIdentity /\ LastChangeSent
         /\ seSync.used \in Nat /\ seSync.timer \in BOOLEAN /\ seSync.current \in Nat
         /\ seHist.last \in Nat /\ seHist.last <= seSync.used
         /\ \A p \in sePuts : p \in SePut /\ p.n \in Nat
BY DEF SettingsInv, SeTypeOK, SeHistOf, PutsNumbered, SePut

\* The user, the page and what is being saved change, the marker does not: a change that
\* is owed is not left behind, or none is owed.
LEMMA ElsewhereKeeps ==
  ASSUME SettingsInv, SeTypeOK', UNCHANGED <<seLocal, sePuts>>,
         \A u \in SeUsers : SeKept(seRow'[u], SePayload(seLocal)) = SeKept(seRow[u], SePayload(seLocal)),
         seSync'.used = seSync.used, seHist'.last = seHist.last,
         OneIdentity',
         seHist'.owed => seHist.owed /\ seHint' = seHint /\ (seSync.timer => seSync'.timer)
  PROVE  SettingsInv'
<1>1. PutsNumbered'
  BY DEF SettingsInv, PutsNumbered
<1>2. LastChangeSent'
  BY DEF SettingsInv, LastChangeSent, SeTypeOK, SeId
<1>. QED  BY <1>1, <1>2 DEF SettingsInv

LEMMA SeAccountKeeps ==
  ASSUME SettingsInv, SeExpire \/ SeProfile \/ SeLogout \/ \E u \in SeUsers : SeLogin(u)
  PROVE  SettingsInv'
<1>0. SeTypeOK /\ PutsNumbered /\ OneIdentity
  BY SeParts
<1>1. CASE SeExpire
  <2>1. UNCHANGED <<seHint, seAt, seLocal, seRow, seSync, sePuts, seMe, seEdit>> /\ seUser' = SeNobody
        /\ seHist' = [seHist EXCEPT !.visits = seHist.visits + 1]
    BY <1>1 DEF SeExpire
  <2>2. seHist' \in SeHistOf /\ (seHist'.owed = seHist.owed) /\ seHist'.last = seHist.last
    BY <1>0, <2>1 DEF SeTypeOK, SeHistOf
  <2>3. SeTypeOK'
    BY <1>0, <2>1, <2>2 DEF SeTypeOK, SeNobody, SeId
  <2>4. OneIdentity'
    BY <1>0, <2>1 DEF OneIdentity, SeNobody
  <2>. QED  BY <2>1, <2>2, <2>3, <2>4, ElsewhereKeeps
<1>2. CASE SeProfile
  <2>1. UNCHANGED <<seUser, seHint, seLocal, seRow, seSync, sePuts, seMe, seEdit, seHist>> /\ seAt' = "profile"
    BY <1>2 DEF SeProfile
  <2>2. SeTypeOK'
    BY <1>0, <2>1 DEF SeTypeOK
  <2>3. OneIdentity'
    BY <1>0, <2>1 DEF OneIdentity
  <2>. QED  BY <2>1, <2>2, <2>3, ElsewhereKeeps
<1>3. CASE SeLogout
  <2>1. /\ seUser' = SeNobody /\ seHint' = "nobody" /\ seAt' = "elsewhere" /\ seLocal' = SeDefault
        /\ seSync' = [seSync EXCEPT !.timer = FALSE, !.current = 0]
        /\ seHist' = [seHist EXCEPT !.owed = FALSE]
        /\ UNCHANGED <<seRow, sePuts, seMe, seEdit>>
    BY <1>3 DEF SeLogout
  <2>2. SeTypeOK' /\ ~seHist'.owed /\ seHist'.last = seHist.last /\ seSync'.used = seSync.used
    BY <1>0, <2>1 DEF SeTypeOK, SeHistOf, SeNobody, SeDefault, SeId, SeMarker, SeMarkerStyle, SeStyles, SeMarkerFx, SeImageKind
  <2>3. OneIdentity' /\ PutsNumbered' /\ LastChangeSent'
    BY <1>0, <2>1, <2>2 DEF OneIdentity, PutsNumbered, LastChangeSent
  <2>. QED  BY <2>2, <2>3 DEF SettingsInv
<1>4. ASSUME NEW u \in SeUsers, SeLogin(u) PROVE SettingsInv'
  <2>. DEFINE more == seHist.visits + 1
  <2>1. PICK avatar \in {seRow[u].avatar, "none"} :
          /\ seUser' = [id |-> u, name |-> seRow[u].name, avatar |-> avatar]
          /\ seHint' = u /\ seAt' = "elsewhere"
          /\ seSync' = [seSync EXCEPT !.timer = FALSE, !.current = 0]
          /\ seHist' = [seHist EXCEPT !.visits = more, !.owed = FALSE, !.replaced = FALSE]
          /\ UNCHANGED <<seLocal, seRow, sePuts, seMe, seEdit>>
    BY <1>4 DEF SeLogin
  <2>2. more \in Nat
    BY <1>0 DEF SeTypeOK, SeHistOf
  <2>. HIDE DEF more
  <2>3. seUser' \in [id : SeId, name : {"none", "old", "new"}, avatar : {"none", "AB"}] /\ seUser'.id = u
    BY <1>0, <2>1 DEF SeTypeOK, SeRecord, SeId
  <2>4. SeTypeOK' /\ ~seHist'.owed /\ seHist'.last = seHist.last /\ seSync'.used = seSync.used
    BY <1>0, <2>1, <2>2, <2>3 DEF SeTypeOK, SeHistOf, SeId
  <2>5. OneIdentity'
    BY <2>1, <2>3 DEF OneIdentity
  <2>. QED  BY <2>1, <2>4, <2>5, ElsewhereKeeps
<1>. QED  BY <1>1, <1>2, <1>3, <1>4

LEMMA SeVisitsKeep ==
  ASSUME SettingsInv, SeOpenPage \/ SeLevels
  PROVE  SettingsInv'
<1>. DEFINE more == seHist.visits + 1
            owed == seHist.owed /\ ~seSync.timer
<1>0. SeTypeOK /\ PutsNumbered /\ OneIdentity /\ more \in Nat /\ owed \in BOOLEAN
  BY SeParts DEF SeTypeOK, SeHistOf
<1>. DEFINE me(kind) == [id |-> seHint, kind |-> kind, read |-> FALSE, row |-> SeNoRecord]
<1>1. ASSUME seHint # "nobody" PROVE me("init") \in SeProfileRequest /\ me("refresh") \in SeProfileRequest
  <2>1. SeNoRecord \in SeRecord
    BY DEF SeNoRecord, SeRecord, SeMarkerStyle, SeMarkerFx, SeImageKind
  <2>2. seHint \in SeUsers
    BY <1>0, <1>1 DEF SeTypeOK, SeId
  <2>. QED  BY <2>1, <2>2 DEF SeProfileRequest
<1>2. CASE SeOpenPage
  <2>1. /\ seUser' = SeNobody /\ seAt' = "elsewhere"
        /\ seSync' = [seSync EXCEPT !.timer = FALSE, !.current = 0]
        /\ seMe' = IF seHint = "nobody" THEN {}
                   ELSE {me("init")}
        /\ seEdit' = SeNoEdit
        /\ seHist' = [seHist EXCEPT !.visits = more, !.owed = FALSE, !.replaced = FALSE]
        /\ UNCHANGED <<seHint, seLocal, seRow, sePuts>>
    BY <1>2 DEF SeOpenPage
  <2>. HIDE DEF more, owed, me
  <2>2. seMe' \subseteq SeProfileRequest
    BY <1>1, <2>1
  <2>3. SeTypeOK' /\ ~seHist'.owed /\ seHist'.last = seHist.last /\ seSync'.used = seSync.used
    BY <1>0, <2>1, <2>2 DEF SeTypeOK, SeHistOf, SeId, SeNobody
  <2>4. OneIdentity'
    BY <2>1 DEF OneIdentity, SeNobody
  <2>. QED  BY <2>1, <2>3, <2>4, ElsewhereKeeps
<1>3. CASE SeLevels
  <2>1. /\ seAt' = "levels"
        /\ seSync' = [seSync EXCEPT !.timer = FALSE, !.current = 0]
        /\ seHist' = [seHist EXCEPT !.owed = owed]
        /\ seMe' = IF seHint = "nobody" THEN seMe
                   ELSE seMe \cup {me("refresh")}
        /\ UNCHANGED <<seUser, seHint, seLocal, seRow, sePuts, seEdit>>
    BY <1>3 DEF SeLevels, SeLeft
  <2>. HIDE DEF more, me
  <2>2. seMe' \subseteq SeProfileRequest
    BY <1>0, <1>1, <2>1 DEF SeTypeOK
  <2>3. /\ seHist' \in SeHistOf /\ seHist'.last = seHist.last /\ (seHist'.owed = owed)
        /\ seHist'.replaced = seHist.replaced
    <3>. HIDE DEF owed
    <3>. QED  BY <1>0, <2>1 DEF SeTypeOK, SeHistOf
  <2>4. SeTypeOK' /\ seSync'.used = seSync.used
    BY <1>0, <2>1, <2>2, <2>3 DEF SeTypeOK
  <2>5. OneIdentity'
    BY <1>0, <2>1, <2>3 DEF OneIdentity
  <2>. QED  BY <2>1, <2>3, <2>4, <2>5, ElsewhereKeeps
<1>. QED  BY <1>2, <1>3

LEMMA SeMeKeeps ==
  ASSUME SettingsInv, NEW m \in seMe, SeMeHandled(m) \/ SeMeAnswered(m) \/ SeMeLost(m)
  PROVE  SettingsInv'
<1>0. SeTypeOK /\ PutsNumbered /\ OneIdentity /\ LastChangeSent /\ m \in SeProfileRequest
  BY SeParts DEF SeTypeOK
<1>1. CASE SeMeHandled(m)
  <2>. DEFINE row == IF m.kind = "init" THEN seRow[m.id]
                     ELSE [SeNoRecord EXCEPT !.name = seRow[m.id].name, !.avatar = seRow[m.id].avatar]
  <2>1. seMe' = (seMe \ {m}) \cup {[m EXCEPT !.read = TRUE, !.row = row]}
        /\ UNCHANGED <<seUser, seHint, seAt, seLocal, seRow, seSync, sePuts, seEdit, seHist>>
    BY <1>1 DEF SeMeHandled
  <2>2. row \in SeRecord
    <3>1. seRow[m.id] \in SeRecord
      BY <1>0 DEF SeTypeOK, SeProfileRequest
    <3>. QED  BY <3>1 DEF SeNoRecord, SeRecord, SeMarkerStyle, SeMarkerFx, SeImageKind
  <2>. HIDE DEF row
  <2>3. [m EXCEPT !.read = TRUE, !.row = row] \in SeProfileRequest
    BY <1>0, <2>2 DEF SeProfileRequest
  <2>4. SeTypeOK'
    BY <1>0, <2>1, <2>3 DEF SeTypeOK
  <2>5. OneIdentity'
    BY <1>0, <2>1 DEF OneIdentity
  <2>. QED  BY <2>1, <2>4, <2>5, ElsewhereKeeps
<1>2. CASE SeMeAnswered(m)
  <2>. DEFINE user == [id |-> m.id, name |-> m.row.name, avatar |-> m.row.avatar]
              owed == seHist.owed /\ m.kind # "init"
              replaced == seHint \notin {m.id, "nobody"}
  <2>1. /\ seMe' = seMe \ {m} /\ seUser' = user
        /\ seLocal' = IF m.kind = "init" THEN SeHydrated(m.row) ELSE seLocal
        /\ seHist' = [seHist EXCEPT !.owed = owed, !.replaced = replaced]
        /\ UNCHANGED <<seHint, seAt, seRow, seSync, sePuts, seEdit>>
    BY <1>2 DEF SeMeAnswered
  <2>2. user \in [id : SeId, name : {"none", "old", "new"}, avatar : {"none", "AB"}] /\ user.id = m.id
    BY <1>0 DEF SeProfileRequest, SeRecord, SeId
  <2>3. SeHydrated(m.row) \in SeMarker
    BY <1>0 DEF SeTypeOK, SeHydrated, SeMarker, SeProfileRequest, SeRecord
  <2>. HIDE DEF user
  <2>4. seHist' \in SeHistOf /\ (seHist'.owed = owed) /\ (seHist'.replaced = replaced) /\ seHist'.last = seHist.last
    <3>1. owed \in BOOLEAN /\ replaced \in BOOLEAN
      BY <1>0 DEF SeTypeOK, SeHistOf
    <3>. HIDE DEF owed, replaced
    <3>. QED  BY <1>0, <2>1, <3>1 DEF SeTypeOK, SeHistOf
  <2>5. SeTypeOK'
    BY <1>0, <2>1, <2>2, <2>3, <2>4 DEF SeTypeOK
  <2>6. OneIdentity'
    BY <2>1, <2>2, <2>4 DEF OneIdentity
  <2>7. PutsNumbered' /\ LastChangeSent'
    BY <1>0, <2>1, <2>4 DEF PutsNumbered, LastChangeSent
  <2>. QED  BY <2>5, <2>6, <2>7 DEF SettingsInv
<1>3. CASE SeMeLost(m)
  <2>1. seMe' = seMe \ {m} /\ UNCHANGED <<seUser, seHint, seAt, seLocal, seRow, seSync, sePuts, seEdit, seHist>>
    BY <1>3 DEF SeMeLost
  <2>2. SeTypeOK'
    BY <1>0, <2>1 DEF SeTypeOK
  <2>3. OneIdentity'
    BY <1>0, <2>1 DEF OneIdentity
  <2>. QED  BY <2>1, <2>2, <2>3, ElsewhereKeeps
<1>. QED  BY <1>1, <1>2, <1>3

(* ---- the marker -------------------------------------------------------------------- *)
\* A PUT of the values l under a new number is the last one.
LEMMA PushKeeps ==
  ASSUME SettingsInv, NEW l \in SeMarker, NEW pushed,
         pushed \in [timer : BOOLEAN, current : Nat, used : Nat], pushed.used = seSync.used,
         SePush(l, pushed), seLocal' = l, SeTypeOK' \/ seUser' = seUser,
         UNCHANGED <<seUser, seHint, seAt, seRow, seMe, seEdit>>,
         seHist' \in SeHistOf, seHist'.last = seHist.last, seHist'.replaced = seHist.replaced
  PROVE  SettingsInv'
<1>. DEFINE n == seSync.used + 1
            pay == SePayload(l)
            put == [n |-> n, id |-> seHint, pay |-> pay, stage |-> "sent"]
<1>0. /\ SeTypeOK /\ PutsNumbered /\ OneIdentity /\ n \in Nat /\ seHist.last \in Nat
      /\ \A p \in sePuts : p.n \in Nat /\ p.n < n
      /\ seHist.last < n
  BY SeParts DEF PutsNumbered
<1>1. sePuts' = sePuts \cup {put} /\ seSync' = [pushed EXCEPT !.used = n, !.current = n]
  BY DEF SePush, SePayload
<1>2. pay \in SeMarker
  BY DEF SePayload, SeMarker, SeImageKind
<1>. HIDE DEF n, pay
<1>3. put \in SePut /\ put.n = n /\ put.id = seHint /\ put.pay = pay /\ put.stage = "sent"
  BY <1>0, <1>2 DEF SePut, SeTypeOK
<1>. HIDE DEF put
<1>4. seSync' \in [timer : BOOLEAN, current : Nat, used : Nat] /\ seSync'.used = n
  BY <1>0, <1>1
<1>5. SeTypeOK'
  BY <1>0, <1>1, <1>3, <1>4 DEF SeTypeOK
<1>6. PutsNumbered'
  BY <1>0, <1>1, <1>3, <1>4 DEF PutsNumbered
<1>7. OneIdentity'
  BY <1>0 DEF OneIdentity
<1>8. LastChangeSent'
  BY <1>1, <1>3, <1>4 DEF LastChangeSent, pay
<1>. QED  BY <1>5, <1>6, <1>7, <1>8 DEF SettingsInv

LEMMA SeMarkerKeeps ==
  ASSUME SettingsInv,
         \/ \E style \in SeStyles : SeStyle(style)
         \/ \E fx \in {"fragments", "angry"} : SeFx(fx)
         \/ \E image \in {"none", "img"} : SeImage(image)
         \/ SeFire
  PROVE  SettingsInv'
<1>. DEFINE more == seHist.choices + 1
            touched == [seHist EXCEPT !.choices = more, !.owed = TRUE]
<1>0. SeTypeOK /\ PutsNumbered /\ OneIdentity /\ more \in Nat /\ seHist \in SeHistOf
  BY SeParts DEF SeTypeOK, SeHistOf
<1>. HIDE DEF more
<1>1. touched \in SeHistOf /\ touched.last = seHist.last /\ touched.replaced = seHist.replaced
  BY <1>0 DEF SeHistOf
<1>2. ASSUME NEW l \in SeMarker, seLocal' = l, SeQueue, seHist' = touched,
             UNCHANGED <<seUser, seHint, seAt, seRow, sePuts, seMe, seEdit>>
      PROVE  SettingsInv'
  <2>1. seSync' = [seSync EXCEPT !.timer = TRUE]
    BY <1>2 DEF SeQueue
  <2>2. SeTypeOK' /\ seSync'.timer /\ seSync'.used = seSync.used
    <3>1. seSync' \in [timer : BOOLEAN, current : Nat, used : Nat] /\ seSync'.timer /\ seSync'.used = seSync.used
      BY <1>0, <2>1 DEF SeTypeOK
    <3>. HIDE DEF touched
    <3>. QED  BY <1>0, <1>1, <1>2, <3>1 DEF SeTypeOK
  <2>3. PutsNumbered' /\ OneIdentity' /\ LastChangeSent'
    BY <1>0, <1>1, <1>2, <2>2 DEF PutsNumbered, OneIdentity, LastChangeSent
  <2>. QED  BY <2>2, <2>3 DEF SettingsInv
<1>3. CASE \E style \in SeStyles : SeStyle(style)
  <2>1. PICK style \in SeStyles : SeStyle(style)
    BY <1>3
  <2>2. [seLocal EXCEPT !.style = style] \in SeMarker
    BY <1>0 DEF SeTypeOK, SeMarker, SeMarkerStyle
  <2>. QED  BY <1>2, <2>1, <2>2 DEF SeStyle, SeTouched, more
<1>4. CASE \E fx \in {"fragments", "angry"} : SeFx(fx)
  <2>1. PICK fx \in {"fragments", "angry"} : SeFx(fx)
    BY <1>4
  <2>2. [seLocal EXCEPT !.fx = fx] \in SeMarker
    BY <1>0 DEF SeTypeOK, SeMarker, SeMarkerFx
  <2>. QED  BY <1>2, <2>1, <2>2 DEF SeFx, SeTouched, more
<1>5. CASE \E image \in {"none", "img"} : SeImage(image)
  <2>1. PICK image \in {"none", "img"} : SeImage(image)
    BY <1>5
  <2>2. [seLocal EXCEPT !.image = image] \in SeMarker
    BY <1>0 DEF SeTypeOK, SeMarker, SeImageKind
  <2>3. /\ seLocal' = [seLocal EXCEPT !.image = image] /\ SePush(seLocal', seSync) /\ seHist' = touched
        /\ UNCHANGED <<seUser, seHint, seAt, seRow, seMe, seEdit>>
    BY <2>1 DEF SeImage, SeTouched, more
  <2>4. seSync \in [timer : BOOLEAN, current : Nat, used : Nat]
    BY <1>0 DEF SeTypeOK
  <2>. HIDE DEF touched
  <2>. QED  BY <1>1, <2>2, <2>3, <2>4, PushKeeps
<1>6. CASE SeFire
  <2>1. [seSync EXCEPT !.timer = FALSE] \in [timer : BOOLEAN, current : Nat, used : Nat]
        /\ [seSync EXCEPT !.timer = FALSE].used = seSync.used
    BY <1>0 DEF SeTypeOK
  <2>2. CASE seUser.id = "nobody"
    <3>1. /\ seSync' = [seSync EXCEPT !.timer = FALSE] /\ seHist' = [seHist EXCEPT !.owed = FALSE]
          /\ UNCHANGED <<sePuts, seUser, seHint, seAt, seLocal, seRow, seMe, seEdit>>
      BY <1>6, <2>2 DEF SeFire
    <3>2. seHist' \in SeHistOf /\ ~seHist'.owed /\ seHist'.last = seHist.last /\ seHist'.replaced = seHist.replaced
      BY <1>0, <3>1 DEF SeHistOf
    <3>3. SeTypeOK'
      BY <1>0, <2>1, <3>1, <3>2 DEF SeTypeOK
    <3>4. PutsNumbered' /\ OneIdentity' /\ LastChangeSent'
      BY <1>0, <2>1, <3>1, <3>2 DEF PutsNumbered, OneIdentity, LastChangeSent
    <3>. QED  BY <3>3, <3>4 DEF SettingsInv
  <2>3. CASE seUser.id # "nobody"
    <3>1. /\ SePush(seLocal, [seSync EXCEPT !.timer = FALSE])
          /\ UNCHANGED <<seUser, seHint, seAt, seLocal, seRow, seMe, seEdit, seHist>>
      BY <1>6, <2>3 DEF SeFire
    <3>2. seLocal \in SeMarker
      BY <1>0 DEF SeTypeOK
    <3>. QED  BY <1>0, <2>1, <3>1, <3>2, PushKeeps
  <2>. QED  BY <2>2, <2>3
<1>. QED  BY <1>3, <1>4, <1>5, <1>6

LEMMA SePutsKeep ==
  ASSUME SettingsInv, NEW p \in sePuts, SePutHandled(p) \/ SePutAnswered(p) \/ SePutLost(p)
  PROVE  SettingsInv'
<1>. DEFINE current == IF seSync.current = p.n THEN 0 ELSE seSync.current
<1>0. /\ SeTypeOK /\ PutsNumbered /\ OneIdentity /\ LastChangeSent /\ p \in SePut /\ p.n \in Nat /\ p.n <= seSync.used
      /\ current \in Nat /\ seHist \in SeHistOf /\ seHist.last \in Nat /\ seHist.last <= seSync.used /\ seSync.used \in Nat
  BY SeParts DEF PutsNumbered, SeTypeOK
<1>1. CASE SePutHandled(p)
  <2>. DEFINE done == [p EXCEPT !.stage = "done"]
              kept == [seRow[p.id] EXCEPT !.style = p.pay.style, !.image = p.pay.image, !.fx = p.pay.fx]
              left == IF p.n = seSync.current THEN {done} ELSE {}
              owed == seHist.owed /\ (p.n < seHist.last => seHist.last # seSync.used)
              last == IF p.n > seHist.last THEN p.n ELSE seHist.last
  <2>1. /\ p.stage = "sent" /\ p.id # "nobody" /\ sePuts' = (sePuts \ {p}) \cup left
        /\ seRow' = [seRow EXCEPT ![p.id] = kept]
        /\ seHist' = [seHist EXCEPT !.owed = owed, !.last = last]
        /\ UNCHANGED <<seUser, seHint, seAt, seLocal, seSync, seMe, seEdit>>
    <3>1. p.id # "nobody"
      BY <1>1 DEF SePutHandled
    <3>2. p.id \in SeUsers
      BY <1>0, <3>1 DEF SePut, SeId
    <3>. QED  BY <1>0, <1>1, <3>2 DEF SePutHandled, SeTypeOK
  <2>2. p.id \in SeUsers
    BY <1>0, <2>1 DEF SePut, SeId
  <2>3. done \in SePut /\ done.n = p.n /\ done.stage = "done"
    BY <1>0 DEF SePut
  <2>4. kept \in SeRecord /\ SeKept(kept, p.pay)
    <3>. DEFINE old == seRow[p.id]
                pay == p.pay
    <3>1. old \in SeRecord /\ pay \in SeMarker
      BY <1>0, <2>2 DEF SeTypeOK, SePut
    <3>2. kept = [old EXCEPT !.style = pay.style, !.image = pay.image, !.fx = pay.fx]
      OBVIOUS
    <3>. HIDE DEF old, pay, kept
    <3>3. kept \in SeRecord /\ SeKept(kept, pay)
      BY <3>1, <3>2 DEF SeRecord, SeMarker, SeKept
    <3>. QED  BY <3>3 DEF pay
  <2>5. owed \in BOOLEAN /\ last \in Nat /\ last <= seSync.used
    BY <1>0 DEF SeHistOf
  <2>6. seHist' \in SeHistOf /\ seHist'.last = last /\ (seHist'.owed = owed) /\ seHist'.replaced = seHist.replaced
    <3>. HIDE DEF owed, last
    <3>. QED  BY <1>0, <2>1, <2>5 DEF SeHistOf
  <2>. HIDE DEF done, kept
  <2>7. SeTypeOK'
    <3>. HIDE DEF last, owed
    <3>. QED  BY <1>0, <2>1, <2>2, <2>3, <2>4, <2>6 DEF SeTypeOK
  <2>8. PutsNumbered' /\ OneIdentity'
    BY <1>0, <2>1, <2>3, <2>5, <2>6 DEF PutsNumbered, OneIdentity
  <2>9. LastChangeSent'
    <3>. SUFFICES ASSUME owed, ~seSync.timer
                  PROVE  \/ \E q \in sePuts' : q.n = seSync.used /\ q.stage = "sent" /\ q.id = seHint /\ q.pay = SePayload(seLocal)
                         \/ last = seSync.used /\ seHint # "nobody" /\ SeKept(seRow'[seHint], SePayload(seLocal))
      BY <2>1, <2>6 DEF LastChangeSent
    <3>1. CASE \E q \in sePuts : q.n = seSync.used /\ q.stage = "sent" /\ q.id = seHint /\ q.pay = SePayload(seLocal)
      <4>1. PICK q \in sePuts : q.n = seSync.used /\ q.stage = "sent" /\ q.id = seHint /\ q.pay = SePayload(seLocal)
        BY <3>1
      <4>2. CASE q = p
        <5>1. last = seSync.used
          BY <1>0, <4>1, <4>2
        <5>2. seRow'[seHint] = kept
          BY <1>0, <2>1, <2>2, <4>1, <4>2 DEF SeTypeOK
        <5>. QED  BY <2>1, <2>4, <4>1, <4>2, <5>1, <5>2
      <4>. QED  BY <2>1, <4>1, <4>2
    <3>2. CASE seHist.last = seSync.used
      <4>1. p.n < seHist.last
        BY <1>0, <2>1, <3>2 DEF PutsNumbered
      <4>. QED  BY <3>2, <4>1
    <3>. QED  BY <1>0, <3>1, <3>2 DEF LastChangeSent
  <2>. QED  BY <2>7, <2>8, <2>9 DEF SettingsInv
<1>2. CASE SePutAnswered(p) \/ SePutLost(p)
  <2>. DEFINE owed == seHist.owed /\ p.n # seSync.used
              losses == IF p.n = seSync.current /\ p.id # "nobody" THEN seHist.faults + 1 ELSE seHist.faults
  <2>1. /\ sePuts' = sePuts \ {p} /\ seSync' = [seSync EXCEPT !.current = current]
        /\ UNCHANGED <<seUser, seHint, seAt, seLocal, seRow, seMe, seEdit>>
        /\ \/ p.stage = "done" /\ seHist' = seHist
           \/ seHist' = [seHist EXCEPT !.faults = losses, !.owed = owed]
    BY <1>2 DEF SePutAnswered, SePutLost
  <2>2. losses \in Nat /\ owed \in BOOLEAN
    BY <1>0 DEF SeHistOf
  <2>3. /\ seHist' \in SeHistOf /\ seHist'.last = seHist.last /\ seHist'.replaced = seHist.replaced
        /\ (p.stage = "done" /\ seHist'.owed = seHist.owed) \/ (seHist'.owed = owed)
    <3>. HIDE DEF losses, owed
    <3>. QED  BY <1>0, <2>1, <2>2 DEF SeHistOf
  <2>4. seSync' \in [timer : BOOLEAN, current : Nat, used : Nat] /\ seSync'.used = seSync.used
          /\ seSync'.timer = seSync.timer
    <3>. HIDE DEF current
    <3>. QED  BY <1>0, <2>1 DEF SeTypeOK
  <2>5. SeTypeOK'
    BY <1>0, <2>1, <2>3, <2>4 DEF SeTypeOK
  <2>6. PutsNumbered' /\ OneIdentity'
    BY <1>0, <2>1, <2>3, <2>4 DEF PutsNumbered, OneIdentity
  <2>7. LastChangeSent'
    BY <1>0, <2>1, <2>3, <2>4 DEF LastChangeSent
  <2>. QED  BY <2>5, <2>6, <2>7 DEF SettingsInv
<1>. QED  BY <1>1, <1>2

(* ---- name and avatar ------------------------------------------------------------------ *)
LEMMA SeEditKeeps ==
  ASSUME SettingsInv, SeSaveHandled \/ SeSaved \/ \E field \in {"name", "avatar"} : SeSave(field)
  PROVE  SettingsInv'
<1>. DEFINE Edit == [id : SeUsers, field : {"name", "avatar"}, stage : {"sent", "done"}]
            User == [id : SeId, name : {"none", "old", "new"}, avatar : {"none", "AB"}]
<1>0. SeTypeOK /\ PutsNumbered /\ OneIdentity /\ seUser \in User /\ seRow \in [SeUsers -> SeRecord]
  BY SeParts DEF SeTypeOK
<1>1. UNCHANGED <<seHint, seAt, seLocal, seSync, sePuts, seMe>>
  BY DEF SeSave, SeSaveHandled, SeSaved
<1>2. /\ seUser' \in User /\ seUser'.id = seUser.id /\ (seEdit' = SeNoEdit \/ seEdit' \in Edit)
      /\ seRow' \in [SeUsers -> SeRecord]
      /\ \A u \in SeUsers : \A pay : SeKept(seRow'[u], pay) = SeKept(seRow[u], pay)
  <2>1. ASSUME NEW field \in {"name", "avatar"}, SeSave(field) PROVE <1>2
    <3>1. seHint \in SeUsers
      BY <1>0, <2>1 DEF SeSave, SeTypeOK, SeId
    <3>. QED  BY <1>0, <2>1, <3>1 DEF SeSave
  <2>2. CASE SeSaveHandled
    <3>1. seEdit \in Edit /\ seUser' = seUser
      BY <1>0, <2>2 DEF SeSaveHandled, SeTypeOK, SeNoEdit
    <3>. DEFINE old == seRow[seEdit.id]
                row == IF seEdit.field = "name" THEN [old EXCEPT !.name = "new"]
                       ELSE [old EXCEPT !.avatar = IF old.avatar = "none" THEN "AB" ELSE "none"]
    <3>2. seRow' = [seRow EXCEPT ![seEdit.id] = row] /\ seEdit' = [seEdit EXCEPT !.stage = "done"]
      BY <1>0, <2>2, <3>1 DEF SeSaveHandled
    <3>3. row \in SeRecord /\ \A pay : SeKept(row, pay) = SeKept(old, pay)
      BY <1>0, <3>1 DEF SeRecord, SeKept
    <3>4. seEdit' \in Edit
      BY <3>1, <3>2
    <3>. HIDE DEF row
    <3>. QED  BY <1>0, <3>1, <3>2, <3>3, <3>4
  <2>3. CASE SeSaved
    <3>1. seEdit \in Edit /\ seEdit' = SeNoEdit /\ seRow' = seRow
      BY <1>0, <2>3 DEF SeSaved, SeTypeOK, SeNoEdit
    <3>2. seRow[seEdit.id].avatar \in {"none", "AB"}
      BY <1>0, <3>1 DEF SeRecord
    <3>3. seUser' = seUser \/ seUser' = [seUser EXCEPT !.name = "new"]
            \/ seUser' = [seUser EXCEPT !.avatar = seRow[seEdit.id].avatar]
      BY <2>3 DEF SeSaved
    <3>. QED  BY <1>0, <3>1, <3>2, <3>3
  <2>. QED  BY <2>1, <2>2, <2>3
<1>3. seHist' \in SeHistOf /\ seHist'.last = seHist.last /\ seHist'.owed = seHist.owed /\ seHist'.replaced = seHist.replaced
  BY <1>0 DEF SeSave, SeSaveHandled, SeSaved, SeTypeOK, SeHistOf
<1>4. SeTypeOK'
  BY <1>0, <1>1, <1>2, <1>3 DEF SeTypeOK
<1>5. OneIdentity'
  BY <1>0, <1>1, <1>2, <1>3 DEF OneIdentity
<1>. QED  BY <1>1, <1>2, <1>3, <1>4, <1>5, ElsewhereKeeps

LEMMA SettingsStep == SettingsInv /\ [SeNext]_seVars => SettingsInv'
<1>. SUFFICES ASSUME SettingsInv, [SeNext]_seVars PROVE SettingsInv'
  OBVIOUS
<1>1. CASE UNCHANGED seVars
  BY <1>1 DEF seVars, SettingsInv, SeTypeOK, PutsNumbered, OneIdentity, LastChangeSent
<1>. QED  BY <1>1, SeAccountKeeps, SeVisitsKeep, SeMeKeeps, SeMarkerKeeps, SePutsKeep, SeEditKeeps DEF SeNext

LEMMA SettingsImplied == SettingsInv => SettingsSaved
<1>. SUFFICES ASSUME SettingsInv, seHist.owed, ~seSync.timer, sePuts = {}
              PROVE  /\ seHint # "nobody"
                     /\ seRow[seHint].style = seLocal.style /\ seRow[seHint].fx = seLocal.fx
                     /\ seLocal.style = "custom" => seRow[seHint].image = seLocal.image
                     /\ seUser.id \in {"nobody", seHint} \/ seHist.replaced
  BY DEF SettingsSaved
<1>1. seHint # "nobody" /\ SeKept(seRow[seHint], SePayload(seLocal))
  BY DEF SettingsInv, LastChangeSent
<1>2. seUser.id \in {"nobody", seHint} \/ seHist.replaced
  BY <1>1 DEF SettingsInv, OneIdentity
<1>3. seLocal \in SeMarker
  BY DEF SettingsInv, SeTypeOK
<1>. QED  BY <1>1, <1>2, <1>3 DEF SeKept, SePayload, SeMarker

(***************************************************************************)
(* The ranking views                                                       *)
(***************************************************************************)
LEMMA RankingsInitial == RaInit => RankingsInv
<1>. SUFFICES ASSUME RaInit PROVE RankingsInv
  OBVIOUS
<1>1. PICK chosen \in RaTabs \cup RaAdminTabs, link \in BOOLEAN :
        /\ chosen \in (IF raOpen = "admin" THEN RaAdminTabs ELSE {"personal", "global"})
        /\ link => raOpen = "rankings"
        /\ ra = [tab |-> chosen, cls |-> "none", act |-> "none", scope |-> "school",
                 scopeCls |-> "none", level |-> "all", page |-> 1, link |-> link,
                 mounted |-> FALSE, early |-> FALSE, timer |-> FALSE]
  BY DEF RaInit
<1>2. /\ raLists = RaEmpty /\ raCalls = {} /\ raOpen \in {"rankings", "board", "admin"}
      /\ raLoad = [n |-> 0, loading |-> FALSE, err |-> FALSE]
  BY DEF RaInit
<1>3. ra \in RaSelection
  BY <1>1 DEF RaSelection
<1>4. DOMAIN RaEmpty = RaListNames /\ RaEmpty = [l \in RaListNames |-> RaEmpty[l]]
  BY DEF RaEmpty, RaListNames
<1>5. RaTypeOK
  BY <1>2, <1>3, <1>4 DEF RaTypeOK
<1>6. ~ra.mounted /\ (ra.link => raOpen = "rankings")
        /\ ra.tab \in (IF raOpen = "admin" THEN RaAdminTabs ELSE {"personal", "global"})
  BY <1>1
<1>. QED  BY <1>2, <1>5, <1>6 DEF RankingsInv, RaTabsOfView, LatestWanted, BoardWanted

\* What the proofs read from the types.
LEMMA RaParts ==
  ASSUME RankingsInv
  PROVE  /\ RaTypeOK /\ RaTabsOfView /\ LatestWanted /\ BoardWanted
         /\ raLoad.n \in Nat /\ raLoad.loading \in BOOLEAN /\ raLoad.err \in BOOLEAN
         /\ DOMAIN raLists = RaListNames /\ raLists = [l \in RaListNames |-> raLists[l]]
         /\ \A c \in raCalls : c.n \in Nat /\ c.n <= raLoad.n /\ c.list \in RaListNames /\ c.silent \in BOOLEAN
         /\ ra \in RaSelection /\ ra.tab \in RaTabs \cup RaAdminTabs
BY DEF RankingsInv, RaTypeOK, RaSelection

LEMMA RaListNamed == \A chosen \in RaTabs \cup RaAdminTabs : RaList(chosen) \in RaListNames
BY DEF RaList, RaListNames

\* Whether a selection asks anything is a matter of its tab, its class and its activity.
LEMMA RaSilentSelection ==
  ASSUME NEW s \in RaSelection, NEW t \in RaSelection,
         s.tab = t.tab, s.cls = t.cls, s.act = t.act, s.scope = t.scope, s.scopeCls = t.scopeCls,
         RaQuery(s) = RaNothing
  PROVE  RaQuery(t) = RaNothing
<1>1. t.tab # "personal" /\ t.tab # "global" /\ t.tab \notin RaAdminTabs
        /\ ~(t.tab = "class" /\ t.cls # "none") /\ ~(t.tab = "external" /\ t.act # "none")
        /\ ~(t.tab = "internal" /\ t.act # "none" /\ t.scope = "school")
        /\ ~(t.tab = "internal" /\ t.act # "none" /\ t.scope = "class" /\ t.scopeCls # "none")
  BY DEF RaQuery, RaNothing, RaAdminTabs
<1>. QED  BY <1>1 DEF RaQuery

LEMMA RaUnfitting ==
  ASSUME NEW t \in RaSelection, t.tab \in {"internal", "external"}, t.act = "none"
  PROVE  RaQuery(t) = RaNothing
BY DEF RaQuery, RaAdminTabs

(* ---- a load ------------------------------------------------------------------- *)
\* Lists are replaced as a whole or one by one.
LEMMA RaListsKept ==
  ASSUME RankingsInv, NEW lists \in {raLists, RaEmpty}, NEW l \in RaListNames, NEW v
  PROVE  /\ DOMAIN lists = RaListNames /\ lists = [k \in RaListNames |-> lists[k]]
         /\ LET new == [lists EXCEPT ![l] = v] IN
              /\ DOMAIN new = RaListNames /\ new = [k \in RaListNames |-> new[k]]
              /\ new[l] = v /\ \A k \in RaListNames : k # l => new[k] = lists[k]
<1>1. DOMAIN lists = RaListNames /\ lists = [k \in RaListNames |-> lists[k]]
  BY RaParts DEF RaEmpty, RaListNames
<1>. QED  BY <1>1

LEMMA RaAskKeeps ==
  ASSUME RankingsInv, NEW s \in RaSelection, NEW lists \in {raLists, RaEmpty}, RaAsk(s, lists),
         raOpen \in {"rankings", "admin"},
         raOpen = "rankings" => s.mounted \/ s.early \/ s.tab \in {"personal", "global"},
         raOpen = "admin" => s.link = ra.link
  PROVE  RankingsInv'
<1>. DEFINE more == raLoad.n + 1
            new == [n |-> more, want |-> RaQuery(s), list |-> RaList(s.tab), silent |-> FALSE, deaf |-> s.tab = "internal"]
<1>0. more \in Nat /\ raLoad.n < more /\ \A c \in raCalls : c.n < more /\ c.n <= more /\ c.n # more
  BY RaParts
<1>1. ra' = s /\ raOpen' = raOpen
  BY DEF RaAsk
<1>2. RaTabsOfView'
  BY <1>1, RaParts DEF RaTabsOfView
<1>3. BoardWanted'
  BY <1>1 DEF BoardWanted
<1>4. CASE RaQuery(s) = RaNothing
  <2>1. raLoad' = raLoad /\ raCalls' = raCalls /\ raLists' \in {lists, [lists EXCEPT !["internal"] = RaNothing]}
    BY <1>4 DEF RaAsk
  <2>2. DOMAIN raLists' = RaListNames /\ raLists' = [l \in RaListNames |-> raLists'[l]]
    <3>1. "internal" \in RaListNames
      BY DEF RaListNames, RaTabs
    <3>2. CASE raLists' = lists
      BY <3>1, <3>2, RaListsKept
    <3>3. CASE raLists' = [lists EXCEPT !["internal"] = RaNothing]
      <4>1. DOMAIN lists = RaListNames
        BY <3>1, RaListsKept
      <4>. QED  BY <3>1, <3>3, <4>1
    <3>. QED  BY <2>1, <3>2, <3>3
  <2>3. RaTypeOK'
    BY <1>1, <2>1, <2>2, RaParts DEF RaTypeOK
  <2>4. LatestWanted'
    BY <1>1, <1>4 DEF LatestWanted
  <2>. QED  BY <1>2, <1>3, <2>3, <2>4 DEF RankingsInv
<1>5. CASE RaQuery(s) # RaNothing
  <2>1. /\ raLists' = lists /\ raLoad' = [n |-> more, loading |-> TRUE, err |-> FALSE]
        /\ raCalls' = RaCancelled \cup {new}
    BY <1>5 DEF RaAsk
  <2>2. RaList(s.tab) \in RaListNames
    BY RaListNamed DEF RaSelection
  <2>3. new.n = more /\ new.want = RaQuery(s) /\ new.list = RaList(s.tab) /\ new.silent \in BOOLEAN
    OBVIOUS
  <2>4. DOMAIN raLists' = RaListNames /\ raLists' = [l \in RaListNames |-> raLists'[l]]
    BY <2>1, <2>2, RaListsKept
  <2>. HIDE DEF new, more
  <2>5. RaTypeOK'
    <3>1. \A c \in raCalls' : c.n \in Nat /\ c.n <= raLoad'.n /\ c.list \in RaListNames /\ c.silent \in BOOLEAN
      BY <1>0, <2>1, <2>2, <2>3, RaParts DEF RaCancelled
    <3>2. raLoad' \in [n : Nat, loading : BOOLEAN, err : BOOLEAN]
      BY <1>0, <2>1
    <3>. QED  BY <1>1, <2>4, <3>1, <3>2, RaParts DEF RaTypeOK
  <2>6. LatestWanted'
    <3>1. ~RaShown'
      BY <2>1 DEF RaShown
    <3>2. \A c \in raCalls' : c.n = raLoad'.n => c = new
      BY <1>0, <2>1 DEF RaCancelled
    <3>. QED  BY <1>1, <2>3, <3>1, <3>2 DEF LatestWanted
  <2>. QED  BY <1>2, <1>3, <2>5, <2>6 DEF RankingsInv
<1>. QED  BY <1>4, <1>5

(* ---- RankingsView --------------------------------------------------------------- *)
LEMMA RaMountedKeeps ==
  ASSUME RankingsInv, RaMounted
  PROVE  RankingsInv'
<1>0. raOpen = "rankings" /\ ra \in RaSelection /\ RaReset(ra) \in RaSelection
  BY RaParts DEF RaMounted, RaReset, RaSelection
<1>1. CASE ra.link
  <2>. DEFINE s == [RaReset(ra) EXCEPT !.tab = "internal", !.act = "open", !.mounted = TRUE]
  <2>1. s \in RaSelection /\ s.mounted
    <3>. DEFINE r == RaReset(ra)
    <3>. HIDE DEF r
    <3>1. r \in RaSelection
      BY <1>0 DEF r
    <3>2. [r EXCEPT !.tab = "internal", !.act = "open", !.mounted = TRUE] \in RaSelection
          /\ [r EXCEPT !.tab = "internal", !.act = "open", !.mounted = TRUE].mounted
      BY <3>1 DEF RaSelection, RaActs, RaTabs
    <3>. QED  BY <3>2 DEF r
  <2>2. RaAsk(s, RaEmpty)
    BY <1>1 DEF RaMounted
  <2>. HIDE DEF s
  <2>. QED  BY <1>0, <2>1, <2>2, RaAskKeeps
<1>2. CASE ~ra.link /\ ra.tab = "personal"
  <2>. DEFINE s == [ra EXCEPT !.mounted = TRUE]
  <2>1. s \in RaSelection /\ s.mounted
    BY <1>0 DEF RaSelection
  <2>2. RaAsk(s, raLists)
    BY <1>2 DEF RaMounted
  <2>. HIDE DEF s
  <2>. QED  BY <1>0, <2>1, <2>2, RaAskKeeps
<1>3. CASE ~ra.link /\ ra.tab # "personal"
  <2>. DEFINE more == raLoad.n + 1
              new == [n |-> more, want |-> <<"global", ra.level, ra.page>>, list |-> "entries",
                      silent |-> FALSE, deaf |-> FALSE]
  <2>0. more \in Nat /\ raLoad.n < more /\ \A c \in raCalls : c.n <= more /\ c.n # more
    BY RaParts
  <2>1. /\ ra' = [ra EXCEPT !.mounted = TRUE] /\ raOpen' = raOpen /\ raLists' = raLists
        /\ raLoad' = [n |-> more, loading |-> TRUE, err |-> FALSE]
        /\ raCalls' = RaCancelled \cup {new}
    BY <1>3 DEF RaMounted
  <2>2. new.n = more /\ new.want = <<"global", ra.level, ra.page>> /\ new.list = "entries" /\ new.silent \in BOOLEAN
    OBVIOUS
  <2>. HIDE DEF new, more
  <2>3. ra' \in RaSelection /\ ra'.mounted /\ ra'.tab = ra.tab /\ ra'.level = ra.level /\ ra'.page = ra.page
          /\ ra'.early = ra.early /\ ra'.link = ra.link
    BY <1>0, <2>1 DEF RaSelection
  <2>4. RaTypeOK'
    <3>1. \A c \in raCalls' : c.n \in Nat /\ c.n <= raLoad'.n /\ c.list \in RaListNames /\ c.silent \in BOOLEAN
      BY <2>0, <2>1, <2>2, RaParts DEF RaCancelled, RaListNames
    <3>2. raLoad' \in [n : Nat, loading : BOOLEAN, err : BOOLEAN]
      BY <2>0, <2>1
    <3>. QED  BY <2>1, <2>3, <3>1, <3>2, RaParts DEF RaTypeOK
  <2>5. RaTabsOfView' /\ BoardWanted'
    BY <1>0, <2>1, <2>3 DEF RaTabsOfView, BoardWanted
  <2>6. LatestWanted'
    <3>. SUFFICES ASSUME ~ra.early PROVE LatestWanted'
      BY <2>3 DEF LatestWanted
    <3>1. ra'.tab = "global"
      BY <1>0, <1>3, <2>3, RaParts DEF RaTabsOfView, RaMounted
    <3>2. RaQuery(ra') = <<"global", ra.level, ra.page>> /\ RaList(ra'.tab) = "entries"
      <4>1. ASSUME NEW s, s.tab = "global" PROVE RaQuery(s) = <<"global", s.level, s.page>> /\ RaList(s.tab) = "entries"
        BY <4>1 DEF RaQuery, RaList, RaAdminTabs
      <4>. QED  BY <2>3, <3>1, <4>1
    <3>3. ~RaShown'
      BY <2>1 DEF RaShown
    <3>4. \A c \in raCalls' : c.n = raLoad'.n => c = new
      BY <2>0, <2>1 DEF RaCancelled
    <3>. QED  BY <2>2, <3>2, <3>3, <3>4 DEF LatestWanted
  <2>. QED  BY <2>4, <2>5, <2>6 DEF RankingsInv
<1>. QED  BY <1>1, <1>2, <1>3

LEMMA RaSwitchKeeps ==
  ASSUME RankingsInv, NEW chosen \in RaTabs, RaSwitch(chosen)
  PROVE  RankingsInv'
<1>. DEFINE misfit == <<chosen, ra.act>> \in {<<"external", "own">>, <<"internal", "open">>}
            early == ra.early \/ ~ra.mounted
            t == [ra EXCEPT !.tab = chosen]
            u(act) == [RaReset(ra) EXCEPT !.tab = chosen, !.level = "all", !.early = early, !.act = act]
            s == [RaReset(ra) EXCEPT !.tab = chosen, !.level = "all", !.early = early]
<1>0. raOpen = "rankings" /\ ra \in RaSelection /\ early \in BOOLEAN /\ chosen \in RaTabs \cup RaAdminTabs
  BY RaParts DEF RaSwitch, RaSelection
<1>1. /\ t \in RaSelection /\ t.tab = chosen
      /\ t.cls = ra.cls /\ t.act = ra.act /\ t.scope = ra.scope /\ t.scopeCls = ra.scopeCls
  BY <1>0 DEF RaSelection
<1>. DEFINE r == RaReset(ra)
<1>2. /\ r \in RaSelection /\ r.mounted = ra.mounted /\ r.early = ra.early
      /\ r.cls = ra.cls /\ r.act = ra.act /\ r.scope = ra.scope /\ r.scopeCls = ra.scopeCls
  BY <1>0 DEF RaSelection, RaReset
<1>3. \A act \in {ra.act, "none"} :
        /\ u(act) \in RaSelection /\ u(act).tab = chosen /\ u(act).act = act
        /\ u(act).cls = ra.cls /\ u(act).scope = ra.scope /\ u(act).scopeCls = ra.scopeCls
        /\ u(act).mounted = ra.mounted /\ (u(act).early = early)
  <2>1. ra.act \in RaActs \cup {"none"}
    BY <1>0 DEF RaSelection
  <2>. HIDE DEF u
  <2>. SUFFICES ASSUME NEW act \in RaActs \cup {"none"} PROVE
        /\ u(act) \in RaSelection /\ u(act).tab = chosen /\ u(act).act = act
        /\ u(act).cls = ra.cls /\ u(act).scope = ra.scope /\ u(act).scopeCls = ra.scopeCls
        /\ u(act).mounted = ra.mounted /\ (u(act).early = early)
    BY <2>1
  <2>2. u(act) = [r EXCEPT !.tab = chosen, !.level = "all", !.early = early, !.act = act]
    BY DEF u
  <2>. HIDE DEF u, r, early
  <2>. QED  BY <1>0, <1>2, <2>2 DEF RaSelection
<1>4. s \in RaSelection /\ s.tab = chosen /\ s.mounted = ra.mounted /\ (s.early = early)
  <2>1. s = [r EXCEPT !.tab = chosen, !.level = "all", !.early = early]
    OBVIOUS
  <2>. HIDE DEF s, r, early
  <2>. QED  BY <1>0, <1>2, <2>1 DEF RaSelection
<1>5. IF misfit \/ RaQuery(t) = RaNothing
      THEN /\ \E act \in {ra.act, "none"} : ra' = u(act) /\ (act = IF misfit THEN "none" ELSE ra.act)
           /\ raLists' = RaEmpty /\ raLoad' = [raLoad EXCEPT !.err = FALSE]
           /\ UNCHANGED <<raOpen, raCalls>>
      ELSE RaAsk(s, RaEmpty)
  <2>1. u(IF misfit THEN "none" ELSE ra.act)
          = [RaReset(ra) EXCEPT !.tab = chosen, !.level = "all", !.early = @ \/ ~ra.mounted,
                                !.act = IF misfit THEN "none" ELSE @]
    BY DEF RaReset
  <2>2. s = [RaReset(ra) EXCEPT !.tab = chosen, !.level = "all", !.early = @ \/ ~ra.mounted]
    BY DEF RaReset
  <2>. HIDE DEF u, s
  <2>. QED  BY <2>1, <2>2 DEF RaSwitch
<1>. HIDE DEF t, u, s, r
<1>6. CASE misfit \/ RaQuery(t) = RaNothing
  <2>1. PICK act \in {ra.act, "none"} : ra' = u(act) /\ (act = IF misfit THEN "none" ELSE ra.act)
    BY <1>5, <1>6
  <2>2. raLists' = RaEmpty /\ raLoad' = [raLoad EXCEPT !.err = FALSE] /\ UNCHANGED <<raOpen, raCalls>>
    BY <1>5, <1>6
  <2>3. RaQuery(u(act)) = RaNothing
    <3>1. CASE misfit
      <4>1. chosen \in {"internal", "external"}
        BY <3>1
      <4>. QED  BY <1>3, <2>1, <3>1, <4>1, RaUnfitting
    <3>2. CASE ~misfit
      <4>1. act = ra.act /\ RaQuery(t) = RaNothing
        BY <1>6, <2>1, <3>2
      <4>. HIDE DEF misfit
      <4>. QED  BY <1>1, <1>3, <4>1, RaSilentSelection
    <3>. QED  BY <3>1, <3>2
  <2>4. /\ ra' \in RaSelection /\ (ra'.mounted \/ ra'.early)
    BY <1>3, <2>1
  <2>5. raLoad' \in [n : Nat, loading : BOOLEAN, err : BOOLEAN] /\ raLoad'.n = raLoad.n
    BY <2>2, RaParts DEF RaTypeOK
  <2>6. DOMAIN raLists' = RaListNames /\ raLists' = [l \in RaListNames |-> raLists'[l]]
    BY <2>2 DEF RaEmpty, RaListNames
  <2>7. RaTypeOK'
    BY <1>0, <2>2, <2>4, <2>5, <2>6, RaParts DEF RaTypeOK
  <2>. QED  BY <1>0, <2>1, <2>2, <2>3, <2>4, <2>7 DEF RankingsInv, RaTabsOfView, LatestWanted, BoardWanted
<1>7. CASE ~(misfit \/ RaQuery(t) = RaNothing)
  <2>1. RaAsk(s, RaEmpty)
    BY <1>5, <1>7
  <2>. QED  BY <1>0, <1>4, <2>1, RaAskKeeps
<1>. QED  BY <1>6, <1>7

\* The filters, the pages and the scopes.
LEMMA RaPicksKeep ==
  ASSUME RankingsInv,
         \/ \E level \in {"all", "one"} : RaLevel(level)
         \/ \E page \in {1, 2} : RaPage(page)
         \/ \E cls \in RaClasses : RaPickClass(cls) \/ RaScopeClass(cls)
         \/ \E act \in RaActs : RaPickAct(act)
         \/ \E scope \in {"school", "class"} : RaScope(scope)
  PROVE  RankingsInv'
<1>. DEFINE early == ra.early \/ ~ra.mounted
            r == RaReset(ra)
<1>0. raOpen = "rankings" /\ ra \in RaSelection /\ early \in BOOLEAN
  BY RaParts DEF RaLevel, RaPage, RaPickClass, RaScopeClass, RaPickAct, RaScope, RaScoping, RaSelection
<1>1. r \in RaSelection /\ r.mounted = ra.mounted /\ r.early = ra.early /\ r.tab = ra.tab
  BY <1>0 DEF RaSelection, RaReset
<1>2. ra.mounted \/ ra.early \/ ra.tab \in {"personal", "global"}
  BY <1>0, RaParts DEF RaTabsOfView
<1>3. ASSUME NEW level \in {"all", "one"}, RaLevel(level) PROVE RankingsInv'
  <2>. DEFINE s == [r EXCEPT !.level = level]
  <2>1. RaAsk(s, raLists)
    BY <1>3 DEF RaLevel
  <2>. HIDE DEF r
  <2>2. s \in RaSelection /\ s.mounted = r.mounted /\ s.early = r.early /\ s.tab = r.tab
    BY <1>1, <1>3 DEF RaSelection
  <2>. HIDE DEF s
  <2>. QED  BY <1>0, <1>1, <1>2, <2>1, <2>2, RaAskKeeps
<1>4. ASSUME NEW page \in {1, 2}, RaPage(page) PROVE RankingsInv'
  <2>. DEFINE s == [ra EXCEPT !.page = page]
  <2>1. RaAsk(s, raLists)
    BY <1>4 DEF RaPage
  <2>2. s \in RaSelection /\ s.mounted = ra.mounted /\ s.early = ra.early /\ s.tab = ra.tab
    BY <1>0, <1>4 DEF RaSelection
  <2>. HIDE DEF s
  <2>. QED  BY <1>0, <1>2, <2>1, <2>2, RaAskKeeps
<1>5. ASSUME NEW cls \in RaClasses, RaPickClass(cls) PROVE RankingsInv'
  <2>. DEFINE s == [r EXCEPT !.cls = cls, !.early = early]
  <2>1. RaAsk(s, raLists)
    <3>1. s = [RaReset(ra) EXCEPT !.cls = cls, !.early = @ \/ ~ra.mounted]
      BY DEF RaReset
    <3>. HIDE DEF s
    <3>. QED  BY <1>5, <3>1 DEF RaPickClass
  <2>. HIDE DEF r, early
  <2>2. s \in RaSelection /\ s.mounted = r.mounted /\ (s.early = early)
    BY <1>0, <1>1, <1>5 DEF RaSelection
  <2>. HIDE DEF s
  <2>. QED  BY <1>0, <1>1, <2>1, <2>2, RaAskKeeps DEF early
<1>6. ASSUME NEW cls \in RaClasses, RaScopeClass(cls) PROVE RankingsInv'
  <2>. DEFINE s == [ra EXCEPT !.scopeCls = cls]
  <2>1. RaAsk(s, raLists)
    BY <1>6 DEF RaScopeClass
  <2>2. s \in RaSelection /\ s.mounted = ra.mounted /\ s.early = ra.early /\ s.tab = ra.tab
    BY <1>0, <1>6 DEF RaSelection
  <2>. HIDE DEF s
  <2>. QED  BY <1>0, <1>2, <2>1, <2>2, RaAskKeeps
<1>7. ASSUME NEW act \in RaActs, RaPickAct(act) PROVE RankingsInv'
  <2>. DEFINE s == [ra EXCEPT !.act = act, !.early = early]
  <2>1. RaAsk(s, raLists)
    BY <1>7 DEF RaPickAct
  <2>. HIDE DEF early
  <2>2. s \in RaSelection /\ s.mounted = ra.mounted /\ (s.early = early)
    BY <1>0, <1>7 DEF RaSelection
  <2>. HIDE DEF s
  <2>. QED  BY <1>0, <2>1, <2>2, RaAskKeeps DEF early
<1>8. ASSUME NEW scope \in {"school", "class"}, RaScope(scope) PROVE RankingsInv'
  <2>. DEFINE s == [ra EXCEPT !.scope = scope]
  <2>1. RaAsk(s, raLists)
    BY <1>8 DEF RaScope
  <2>2. s \in RaSelection /\ s.mounted = ra.mounted /\ s.early = ra.early /\ s.tab = ra.tab
    BY <1>0, <1>8 DEF RaSelection
  <2>. HIDE DEF s
  <2>. QED  BY <1>0, <1>2, <2>1, <2>2, RaAskKeeps
<1>. QED  BY <1>3, <1>4, <1>5, <1>6, <1>7, <1>8

LEMMA RaPollKeeps ==
  ASSUME RankingsInv, RaPoll
  PROVE  RankingsInv'
<1>0. raOpen = "rankings" /\ ra.tab = "internal" /\ UNCHANGED <<raOpen, ra>>
  BY DEF RaPoll
<1>1. CASE RaQuery(ra) = RaNothing
  <2>1. raLists' = [raLists EXCEPT !["internal"] = RaNothing] /\ UNCHANGED <<raLoad, raCalls>>
    BY <1>1 DEF RaPoll
  <2>2. DOMAIN raLists' = RaListNames /\ raLists' = [l \in RaListNames |-> raLists'[l]]
    <3>1. "internal" \in RaListNames
      BY DEF RaListNames, RaTabs
    <3>. QED  BY <2>1, <3>1, RaListsKept
  <2>3. RaTypeOK'
    BY <1>0, <2>1, <2>2, RaParts DEF RaTypeOK
  <2>. QED  BY <1>0, <1>1, <2>1, <2>3, RaParts DEF RankingsInv, RaTabsOfView, LatestWanted, BoardWanted
<1>2. CASE RaQuery(ra) # RaNothing
  <2>. DEFINE more == raLoad.n + 1
              new == [n |-> more, want |-> RaQuery(ra), list |-> "internal", silent |-> TRUE, deaf |-> TRUE]
  <2>0. more \in Nat /\ raLoad.n < more /\ \A c \in raCalls : c.n <= more /\ c.n # more
    BY RaParts
  <2>1. raLoad' = [raLoad EXCEPT !.n = more] /\ raCalls' = raCalls \cup {new} /\ raLists' = raLists
    BY <1>2 DEF RaPoll
  <2>2. new.n = more /\ new.want = RaQuery(ra) /\ new.list = "internal" /\ new.silent \in BOOLEAN
    OBVIOUS
  <2>. HIDE DEF new, more
  <2>3. /\ raLoad' \in [n : Nat, loading : BOOLEAN, err : BOOLEAN] /\ raLoad'.n = more
        /\ raLoad'.loading = raLoad.loading /\ raLoad'.err = raLoad.err
    BY <2>0, <2>1, RaParts DEF RaTypeOK
  <2>4. RaTypeOK'
    <3>1. \A c \in raCalls' : c.n \in Nat /\ c.n <= raLoad'.n /\ c.list \in RaListNames /\ c.silent \in BOOLEAN
      BY <2>0, <2>1, <2>2, <2>3, RaParts DEF RaListNames, RaTabs
    <3>. QED  BY <1>0, <2>1, <2>3, <3>1, RaParts DEF RaTypeOK
  <2>5. LatestWanted'
    <3>1. \A c \in raCalls' : c.n = raLoad'.n => c = new
      BY <2>0, <2>1, <2>3
    <3>2. RaList(ra.tab) = "internal"
      BY <1>0 DEF RaList
    <3>3. RaShown' = RaShown
      BY <2>3 DEF RaShown
    <3>. QED  BY <1>0, <1>2, <2>1, <2>2, <3>1, <3>2, <3>3, RaParts DEF LatestWanted
  <2>. QED  BY <1>0, <2>4, <2>5, RaParts DEF RankingsInv, RaTabsOfView, BoardWanted
<1>. QED  BY <1>1, <1>2

\* Only the answer to the latest request is taken.
LEMMA RaAnsweredKeeps ==
  ASSUME RankingsInv, NEW c \in raCalls, raOpen # "board", RaAnswered(c)
  PROVE  RankingsInv'
<1>0. raCalls' = raCalls \ {c} /\ UNCHANGED <<raOpen, ra>>
  BY DEF RaAnswered
<1>1. RaTabsOfView' /\ BoardWanted'
  BY <1>0, RaParts DEF RaTabsOfView, BoardWanted
<1>2. CASE UNCHANGED <<raLists, raLoad>>
  <2>1. RaTypeOK'
    BY <1>0, <1>2, RaParts DEF RaTypeOK
  <2>2. LatestWanted'
    BY <1>0, <1>2, RaParts DEF LatestWanted, RaShown
  <2>. QED  BY <1>1, <2>1, <2>2 DEF RankingsInv
<1>3. CASE c.n = raLoad.n
  <2>. DEFINE loading == raLoad.loading /\ c.silent
              err == raLoad.err \/ ~c.silent
  <2>0. loading \in BOOLEAN /\ err \in BOOLEAN
    BY RaParts
  <2>1. \/ raLists' = [raLists EXCEPT ![c.list] = c.want] /\ raLoad' = [raLoad EXCEPT !.loading = loading]
        \/ raLists' = raLists /\ raLoad' = [raLoad EXCEPT !.loading = loading, !.err = err]
    BY <1>3 DEF RaAnswered
  <2>. HIDE DEF loading, err
  <2>2. /\ raLoad' \in [n : Nat, loading : BOOLEAN, err : BOOLEAN] /\ raLoad'.n = raLoad.n
        /\ (raLoad'.loading = loading)
        /\ (raLists' = [raLists EXCEPT ![c.list] = c.want] /\ raLoad'.err = raLoad.err)
             \/ (raLists' = raLists /\ (raLoad'.err = err))
    <3>1. raLoad \in [n : Nat, loading : BOOLEAN, err : BOOLEAN]
      BY RaParts DEF RaTypeOK
    <3>2. CASE raLists' = [raLists EXCEPT ![c.list] = c.want] /\ raLoad' = [raLoad EXCEPT !.loading = loading]
      BY <2>0, <3>1, <3>2
    <3>3. CASE raLists' = raLists /\ raLoad' = [raLoad EXCEPT !.loading = loading, !.err = err]
      BY <2>0, <3>1, <3>3
    <3>. QED  BY <2>1, <3>2, <3>3
  <2>3. /\ DOMAIN raLists' = RaListNames /\ raLists' = [l \in RaListNames |-> raLists'[l]]
        /\ raLists' = raLists \/ raLists'[c.list] = c.want
    <3>1. c.list \in RaListNames
      BY RaParts
    <3>2. CASE raLists' = raLists
      BY <3>2, RaParts
    <3>3. CASE raLists' = [raLists EXCEPT ![c.list] = c.want]
      BY <3>1, <3>3, RaParts
    <3>. QED  BY <2>2, <3>2, <3>3
  <2>4. RaTypeOK'
    BY <1>0, <2>2, <2>3, RaParts DEF RaTypeOK
  <2>5. LatestWanted'
    <3>. SUFFICES ASSUME raOpen \in {"rankings", "admin"}, ~ra.early, RaQuery(ra) # RaNothing PROVE LatestWanted'
      BY <1>0 DEF LatestWanted
    <3>1. c.want = RaQuery(ra) /\ c.list = RaList(ra.tab)
      BY <1>3, RaParts DEF LatestWanted
    <3>2. \A d \in raCalls' : d.n = raLoad'.n => d.want = RaQuery(ra) /\ d.list = RaList(ra.tab)
      BY <1>0, <2>2, RaParts DEF LatestWanted
    <3>3. ASSUME ra.mounted, RaShown' PROVE raLists'[RaList(ra.tab)] = RaQuery(ra)
      <4>1. CASE raLists' = raLists /\ (raLoad'.err = err)
        <5>1. ~raLoad'.loading /\ ~raLoad'.err
          BY <3>3 DEF RaShown
        <5>2. RaShown
          BY <2>2, <4>1, <5>1, RaParts DEF RaShown, loading, err
        <5>. QED  BY <3>3, <4>1, <5>2, RaParts DEF LatestWanted
      <4>2. CASE raLists' = [raLists EXCEPT ![c.list] = c.want]
        <5>1. c.list \in RaListNames
          BY RaParts
        <5>2. raLists'[c.list] = c.want
          BY <4>2, <5>1, RaParts
        <5>. QED  BY <3>1, <5>2
      <4>. QED  BY <2>2, <4>1, <4>2
    <3>. QED  BY <1>0, <3>2, <3>3 DEF LatestWanted
  <2>. QED  BY <1>1, <2>4, <2>5 DEF RankingsInv
<1>. QED  BY <1>2, <1>3 DEF RaAnswered

(* ---- LeaderboardView ----------------------------------------------------------------- *)
LEMMA RaBoardAskKeeps ==
  ASSUME RankingsInv, NEW s \in RaSelection, s.tab = ra.tab, s.link = ra.link, raOpen = "board", RaBoardAsk(s)
  PROVE  RankingsInv'
<1>. DEFINE more == raLoad.n + 1
            list == RaList(s.tab)
            new == [n |-> more, want |-> RaQuery(s), list |-> list, silent |-> FALSE, deaf |-> FALSE]
<1>0. more \in Nat /\ raLoad.n < more /\ \A c \in raCalls : c.n <= more
  BY RaParts
<1>1. /\ ra' = s /\ raLoad' = [raLoad EXCEPT !.n = more] /\ UNCHANGED <<raOpen, raLists>>
      /\ raCalls' = {c \in raCalls : c.list # list} \cup {new}
  BY DEF RaBoardAsk
<1>2. new.n = more /\ new.want = RaQuery(s) /\ new.list = list /\ new.silent \in BOOLEAN /\ list \in RaListNames
  BY RaListNamed DEF RaSelection
<1>. HIDE DEF more, list, new
<1>3. /\ raLoad' \in [n : Nat, loading : BOOLEAN, err : BOOLEAN] /\ raLoad'.n = more
      /\ raLoad'.loading = raLoad.loading /\ raLoad'.err = raLoad.err
  BY <1>0, <1>1, RaParts DEF RaTypeOK
<1>4. RaTypeOK'
  <2>1. \A c \in raCalls' : c.n \in Nat /\ c.n <= raLoad'.n /\ c.list \in RaListNames /\ c.silent \in BOOLEAN
    BY <1>0, <1>1, <1>2, <1>3, RaParts
  <2>. QED  BY <1>1, <1>3, <2>1, RaParts DEF RaTypeOK
<1>5. RaTabsOfView'
  BY <1>1, <1>3, RaParts DEF RaTabsOfView
<1>6. LatestWanted'
  BY <1>1 DEF LatestWanted
<1>7. BoardWanted'
  <2>1. new \in raCalls' /\ \A c \in raCalls' : c.list = list => c = new
    BY <1>1
  <2>2. RaList(ra'.tab) = list /\ RaQuery(ra)' = RaQuery(s)
    BY <1>1 DEF list
  <2>. QED  BY <1>2, <2>1, <2>2 DEF BoardWanted
<1>. QED  BY <1>4, <1>5, <1>6, <1>7 DEF RankingsInv

LEMMA RaBoardKeeps ==
  ASSUME RankingsInv, RaBoardPick \/ RaBoardFire \/ RaBoardMounted
  PROVE  RankingsInv'
<1>0. raOpen = "board" /\ ra \in RaSelection /\ ra.tab \in {"personal", "global"} /\ ~ra.link
  BY RaParts DEF RaBoardPick, RaBoardFire, RaBoardMounted, RaTabsOfView
<1>1. CASE RaBoardFire
  <2>. DEFINE s == [ra EXCEPT !.timer = FALSE]
  <2>1. s \in RaSelection /\ s.tab = ra.tab /\ s.link = ra.link
    BY <1>0 DEF RaSelection
  <2>2. RaBoardAsk(s)
    BY <1>1 DEF RaBoardFire
  <2>. HIDE DEF s
  <2>. QED  BY <1>0, <2>1, <2>2, RaBoardAskKeeps
<1>2. CASE RaBoardMounted
  <2>. DEFINE s == [ra EXCEPT !.mounted = TRUE]
  <2>1. s \in RaSelection /\ s.tab = ra.tab /\ s.link = ra.link
    BY <1>0 DEF RaSelection
  <2>2. RaBoardAsk(s)
    BY <1>2 DEF RaBoardMounted
  <2>. HIDE DEF s
  <2>. QED  BY <1>0, <2>1, <2>2, RaBoardAskKeeps
<1>3. ASSUME NEW s \in RaSelection, s.tab \in {"personal", "global"}, s.link = ra.link, RaPicked(s)
      PROVE  RankingsInv'
  <2>1. ra' = [s EXCEPT !.timer = TRUE] /\ UNCHANGED <<raOpen, raLists, raLoad, raCalls>>
    BY <1>3 DEF RaPicked
  <2>2. ra' \in RaSelection /\ ra'.timer /\ ra'.tab = s.tab /\ ra'.link = s.link
    BY <1>3, <2>1 DEF RaSelection
  <2>3. RaTypeOK'
    BY <2>1, <2>2, RaParts DEF RaTypeOK
  <2>. QED  BY <1>0, <1>3, <2>1, <2>2, <2>3, RaParts DEF RankingsInv, RaTabsOfView, LatestWanted, BoardWanted
<1>4. CASE RaBoardPick
  <2>. DEFINE r == RaReset(ra)
  <2>1. r \in RaSelection /\ r.tab = ra.tab /\ r.link = ra.link
    BY <1>0 DEF RaSelection, RaReset
  <2>2. \/ \E level \in {"all", "one"} : RaPicked([r EXCEPT !.level = level])
        \/ \E page \in {1, 2} : RaPicked([ra EXCEPT !.page = page])
        \/ \E chosen \in {"personal", "global"} : RaPicked([r EXCEPT !.tab = chosen])
    BY <1>4 DEF RaBoardPick
  <2>. HIDE DEF r
  <2>3. ASSUME NEW level \in {"all", "one"}, RaPicked([r EXCEPT !.level = level]) PROVE RankingsInv'
    <3>. DEFINE s == [r EXCEPT !.level = level]
    <3>1. s \in RaSelection /\ s.tab = r.tab /\ s.link = r.link
      BY <2>1, <2>3 DEF RaSelection
    <3>2. RaPicked(s)
      BY <2>3
    <3>. HIDE DEF s
    <3>. QED  BY <1>0, <1>3, <2>1, <3>1, <3>2
  <2>4. ASSUME NEW page \in {1, 2}, RaPicked([ra EXCEPT !.page = page]) PROVE RankingsInv'
    <3>. DEFINE s == [ra EXCEPT !.page = page]
    <3>1. s \in RaSelection /\ s.tab = ra.tab /\ s.link = ra.link
      BY <1>0, <2>4 DEF RaSelection
    <3>2. RaPicked(s)
      BY <2>4
    <3>. HIDE DEF s
    <3>. QED  BY <1>0, <1>3, <3>1, <3>2
  <2>5. ASSUME NEW chosen \in {"personal", "global"}, RaPicked([r EXCEPT !.tab = chosen]) PROVE RankingsInv'
    <3>. DEFINE s == [r EXCEPT !.tab = chosen]
    <3>1. s \in RaSelection /\ s.tab = chosen /\ s.link = r.link
      BY <2>1, <2>5 DEF RaSelection, RaTabs
    <3>2. RaPicked(s)
      BY <2>5
    <3>. HIDE DEF s
    <3>. QED  BY <1>0, <1>3, <2>1, <2>5, <3>1, <3>2
  <2>. QED  BY <2>2, <2>3, <2>4, <2>5
<1>. QED  BY <1>1, <1>2, <1>4

LEMMA RaBoardAnsweredKeeps ==
  ASSUME RankingsInv, NEW c \in raCalls, raOpen = "board", RaBoardAnswered(c)
  PROVE  RankingsInv'
<1>0. PICK v \in {c.want, <<"failed">>} :
        raLists' = [raLists EXCEPT ![c.list] = v] /\ raCalls' = raCalls \ {c} /\ UNCHANGED <<raOpen, ra, raLoad>>
  BY DEF RaBoardAnswered
<1>1. c.list \in RaListNames /\ RaList(ra.tab) \in RaListNames
  BY RaParts, RaListNamed
<1>2. /\ DOMAIN raLists' = RaListNames /\ raLists' = [l \in RaListNames |-> raLists'[l]]
      /\ raLists'[c.list] = v /\ \A k \in RaListNames : k # c.list => raLists'[k] = raLists[k]
  BY <1>0, <1>1, RaListsKept
<1>3. RaTypeOK'
  BY <1>0, <1>2, RaParts DEF RaTypeOK
<1>4. RaTabsOfView' /\ LatestWanted'
  BY <1>0, RaParts DEF RaTabsOfView, LatestWanted
<1>5. BoardWanted'
  <2>1. CASE c.list = RaList(ra.tab)
    BY <1>0, <1>2, <2>1, RaParts DEF BoardWanted
  <2>2. CASE c.list # RaList(ra.tab)
    BY <1>0, <1>1, <1>2, <2>2, RaParts DEF BoardWanted
  <2>. QED  BY <2>1, <2>2
<1>. QED  BY <1>3, <1>4, <1>5 DEF RankingsInv

(* ---- AdminView -------------------------------------------------------------------------- *)
LEMMA RaAdminKeeps ==
  ASSUME RankingsInv, RaAdminMounted \/ \E chosen \in RaAdminTabs : RaAdminGo(chosen)
  PROVE  RankingsInv'
<1>0. raOpen = "admin" /\ ra \in RaSelection
  BY RaParts DEF RaAdminMounted, RaAdminGo
<1>1. CASE RaAdminMounted
  <2>. DEFINE s == [ra EXCEPT !.mounted = TRUE]
  <2>1. s \in RaSelection /\ s.link = ra.link
    BY <1>0 DEF RaSelection
  <2>2. RaAsk(s, raLists)
    BY <1>1 DEF RaAdminMounted
  <2>. HIDE DEF s
  <2>. QED  BY <1>0, <2>1, <2>2, RaAskKeeps
<1>2. ASSUME NEW chosen \in RaAdminTabs, RaAdminGo(chosen) PROVE RankingsInv'
  <2>. DEFINE s == [ra EXCEPT !.tab = chosen]
  <2>1. s \in RaSelection /\ s.link = ra.link
    BY <1>0, <1>2 DEF RaSelection
  <2>2. RaAsk(s, raLists)
    BY <1>2 DEF RaAdminGo
  <2>. HIDE DEF s
  <2>. QED  BY <1>0, <2>1, <2>2, RaAskKeeps
<1>. QED  BY <1>1, <1>2

LEMMA RaLeaveKeeps ==
  ASSUME RankingsInv, RaLeave
  PROVE  RankingsInv'
BY RaParts DEF RaLeave, RankingsInv, RaTypeOK, RaTabsOfView, LatestWanted, BoardWanted, RaCancelled

LEMMA RankingsStep == RankingsInv /\ [RaNext]_raVars => RankingsInv'
<1>. SUFFICES ASSUME RankingsInv, [RaNext]_raVars PROVE RankingsInv'
  OBVIOUS
<1>1. CASE UNCHANGED raVars
  BY <1>1 DEF raVars, RankingsInv, RaTypeOK, RaTabsOfView, LatestWanted, BoardWanted, RaShown
<1>. QED
  BY <1>1, RaMountedKeeps, RaSwitchKeeps, RaPicksKeep, RaPollKeeps, RaAnsweredKeeps, RaBoardKeeps,
     RaBoardAnsweredKeeps, RaAdminKeeps, RaLeaveKeeps
  DEF RaNext

LEMMA RankingsImplied == RankingsInv => ShownIsWanted
BY DEF RankingsInv, RaTypeOK, LatestWanted, BoardWanted, ShownIsWanted

(***************************************************************************)
(* The class desk                                                          *)
(***************************************************************************)
LEMMA ClassDeskInitial == ClInit => ClassDeskInv
<1>. SUFFICES ASSUME ClInit PROVE ClassDeskInv
  OBVIOUS
<1>1. PICK have \in (SUBSET ClClasses) \ {{}}, members \in SUBSET {ClStudent} :
        clRow = [c \in ClClasses |-> [alive |-> c \in have, archived |-> FALSE, code |-> 1,
          members |-> IF c \in have THEN members ELSE {}, group |-> IF c \in have THEN members ELSE {}]]
  BY DEF ClInit
<1>2. clRow \in [ClClasses -> ClRowType] /\ ClClasses # {}
  <2>. DEFINE row(c) == [alive |-> c \in have, archived |-> FALSE, code |-> 1,
                         members |-> IF c \in have THEN members ELSE {}, group |-> IF c \in have THEN members ELSE {}]
  <2>1. \A c \in ClClasses : row(c) \in ClRowType
    <3>. SUFFICES ASSUME NEW c \in ClClasses PROVE row(c) \in ClRowType
      OBVIOUS
    <3>. DEFINE some == IF c \in have THEN members ELSE {}
                alive == c \in have
    <3>1. some \in SUBSET {ClStudent} /\ alive \in BOOLEAN
      OBVIOUS
    <3>2. row(c) = [alive |-> alive, archived |-> FALSE, code |-> 1, members |-> some, group |-> some]
      OBVIOUS
    <3>. HIDE DEF some, alive, row
    <3>. QED  BY <3>1, <3>2 DEF ClRowType
  <2>2. clRow = [c \in ClClasses |-> row(c)]
    BY <1>1
  <2>3. ClClasses # {}
    BY <1>1
  <2>. HIDE DEF row
  <2>. QED  BY <2>1, <2>2, <2>3
<1>. DEFINE first == CHOOSE c \in ClClasses : TRUE
<1>3. first \in ClClasses
  BY <1>2
<1>. HIDE DEF first
<1>4. /\ clCalls = {[n |-> 1, op |-> "list", cls |-> first, flag |-> "none", stage |-> "sent", res |-> "none"]}
      /\ clHist = [n |-> 1, faults |-> 0, crossed |-> FALSE, lost |-> FALSE]
      /\ clSel = [cls |-> "none", group |-> FALSE]
      /\ clShown = [roster |-> ClNowhere, panels |-> "none", group |-> ClNowhere]
  BY DEF ClInit, first
<1>5. ClTypeOK
  BY <1>2, <1>3, <1>4 DEF ClTypeOK, ClOps, ClCallType, ClHistType
<1>. QED  BY <1>4, <1>5 DEF ClassDeskInv, OneRoster, RosterFollows

\* What the proofs read from the types.
LEMMA ClParts ==
  ASSUME ClassDeskInv
  PROVE  /\ ClTypeOK /\ OneRoster /\ RosterFollows
         /\ clRow \in [ClClasses -> ClRowType] /\ clHist \in ClHistType /\ ClClasses # {}
         /\ clSel.cls \in ClClasses \cup {"none"} /\ \A d \in clCalls : ClCallType(d)
         /\ clHist.crossed \in BOOLEAN /\ clHist.lost \in BOOLEAN
BY DEF ClassDeskInv, ClTypeOK, ClHistType

\* The type invariant, for a step over a desk that keeps it.
LEMMA ClTypeKept ==
  ASSUME ClassDeskInv, clRow' \in [ClClasses -> ClRowType],
         clSel' \in [cls : ClClasses \cup {"none"}, group : BOOLEAN],
         clShown' = [roster |-> clShown'.roster, panels |-> clShown'.panels, group |-> clShown'.group],
         clHist' \in ClHistType, \A d \in clCalls' : ClCallType(d)
  PROVE  ClTypeOK'
BY ClParts DEF ClTypeOK

\* A request as it is sent.
LEMMA ClSent ==
  ASSUME ClassDeskInv, NEW calls, NEW op \in ClOps, NEW c \in ClClasses \cup {"none"}, NEW flag,
         calls \subseteq clCalls, ClSend(calls, op, c, flag)
  PROVE  /\ clHist' \in ClHistType /\ clHist'.lost = clHist.lost
         /\ (clHist'.crossed = (clHist.crossed \/ (op = "roster" /\ \E d \in calls : d.op = "roster")))
         /\ \E new : /\ clCalls' = calls \cup {new} /\ ClCallType(new)
                     /\ new.op = op /\ new.cls = c /\ new.stage = "sent"
<1>. DEFINE more == clHist.n + 1
            crossed == clHist.crossed \/ (op = "roster" /\ \E d \in calls : d.op = "roster")
            new == [n |-> more, op |-> op, cls |-> c, flag |-> flag, stage |-> "sent", res |-> "none"]
<1>1. clHist' = [clHist EXCEPT !.n = more, !.crossed = crossed] /\ clCalls' = calls \cup {new}
  BY DEF ClSend, ClRequest
<1>2. more \in Nat /\ crossed \in BOOLEAN
  BY ClParts DEF ClHistType
<1>3. ClCallType(new) /\ new.op = op /\ new.cls = c /\ new.stage = "sent"
  BY DEF ClCallType
<1>. HIDE DEF more, crossed, new
<1>4. clHist' \in ClHistType /\ clHist'.lost = clHist.lost /\ (clHist'.crossed = crossed)
  BY <1>1, <1>2, ClParts DEF ClHistType
<1>. QED  BY <1>1, <1>3, <1>4 DEF crossed

(***************************************************************************)
(* A step that touches neither the selected class nor its roster: no       *)
(* request for a roster comes or goes, and none that makes one due goes.   *)
(***************************************************************************)
LEMMA ClQuietKeeps ==
  ASSUME ClassDeskInv, ClTypeOK', clRow' = clRow, clSel'.cls = clSel.cls, clShown'.roster = clShown.roster,
         clHist.crossed => clHist'.crossed, clHist.lost => clHist'.lost,
         \A d \in clCalls' : d \in clCalls \/ d.op # "roster",
         \A d \in clCalls :
           d.op = "roster"
             \/ (d.stage = "done" /\ (d.op \in {"add", "remove"} \/ (d.op = "delete" /\ d.cls = clSel.cls)))
             => d \in clCalls'
  PROVE  ClassDeskInv'
<1>1. OneRoster'
  BY ClParts DEF OneRoster
<1>2. RosterDue => RosterDue'
  BY DEF RosterDue
<1>3. RosterFollows'
  BY <1>2, ClParts DEF RosterFollows, ClRoster
<1>. QED  BY <1>1, <1>3 DEF ClassDeskInv

LEMMA ClPressKeeps ==
  ASSUME ClassDeskInv, NEW op \in ClOps \ {"roster"}, NEW c \in ClClasses \cup {"none"}, NEW flag, ClPress(op, c, flag)
  PROVE  ClassDeskInv'
<1>1. ClSend(clCalls, op, c, flag) /\ UNCHANGED <<clRow, clList, clSel, clShown, clQr>>
  BY DEF ClPress
<1>2. /\ clHist' \in ClHistType /\ clHist'.lost = clHist.lost /\ (clHist'.crossed = clHist.crossed)
      /\ \E new : clCalls' = clCalls \cup {new} /\ ClCallType(new) /\ new.op = op
  BY <1>1, ClSent, ClParts
<1>3. ClTypeOK'
  BY <1>1, <1>2, ClParts, ClTypeKept DEF ClTypeOK
<1>. QED  BY <1>1, <1>2, <1>3, ClQuietKeeps

LEMMA ClButtonsKeep ==
  ASSUME ClassDeskInv,
         \/ \E c \in ClClasses : ClCreate(c) \/ ClArchive(c) \/ ClDelete(c) \/ ClRegenerate(c) \/ ClOpenQr(c)
         \/ ClReload \/ ClAdd \/ ClRemove \/ ClAssign \/ ClUnassign
  PROVE  ClassDeskInv'
<1>1. CASE \E c \in ClClasses : ClCreate(c) \/ ClArchive(c) \/ ClDelete(c) \/ ClRegenerate(c) \/ ClOpenQr(c)
  <2>1. PICK c \in ClClasses, op \in {"create", "archive", "delete", "regen", "qr"},
            flag \in {"creating", "archiving", "deleting", "regenerating", "none"} : ClPress(op, c, flag)
    BY <1>1 DEF ClCreate, ClArchive, ClDelete, ClRegenerate, ClOpenQr
  <2>. QED  BY <2>1, ClPressKeeps DEF ClOps
<1>2. CASE ClReload
  <2>1. (CHOOSE c \in ClClasses : TRUE) \in ClClasses
    BY ClParts
  <2>. QED  BY <1>2, <2>1, ClPressKeeps DEF ClReload, ClOps
<1>3. CASE ClAdd \/ ClRemove \/ ClAssign \/ ClUnassign
  <2>1. PICK op \in {"add", "remove", "assign", "unassign"}, flag \in {"adding", "none"} : ClPress(op, clSel.cls, flag)
    BY <1>3 DEF ClAdd, ClRemove, ClAssign, ClUnassign
  <2>. QED  BY <2>1, ClParts, ClPressKeeps DEF ClOps
<1>. QED  BY <1>1, <1>2, <1>3

LEMMA ClPanelsKeep ==
  ASSUME ClassDeskInv, ClCloseQr \/ ClOpenGroup
  PROVE  ClassDeskInv'
<1>1. CASE ClCloseQr
  <2>1. UNCHANGED <<clRow, clList, clSel, clShown, clCalls, clHist>>
    BY <1>1 DEF ClCloseQr
  <2>2. ClTypeOK'
    BY <2>1, ClParts DEF ClTypeOK
  <2>. QED  BY <2>1, <2>2, ClQuietKeeps
<1>2. CASE ClOpenGroup
  <2>1. /\ ClSend(clCalls, "group", clSel.cls, "none") /\ clSel' = [clSel EXCEPT !.group = TRUE]
        /\ UNCHANGED <<clRow, clList, clShown, clQr>>
    BY <1>2 DEF ClOpenGroup
  <2>2. /\ clHist' \in ClHistType /\ clHist'.lost = clHist.lost /\ (clHist'.crossed = clHist.crossed)
        /\ \E new : clCalls' = clCalls \cup {new} /\ ClCallType(new) /\ new.op = "group"
    <3>1. "group" \in ClOps
      BY DEF ClOps
    <3>. QED  BY <2>1, <3>1, ClSent, ClParts
  <2>3. clSel' \in [cls : ClClasses \cup {"none"}, group : BOOLEAN] /\ clSel'.cls = clSel.cls
    BY <2>1, ClParts DEF ClTypeOK
  <2>4. ClTypeOK'
    BY <2>1, <2>2, <2>3, ClParts, ClTypeKept DEF ClTypeOK
  <2>. QED  BY <2>1, <2>2, <2>3, <2>4, ClQuietKeeps
<1>. QED  BY <1>1, <1>2

\* Answers that concern neither the selection nor the roster.
LEMMA ClAnswersKeep ==
  ASSUME ClassDeskInv, NEW d \in clCalls,
         \/ ClListed(d) \/ ClChanged(d) \/ ClRegenerated(d) \/ ClQrLoaded(d) \/ ClGrouped(d) \/ ClGroupLoaded(d)
  PROVE  ClassDeskInv'
<1>0. /\ ClTypeOK /\ ClCallType(d) /\ d.stage = "done"
      /\ d.op \in {"list", "create", "archive", "regen", "qr", "assign", "unassign", "group"}
  BY ClParts DEF ClListed, ClChanged, ClRegenerated, ClQrLoaded, ClGrouped, ClGroupLoaded, ClIs
<1>1. clRow' = clRow /\ clSel' = clSel
  BY DEF ClListed, ClChanged, ClRegenerated, ClQrLoaded, ClGrouped, ClGroupLoaded
<1>2. /\ clHist' \in ClHistType /\ (clHist'.lost = clHist.lost) /\ (clHist'.crossed = clHist.crossed)
      /\ \/ clCalls' = clCalls \ {d}
         \/ \E new : clCalls' = (clCalls \ {d}) \cup {new} /\ ClCallType(new) /\ new.op # "roster"
  <2>1. CASE clCalls' = clCalls \ {d} /\ clHist' = clHist
    BY <2>1, ClParts
  <2>2. CASE \E op \in {"list", "qr", "group"}, c \in ClClasses \cup {"none"}, flag \in {d.flag, "none"} :
               ClSend(clCalls \ {d}, op, c, flag)
    <3>1. PICK op \in {"list", "qr", "group"}, c \in ClClasses \cup {"none"}, flag \in {d.flag, "none"} :
            ClSend(clCalls \ {d}, op, c, flag)
      BY <2>2
    <3>2. op \in ClOps /\ clCalls \ {d} \subseteq clCalls /\ op # "roster"
      BY DEF ClOps
    <3>3. /\ clHist' \in ClHistType /\ clHist'.lost = clHist.lost
          /\ (clHist'.crossed = (clHist.crossed \/ (op = "roster" /\ \E e \in clCalls \ {d} : e.op = "roster")))
          /\ \E new : clCalls' = (clCalls \ {d}) \cup {new} /\ ClCallType(new) /\ new.op = op
      BY <3>1, <3>2, ClSent
    <3>. QED  BY <3>2, <3>3, ClParts
  <2>3. d.cls \in ClClasses \cup {"none"} /\ clSel.cls \in ClClasses \cup {"none"}
    BY <1>0, ClParts DEF ClCallType
  <2>. QED  BY <2>1, <2>2, <2>3 DEF ClListed, ClChanged, ClRegenerated, ClQrLoaded, ClGrouped, ClGroupLoaded
<1>3. /\ clShown' = [roster |-> clShown'.roster, panels |-> clShown'.panels, group |-> clShown'.group]
      /\ clShown'.roster = clShown.roster
  <2>1. clShown' = clShown \/ clShown' = [clShown EXCEPT !.group = [of |-> d.cls, who |-> d.res]]
    BY DEF ClListed, ClChanged, ClRegenerated, ClQrLoaded, ClGrouped, ClGroupLoaded
  <2>. QED  BY <1>0, <2>1 DEF ClTypeOK
<1>5. ClTypeOK'
  BY <1>0, <1>1, <1>2, <1>3, ClParts, ClTypeKept DEF ClTypeOK
<1>. QED  BY <1>0, <1>1, <1>2, <1>3, <1>5, ClQuietKeeps

(***************************************************************************)
(* The service                                                             *)
(***************************************************************************)
LEMMA ClAfterType ==
  ASSUME clRow \in [ClClasses -> ClRowType], NEW d, d.cls \in ClClasses
  PROVE  /\ ClAfter(d) \in ClRowType
         /\ d.op \notin {"add", "remove", "delete"} => ClAfter(d).members = clRow[d.cls].members
<1>. DEFINE row == clRow[d.cls]
            code == row.code + 1
<1>1. row \in ClRowType /\ code \in Nat
  BY DEF ClRowType
<1>2. /\ row.members \cup {ClStudent} \in SUBSET {ClStudent} /\ row.members \ {ClStudent} \in SUBSET {ClStudent}
      /\ row.group \ {ClStudent} \in SUBSET {ClStudent} /\ (~row.archived) \in BOOLEAN
      /\ row.group \cup (row.members \cap {ClStudent}) \in SUBSET {ClStudent}
  <2>1. row.members \in SUBSET {ClStudent} /\ row.group \in SUBSET {ClStudent} /\ row.archived \in BOOLEAN
    BY <1>1 DEF ClRowType
  <2>. HIDE DEF row
  <2>2. (~row.archived) \in BOOLEAN
    OBVIOUS
  <2>3. \A m \in SUBSET {ClStudent}, g \in SUBSET {ClStudent} :
          /\ m \cup {ClStudent} \in SUBSET {ClStudent} /\ m \ {ClStudent} \in SUBSET {ClStudent}
          /\ g \ {ClStudent} \in SUBSET {ClStudent} /\ g \cup (m \cap {ClStudent}) \in SUBSET {ClStudent}
    <3>. SUFFICES ASSUME NEW m, NEW g, m \subseteq {ClStudent}, g \subseteq {ClStudent}
                  PROVE  /\ m \cup {ClStudent} \subseteq {ClStudent} /\ m \ {ClStudent} \subseteq {ClStudent}
                         /\ g \ {ClStudent} \subseteq {ClStudent} /\ g \cup (m \cap {ClStudent}) \subseteq {ClStudent}
      BY Zenon
    <3>. QED  OBVIOUS
  <2>. QED  BY <2>1, <2>2, <2>3
<1>3. CASE d.op \in {"add", "remove", "delete"}
  <2>1. CASE d.op = "add"
    <3>1. ClAfter(d) = [row EXCEPT !.members = row.members \cup {ClStudent}]
      BY <2>1 DEF ClAfter
    <3>. HIDE DEF row
    <3>. QED  BY <1>1, <1>2, <2>1, <3>1 DEF ClRowType
  <2>2. CASE d.op = "remove"
    <3>1. ClAfter(d) = [row EXCEPT !.members = row.members \ {ClStudent}, !.group = row.group \ {ClStudent}]
      BY <2>2 DEF ClAfter
    <3>. HIDE DEF row
    <3>. QED  BY <1>1, <1>2, <2>2, <3>1 DEF ClRowType
  <2>3. CASE d.op = "delete"
    <3>1. ClAfter(d) = [row EXCEPT !.alive = FALSE, !.members = {}, !.group = {}]
      BY <2>3 DEF ClAfter
    <3>. HIDE DEF row
    <3>. QED  BY <1>1, <1>2, <2>3, <3>1 DEF ClRowType
  <2>. QED  BY <1>3, <2>1, <2>2, <2>3
<1>4. CASE d.op \notin {"add", "remove", "delete"}
  <2>1. ClAfter(d) \in {row, [row EXCEPT !.alive = TRUE], [row EXCEPT !.code = code],
                       [row EXCEPT !.archived = ~row.archived],
                       [row EXCEPT !.group = row.group \cup (row.members \cap {ClStudent})],
                       [row EXCEPT !.group = row.group \ {ClStudent}]}
    BY <1>4 DEF ClAfter
  <2>. HIDE DEF row, code
  <2>2. \A r \in {row, [row EXCEPT !.alive = TRUE], [row EXCEPT !.code = code],
                  [row EXCEPT !.archived = ~row.archived],
                  [row EXCEPT !.group = row.group \cup (row.members \cap {ClStudent})],
                  [row EXCEPT !.group = row.group \ {ClStudent}]} :
          r \in ClRowType /\ r.members = row.members
    BY <1>1, <1>2 DEF ClRowType
  <2>. QED  BY <2>1, <2>2 DEF row
<1>. QED  BY <1>3, <1>4

LEMMA ClHandledKeeps ==
  ASSUME ClassDeskInv, NEW d \in clCalls, ClHandled(d)
  PROVE  ClassDeskInv'
<1>0. ClTypeOK /\ OneRoster /\ RosterFollows /\ ClCallType(d) /\ d.stage = "sent"
  BY ClParts DEF ClHandled
<1>1. d.cls \in ClClasses
  BY <1>0 DEF ClHandled, ClCallType
<1>2. PICK res :
        /\ d.op = "roster" => res = clRow[d.cls].members
        /\ clCalls' = (clCalls \ {d}) \cup {[d EXCEPT !.stage = "done", !.res = res]}
  BY DEF ClHandled
<1>3. clRow' = [clRow EXCEPT ![d.cls] = ClAfter(d)] /\ UNCHANGED <<clSel, clShown, clHist>>
  BY DEF ClHandled
<1>. DEFINE e == [d EXCEPT !.stage = "done", !.res = res]
<1>4. ClCallType(e) /\ e.op = d.op /\ e.cls = d.cls /\ e.stage = "done" /\ e.res = res
  <2>1. PICK n, op, c, flag, stage, old : d = [n |-> n, op |-> op, cls |-> c, flag |-> flag, stage |-> stage, res |-> old]
    BY <1>0 DEF ClCallType
  <2>. DEFINE d1 == [d EXCEPT !.stage = "done"]
  <2>2. d1 = [n |-> n, op |-> op, cls |-> c, flag |-> flag, stage |-> "done", res |-> old]
    BY <2>1
  <2>3. e = [d1 EXCEPT !.res = res]
    OBVIOUS
  <2>. HIDE DEF d1, e
  <2>4. e = [n |-> n, op |-> op, cls |-> c, flag |-> flag, stage |-> "done", res |-> res]
    BY <2>2, <2>3
  <2>. QED  BY <1>0, <2>1, <2>4 DEF ClCallType
<1>5. clCalls' = (clCalls \ {d}) \cup {e}
  BY <1>2
<1>. HIDE DEF e
<1>6. clRow' \in [ClClasses -> ClRowType]
  BY <1>1, <1>3, ClParts, ClAfterType
<1>7. ClTypeOK'
  BY <1>0, <1>3, <1>4, <1>5, <1>6, ClParts, ClTypeKept DEF ClTypeOK
<1>8. OneRoster'
  BY <1>0, <1>3, <1>4, <1>5 DEF OneRoster
<1>9. RosterFollows'
  <2>. SUFFICES ASSUME ~clHist.crossed, ~clHist.lost, clSel.cls # "none", ~RosterDue'
                PROVE  /\ \A f \in clCalls' : f.op = "roster" /\ f.stage = "done" => f.res = clRow'[clSel.cls].members
                       /\ \/ \E f \in clCalls' : f.op = "roster"
                          \/ clShown.roster \in {ClNowhere, ClRoster(clSel.cls)'}
    BY <1>3 DEF RosterFollows
  <2>1. ~RosterDue
    BY <1>0, <1>3, <1>5 DEF RosterDue
  <2>2. d.op \notin {"add", "remove"} /\ ~(d.op = "delete" /\ d.cls = clSel.cls)
    BY <1>3, <1>4, <1>5 DEF RosterDue
  <2>3. clSel.cls \in ClClasses
    BY ClParts
  <2>4. clRow'[clSel.cls].members = clRow[clSel.cls].members
    BY <1>1, <1>3, <2>2, <2>3, ClParts, ClAfterType
  <2>5. d.op = "roster" => d.cls = clSel.cls
    BY <1>0 DEF OneRoster
  <2>6. \A f \in clCalls' : f.op = "roster" /\ f.stage = "done" => f.res = clRow'[clSel.cls].members
    BY <1>0, <1>2, <1>4, <1>5, <2>1, <2>4, <2>5 DEF RosterFollows
  <2>7. (\E f \in clCalls : f.op = "roster") => \E f \in clCalls' : f.op = "roster"
    BY <1>4, <1>5
  <2>8. ClRoster(clSel.cls)' = ClRoster(clSel.cls)
    BY <1>3, <2>4 DEF ClRoster
  <2>. QED  BY <1>0, <2>1, <2>6, <2>7, <2>8 DEF RosterFollows
<1>. QED  BY <1>7, <1>8, <1>9 DEF ClassDeskInv

LEMMA ClFailsKeep ==
  ASSUME ClassDeskInv, NEW d \in clCalls, ClFails(d)
  PROVE  ClassDeskInv'
<1>. DEFINE more == clHist.faults + 1
            lost == clHist.lost \/ d.op \notin {"roster", "group", "qr"}
            shown == [clShown EXCEPT !.roster = ClNowhere]
<1>0. ClTypeOK /\ OneRoster /\ RosterFollows /\ more \in Nat /\ lost \in BOOLEAN
  BY ClParts DEF ClHistType
<1>1. /\ clCalls' = clCalls \ {d} /\ UNCHANGED <<clRow, clSel>>
      /\ (d.stage = "sent" /\ clHist' = clHist) \/ clHist' = [clHist EXCEPT !.faults = more, !.lost = lost]
      /\ clShown' = IF d.op = "roster" THEN shown ELSE clShown
  BY DEF ClFails
<1>2. /\ clHist' \in ClHistType /\ (clHist'.crossed = clHist.crossed) /\ (clHist.lost => clHist'.lost)
      /\ d.stage = "sent" \/ (clHist'.lost = lost)
  <2>. HIDE DEF more, lost
  <2>1. CASE clHist' = clHist /\ d.stage = "sent"
    BY <2>1, ClParts
  <2>2. CASE clHist' = [clHist EXCEPT !.faults = more, !.lost = lost]
    <3>1. clHist' \in ClHistType /\ (clHist'.crossed = clHist.crossed) /\ (clHist'.lost = lost)
      BY <1>0, <2>2, ClParts DEF ClHistType
    <3>. QED  BY <3>1 DEF lost
  <2>. QED  BY <1>1, <2>1, <2>2
<1>3. /\ clShown' = [roster |-> clShown'.roster, panels |-> clShown'.panels, group |-> clShown'.group]
      /\ (d.op # "roster" /\ clShown'.roster = clShown.roster) \/ (d.op = "roster" /\ clShown'.roster = ClNowhere)
  BY <1>0, <1>1 DEF ClTypeOK
<1>. HIDE DEF more, shown
<1>4. ClTypeOK'
  BY <1>0, <1>1, <1>2, <1>3, ClParts, ClTypeKept DEF ClTypeOK
<1>5. OneRoster'
  BY <1>0, <1>1, <1>2 DEF OneRoster
<1>6. RosterFollows'
  <2>. SUFFICES ASSUME ~clHist'.crossed, ~clHist'.lost, clSel.cls # "none", ~RosterDue'
                PROVE  RosterFollows'
    BY <1>1 DEF RosterFollows
  <2>1. ~RosterDue
    <3>1. d.stage = "sent" \/ d.op \in {"roster", "group", "qr"}
      BY <1>2 DEF lost
    <3>. QED  BY <1>1, <3>1 DEF RosterDue
  <2>2. \A f \in clCalls' : f.op = "roster" /\ f.stage = "done" => f.res = clRow[clSel.cls].members
    BY <1>0, <1>1, <1>2, <2>1 DEF RosterFollows
  <2>3. (\E f \in clCalls' : f.op = "roster") \/ clShown'.roster \in {ClNowhere, ClRoster(clSel.cls)}
    BY <1>0, <1>1, <1>2, <1>3, <2>1 DEF RosterFollows
  <2>. QED  BY <1>1, <2>2, <2>3 DEF RosterFollows, ClRoster
<1>. QED  BY <1>4, <1>5, <1>6 DEF ClassDeskInv

(***************************************************************************)
(* The roster                                                              *)
(***************************************************************************)
\* The roster of the class that is selected now is asked for.
LEMMA ClRosterAsked ==
  ASSUME ClassDeskInv, NEW calls, calls \subseteq clCalls, NEW c \in ClClasses \cup {"none"}, NEW flag,
         ClSend(calls, "roster", c, flag), ClSelecting(c), clRow' = clRow, clShown' = clShown
  PROVE  ClassDeskInv'
<1>0. ClTypeOK /\ "roster" \in ClOps
  BY ClParts DEF ClOps
<1>1. PICK new : clCalls' = calls \cup {new} /\ ClCallType(new) /\ new.op = "roster" /\ new.cls = c /\ new.stage = "sent"
  BY <1>0, ClSent
<1>2. /\ clHist' \in ClHistType /\ clHist'.lost = clHist.lost
      /\ (clHist'.crossed = (clHist.crossed \/ \E d \in calls : d.op = "roster"))
  BY <1>0, ClSent
<1>3. clSel' = [cls |-> c, group |-> FALSE] /\ clSel' \in [cls : ClClasses \cup {"none"}, group : BOOLEAN] /\ clSel'.cls = c
  BY DEF ClSelecting
<1>4. ClTypeOK'
  BY <1>0, <1>1, <1>2, <1>3, ClParts, ClTypeKept DEF ClTypeOK
<1>5. ~clHist'.crossed => \A d \in clCalls' : d.op = "roster" => d = new
  BY <1>1, <1>2
<1>6. OneRoster'
  BY <1>1, <1>3, <1>5 DEF OneRoster
<1>7. RosterFollows'
  BY <1>1, <1>5 DEF RosterFollows
<1>. QED  BY <1>4, <1>6, <1>7 DEF ClassDeskInv

LEMMA ClSelectKeeps ==
  ASSUME ClassDeskInv, \/ \E c \in ClClasses : ClSelect(c)
                       \/ \E d \in clCalls : ClMembersChanged(d)
  PROVE  ClassDeskInv'
<1>1. ASSUME NEW c \in ClClasses, ClSelect(c) PROVE ClassDeskInv'
  BY <1>1, ClRosterAsked DEF ClSelect
<1>2. ASSUME NEW d \in clCalls, ClMembersChanged(d) PROVE ClassDeskInv'
  <2>1. clCalls \ {d} \subseteq clCalls /\ clSel.cls \in ClClasses \cup {"none"}
    BY ClParts
  <2>. QED  BY <1>2, <2>1, ClRosterAsked DEF ClMembersChanged
<1>. QED  BY <1>1, <1>2

LEMMA ClLoadedKeeps ==
  ASSUME ClassDeskInv, NEW d \in clCalls, ClLoaded(d)
  PROVE  ClassDeskInv'
<1>. DEFINE roster == [of |-> d.cls, who |-> d.res]
<1>0. ClTypeOK /\ OneRoster /\ RosterFollows /\ d.stage = "done" /\ d.op = "roster"
  BY ClParts DEF ClLoaded, ClIs
<1>1. clShown' = [clShown EXCEPT !.roster = roster, !.panels = d.cls] /\ clCalls' = clCalls \ {d}
        /\ UNCHANGED <<clRow, clSel, clHist>>
  BY DEF ClLoaded
<1>2. clShown' = [roster |-> clShown'.roster, panels |-> clShown'.panels, group |-> clShown'.group]
        /\ clShown'.roster = roster
  <2>. HIDE DEF roster
  <2>. QED  BY <1>0, <1>1 DEF ClTypeOK
<1>3. ClTypeOK'
  BY <1>0, <1>1, <1>2, ClParts, ClTypeKept DEF ClTypeOK
<1>4. OneRoster'
  BY <1>0, <1>1 DEF OneRoster
<1>5. RosterFollows'
  <2>. SUFFICES ASSUME ~clHist.crossed, ~clHist.lost, clSel.cls # "none", ~RosterDue' PROVE RosterFollows'
    BY <1>1 DEF RosterFollows
  <2>1. ~RosterDue
    BY <1>0, <1>1 DEF RosterDue
  <2>2. d.cls = clSel.cls /\ d.res = clRow[clSel.cls].members
    BY <1>0, <2>1 DEF OneRoster, RosterFollows
  <2>3. clShown'.roster = ClRoster(clSel.cls)
    BY <1>2, <2>2 DEF ClRoster
  <2>4. \A f \in clCalls' : f.op # "roster"
    BY <1>0, <1>1 DEF OneRoster
  <2>. QED  BY <1>1, <2>3, <2>4 DEF RosterFollows, ClRoster
<1>. QED  BY <1>3, <1>4, <1>5 DEF ClassDeskInv

LEMMA ClDeletedKeeps ==
  ASSUME ClassDeskInv, NEW d \in clCalls, ClDeleted(d)
  PROVE  ClassDeskInv'
<1>0. ClTypeOK /\ OneRoster /\ RosterFollows /\ ClCallType(d) /\ d.stage = "done" /\ d.op = "delete"
  BY ClParts DEF ClDeleted, ClIs
<1>1. ClSend(clCalls \ {d}, "list", d.cls, d.flag) /\ clRow' = clRow
  BY DEF ClDeleted
<1>2. /\ clHist' \in ClHistType /\ clHist'.lost = clHist.lost /\ (clHist'.crossed = clHist.crossed)
      /\ \E new : clCalls' = (clCalls \ {d}) \cup {new} /\ ClCallType(new) /\ new.op = "list"
  <2>1. "list" \in ClOps /\ d.cls \in ClClasses \cup {"none"} /\ clCalls \ {d} \subseteq clCalls
    BY <1>0 DEF ClOps, ClCallType
  <2>. QED  BY <1>1, <2>1, ClSent, ClParts
<1>3. CASE clSel.cls = d.cls
  <2>1. clSel' = [clSel EXCEPT !.cls = "none"] /\ clShown' = [clShown EXCEPT !.roster = ClNowhere]
    BY <1>3 DEF ClDeleted
  <2>2. clSel' \in [cls : ClClasses \cup {"none"}, group : BOOLEAN] /\ clSel'.cls = "none"
    BY <1>0, <2>1 DEF ClTypeOK
  <2>3. clShown' = [roster |-> clShown'.roster, panels |-> clShown'.panels, group |-> clShown'.group]
    BY <1>0, <2>1 DEF ClTypeOK
  <2>4. ClTypeOK'
    BY <1>0, <1>1, <1>2, <2>2, <2>3, ClParts, ClTypeKept DEF ClTypeOK
  <2>5. OneRoster'
    BY <1>0, <1>2, <2>2 DEF OneRoster
  <2>. QED  BY <2>2, <2>4, <2>5 DEF ClassDeskInv, RosterFollows
<1>4. CASE clSel.cls # d.cls
  <2>1. clSel' = clSel /\ clShown' = clShown
    BY <1>4 DEF ClDeleted
  <2>2. ClTypeOK'
    BY <1>0, <1>1, <1>2, <2>1, ClParts, ClTypeKept DEF ClTypeOK
  <2>. QED  BY <1>0, <1>1, <1>2, <1>4, <2>1, <2>2, ClQuietKeeps
<1>. QED  BY <1>3, <1>4

LEMMA ClassDeskStep == ClassDeskInv /\ [ClNext]_clVars => ClassDeskInv'
<1>. SUFFICES ASSUME ClassDeskInv, [ClNext]_clVars PROVE ClassDeskInv'
  OBVIOUS
<1>1. CASE UNCHANGED clVars
  <2>1. UNCHANGED <<clRow, clSel, clShown, clCalls, clHist>>
    BY <1>1 DEF clVars
  <2>2. ClTypeOK'
    BY <2>1, ClParts DEF ClTypeOK
  <2>. QED  BY <2>1, <2>2, ClQuietKeeps
<1>2. CASE \E d \in clCalls :
             \/ ClHandled(d) \/ ClFails(d)
             \/ ClListed(d) \/ ClChanged(d) \/ ClLoaded(d) \/ ClMembersChanged(d) \/ ClDeleted(d)
             \/ ClRegenerated(d) \/ ClQrLoaded(d) \/ ClGrouped(d) \/ ClGroupLoaded(d)
  BY <1>2, ClHandledKeeps, ClFailsKeep, ClAnswersKeep, ClLoadedKeeps, ClSelectKeeps, ClDeletedKeeps
<1>. QED  BY <1>1, <1>2, ClSelectKeeps, ClButtonsKeep, ClPanelsKeep DEF ClNext

LEMMA ClassDeskImplied == ClassDeskInv => RosterOfSelected
<1>. SUFFICES ASSUME ClassDeskInv, clCalls = {}, ~clHist.crossed, ~clHist.lost, ClSection, clShown.roster # ClNowhere
              PROVE  clShown.roster = ClRoster(clSel.cls)
  BY DEF RosterOfSelected
<1>1. RosterFollows /\ clSel.cls # "none" /\ ~RosterDue
  BY DEF ClassDeskInv, ClSection, RosterDue
<1>. QED  BY <1>1 DEF RosterFollows

(***************************************************************************)
(* The territory pages                                                     *)
(***************************************************************************)
LEMMA OutcomeInitial == TdInit => OutcomeInv
<1>. SUFFICES ASSUME TdInit PROVE OutcomeInv
  OBVIOUS
<1>1. /\ tdServer = [acts |-> tdServer.acts, plays |-> [s \in TdSessions |-> TdNobody]]
      /\ tdPage = [kind |-> "list", act |-> TdNobody, n |-> 1, since |-> 1]
      /\ tdView = TdBlank
      /\ tdCalls = {TdCall(1, "list", TdNobody, TdNobody, 0)}
      /\ \E role : tdTab = [role |-> role, skip |-> FALSE, game |-> [act |-> TdNobody, slot |-> TdNobody],
                ended |-> <<>>, at |-> 0, cache |-> [s \in TdSessions |-> TdNobody], told |-> {},
                faults |-> 0, twice |-> FALSE]
  <2>1. \E open : tdServer = [acts |-> [a \in TdActs |-> IF a \in open THEN "open" ELSE "absent"],
                              plays |-> [s \in TdSessions |-> TdNobody]]
    BY DEF TdInit, TdSessions
  <2>2. PICK role \in {"student", "teacher"} :
          tdTab = [role |-> role, skip |-> FALSE, game |-> [act |-> TdNobody, slot |-> TdNobody],
                ended |-> <<>>, at |-> 0, cache |-> [s \in TdSessions |-> TdNobody], told |-> {},
                faults |-> 0, twice |-> FALSE]
    BY DEF TdInit, TdSessions
  <2>3. /\ tdPage = [kind |-> "list", act |-> TdNobody, n |-> 1, since |-> 1]
        /\ tdView = TdBlank
        /\ tdCalls = {TdCall(1, "list", TdNobody, TdNobody, 0)}
    BY DEF TdInit
  <2>4. tdServer = [acts |-> tdServer.acts, plays |-> [s \in TdSessions |-> TdNobody]]
    BY <2>1
  <2>. QED  BY <2>2, <2>3, <2>4, Zenon
<1>2. TdTypeOK
  <2>1. [s \in TdSessions |-> TdNobody] \in [TdSessions -> TdOutcomes]
    BY DEF TdOutcomes
  <2>2. \A c \in tdCalls : TdRequest(c, tdPage.n)
    BY <1>1 DEF TdCall, TdRequest
  <2>3. /\ tdTab = [role |-> tdTab.role, skip |-> tdTab.skip, game |-> tdTab.game, ended |-> tdTab.ended, at |-> tdTab.at,
              cache |-> tdTab.cache, told |-> tdTab.told, faults |-> tdTab.faults, twice |-> tdTab.twice]
        /\ tdTab.ended = <<>> /\ tdTab.cache = [s \in TdSessions |-> TdNobody] /\ tdTab.told = {} /\ tdTab.twice = FALSE
    BY <1>1
  <2>4. TdPlayedOut(<< >>)
    BY TdAssumption DEF TdPlayedOut
  <2>. QED  BY <1>1, <2>1, <2>2, <2>3, <2>4, TdAssumption DEF TdTypeOK, TdBlank
<1>3. OutcomesTrue
  BY <1>1 DEF OutcomesTrue, TdCall
<1>4. OwnAnswer
  BY <1>1 DEF OwnAnswer
<1>. QED  BY <1>2, <1>3, <1>4 DEF OutcomeInv

(***************************************************************************)
(* What a step leaves of the invariant, part by part                       *)
(***************************************************************************)
\* The tab's memory is what the invariant knows of it.
TabKept ==
  /\ tdTab' = [role |-> tdTab'.role, skip |-> tdTab'.skip, game |-> tdTab'.game, ended |-> tdTab'.ended, at |-> tdTab'.at,
               cache |-> tdTab'.cache, told |-> tdTab'.told, faults |-> tdTab'.faults, twice |-> tdTab'.twice]
  /\ tdTab'.ended = tdTab.ended /\ tdTab'.at = tdTab.at /\ tdTab'.cache = tdTab.cache
  /\ tdTab'.told = tdTab.told /\ tdTab'.twice = tdTab.twice

\* The page and its view are records of their fields.
PageShaped ==
  /\ tdPage' = [kind |-> tdPage'.kind, act |-> tdPage'.act, n |-> tdPage'.n, since |-> tdPage'.since]
  /\ tdView' = [preview |-> tdView'.preview, asking |-> tdView'.asking, busy |-> tdView'.busy, outcome |-> tdView'.outcome]

\* A step that neither plays nor answers a play: another page that is no result, or the
\* same page with the same outcome.
LEMMA QuietKeeps ==
  ASSUME OutcomeInv, TabKept, PageShaped,
         tdServer' = [acts |-> tdServer'.acts, plays |-> tdServer.plays],
         tdPage'.n \in Nat, tdPage.n <= tdPage'.n, tdPage'.since \in 1..tdPage'.n,
         \A c \in tdCalls' : c \in tdCalls \/ (TdRequest(c, tdPage'.n) /\ c.op # "play"),
         tdPage'.kind = "result" => tdPage.kind = "result" /\ tdPage'.since = tdPage.since /\ tdView'.outcome = tdView.outcome,
         tdPage'.kind = "game" => Len(tdTab.ended) < TdRuns
  PROVE  OutcomeInv'
<1>0. TdTypeOK /\ OutcomesTrue /\ OwnAnswer
  BY DEF OutcomeInv
<1>1. \A c \in tdCalls' : TdRequest(c, tdPage'.n)
  <2>. SUFFICES ASSUME NEW c \in tdCalls, TdRequest(c, tdPage.n) PROVE TdRequest(c, tdPage'.n)
    BY <1>0 DEF TdTypeOK
  <2>1. 0..tdPage.n \subseteq 0..tdPage'.n
    BY <1>0 DEF TdTypeOK
  <2>. QED  BY <2>1 DEF TdRequest
<1>p. tdServer'.plays = tdServer.plays
  OBVIOUS
<1>2. TdTypeOK'
  BY <1>0, <1>1, <1>p DEF TdTypeOK, TabKept, PageShaped
<1>3. OutcomesTrue'
  BY <1>0, <1>p DEF OutcomesTrue, TabKept
<1>4. OwnAnswer'
  BY <1>0, <1>p DEF OwnAnswer, TabKept
<1>. QED  BY <1>2, <1>3, <1>4 DEF OutcomeInv

\* A request is made of its fields.
LEMMA CallFacts ==
  ASSUME NEW n \in 0..tdPage'.n, NEW op, NEW act, NEW slot, NEW sid, op = "play" => sid \in TdSessions
  PROVE  LET c == TdCall(n, op, act, slot, sid) IN
         TdRequest(c, tdPage'.n) /\ c.op = op /\ c.n = n /\ c.sid = sid /\ c.stage = "sent"
BY DEF TdCall, TdRequest, TdSessions

\* Another page is opened; it is a new one, or the detail page used again.
LEMMA OpenFacts ==
  ASSUME TdTypeOK, NEW kind, NEW act, NEW view, NEW store, NEW calls, TdOpen(kind, act, view, store, calls)
  PROVE  /\ tdPage' = [kind |-> tdPage'.kind, act |-> tdPage'.act, n |-> tdPage'.n, since |-> tdPage'.since]
         /\ tdPage'.kind = kind /\ tdPage'.n = tdPage.n + 1 /\ tdPage'.n \in Nat /\ tdPage.n <= tdPage'.n
         /\ tdPage'.since \in 1..tdPage'.n /\ (kind # "detail" => tdPage'.since = tdPage.n + 1)
         /\ tdView' = view /\ tdServer' = tdServer /\ \A c \in tdCalls' : c \in tdCalls \/ c \in calls
         /\ calls \subseteq tdCalls'
BY DEF TdOpen, TdTypeOK

LEMMA TdOpenKeeps ==
  ASSUME OutcomeInv, NEW kind \in {"list", "form", "detail", "away"}, NEW act, NEW view \in {TdBlank, TdReused},
         NEW store, NEW calls, calls \in {{}, {TdAsk("list", TdNobody)}, {TdAsk("detail", act)}},
         TdOpen(kind, act, view, store, calls), tdTab' = tdTab
  PROVE  OutcomeInv'
<1>0. TdTypeOK
  BY DEF OutcomeInv
<1>2. /\ tdPage' = [kind |-> tdPage'.kind, act |-> tdPage'.act, n |-> tdPage'.n, since |-> tdPage'.since]
      /\ tdPage'.kind = kind /\ tdPage'.n = tdPage.n + 1 /\ tdPage'.n \in Nat /\ tdPage.n <= tdPage'.n
      /\ tdPage'.since \in 1..tdPage'.n
      /\ tdView' = view /\ tdServer' = tdServer /\ \A c \in tdCalls' : c \in tdCalls \/ c \in calls
  BY <1>0, OpenFacts
<1>3. \A c \in calls : TdRequest(c, tdPage'.n) /\ c.op # "play"
  <2>1. tdPage.n + 1 \in 0..tdPage'.n
    BY <1>0, <1>2 DEF TdTypeOK
  <2>2. \A op, a : op # "play" => TdRequest(TdCall(tdPage.n + 1, op, a, TdNobody, 0), tdPage'.n) /\ TdCall(tdPage.n + 1, op, a, TdNobody, 0).op = op
    BY <2>1, CallFacts
  <2>. QED  BY <2>2 DEF TdAsk
<1>4. PageShaped
  BY <1>0, <1>2 DEF PageShaped, TdTypeOK, TdBlank, TdReused
<1>5. TabKept
  BY <1>0 DEF TabKept, TdTypeOK
<1>6. tdServer' = [acts |-> tdServer'.acts, plays |-> tdServer.plays]
  BY <1>0, <1>2 DEF TdTypeOK
<1>. QED  BY <1>2, <1>3, <1>4, <1>5, <1>6, QuietKeeps

LEMMA TdPagesKeep ==
  ASSUME OutcomeInv,
         \/ TdList \/ TdForm \/ TdLost \/ TdLogout \/ TdLogin
         \/ \E act \in TdActs : TdClick(act) \/ TdHop(act)
  PROVE  OutcomeInv'
<1>1. CASE TdList \/ TdLogin
  BY <1>1, TdOpenKeeps DEF TdList, TdLogin
<1>2. CASE TdForm
  BY <1>2, TdOpenKeeps DEF TdForm
<1>3. CASE TdLogout
  BY <1>3, TdOpenKeeps DEF TdLogout
<1>4. CASE TdLost
  BY <1>4, TdOpenKeeps DEF TdLost, TdAsked
<1>5. CASE \E act \in TdActs : TdClick(act) \/ TdHop(act)
  BY <1>5, TdOpenKeeps DEF TdClick, TdHop, TdAsked
<1>. QED  BY <1>1, <1>2, <1>3, <1>4, <1>5

\* What happens on a page: no request but those for a settlement, an activity, a detail.
LEMMA TdOnPageKeep ==
  ASSUME OutcomeInv,
         \/ TdSlot \/ TdPreview \/ TdSkip \/ TdSettle \/ TdConfirm
         \/ \E act \in TdActs : TdSubmit(act)
  PROVE  OutcomeInv'
<1>0. TdTypeOK
  BY DEF OutcomeInv
<1>6. tdServer' = [acts |-> tdServer'.acts, plays |-> tdServer.plays]
  <2>1. tdServer' = tdServer
    BY DEF TdSlot, TdPreview, TdSkip, TdSettle, TdConfirm, TdSubmit, TdPlay
  <2>. QED  BY <1>0, <2>1 DEF TdTypeOK
<1>1. CASE \E slot : TdPlay(slot)
  <2>1. PICK slot : TdPlay(slot)
    BY <1>1
  <2>2. /\ tdTab' = [tdTab EXCEPT !.game = [act |-> tdPage.act, slot |-> slot]] /\ Len(tdTab.ended) < TdRuns
        /\ tdPage' = [tdPage EXCEPT !.kind = "game", !.n = @ + 1] /\ tdView' = TdBlank /\ tdCalls' = tdCalls
    BY <2>1 DEF TdPlay
  <2>3. TabKept
    BY <1>0, <2>2 DEF TabKept, TdTypeOK
  <2>4. /\ PageShaped /\ tdPage'.kind = "game" /\ tdPage'.n \in Nat /\ tdPage.n <= tdPage'.n
        /\ tdPage'.since \in 1..tdPage'.n
    <3>. DEFINE next == tdPage.n + 1
    <3>1. tdPage' = [tdPage EXCEPT !.kind = "game", !.n = next] /\ next \in Nat /\ tdPage.n <= next
            /\ 1..tdPage.n \subseteq 1..next
      BY <1>0, <2>2 DEF TdTypeOK
    <3>. HIDE DEF next
    <3>. QED  BY <1>0, <2>2, <3>1 DEF PageShaped, TdTypeOK, TdBlank
  <2>. QED  BY <1>6, <2>2, <2>3, <2>4, QuietKeeps
<1>2. CASE ~\E slot : TdPlay(slot)
  <2>1. tdPage' = tdPage
    BY <1>2 DEF TdSlot, TdPreview, TdSkip, TdSettle, TdConfirm, TdSubmit
  <2>2. /\ tdTab' = tdTab \/ tdTab' = [tdTab EXCEPT !.skip = ~@]
        /\ \/ tdView' = tdView
           \/ \E v : tdView' \in {[tdView EXCEPT !.preview = v], [tdView EXCEPT !.asking = v], [tdView EXCEPT !.busy = v]}
           \/ tdView' = [tdView EXCEPT !.asking = TdNobody, !.busy = TRUE]
        /\ \/ tdCalls' = tdCalls
           \/ \E op \in {"settle", "create"} : \E act, slot : tdCalls' = tdCalls \cup {TdCall(tdPage.n, op, act, slot, 0)}
    BY <1>2 DEF TdSlot, TdPreview, TdSkip, TdSettle, TdConfirm, TdSubmit
  <2>3. TabKept
    BY <1>0, <2>2 DEF TabKept, TdTypeOK
  <2>4. /\ PageShaped /\ tdPage'.n \in Nat /\ tdPage.n <= tdPage'.n /\ tdPage'.since \in 1..tdPage'.n
        /\ tdView'.outcome = tdView.outcome
    <3>1. /\ tdView' = [preview |-> tdView'.preview, asking |-> tdView'.asking, busy |-> tdView'.busy,
                        outcome |-> tdView'.outcome]
          /\ tdView'.outcome = tdView.outcome
      <4>0. tdView = [preview |-> tdView.preview, asking |-> tdView.asking, busy |-> tdView.busy, outcome |-> tdView.outcome]
        BY <1>0 DEF TdTypeOK
      <4>1. ASSUME NEW v, tdView' = [tdView EXCEPT !.preview = v] PROVE <3>1
        BY <4>0, <4>1
      <4>2. ASSUME NEW v, tdView' = [tdView EXCEPT !.asking = v] PROVE <3>1
        BY <4>0, <4>2
      <4>3. ASSUME NEW v, tdView' = [tdView EXCEPT !.busy = v] PROVE <3>1
        BY <4>0, <4>3
      <4>4. CASE tdView' = [tdView EXCEPT !.asking = TdNobody, !.busy = TRUE]
        BY <4>0, <4>4
      <4>. QED  BY <2>2, <4>0, <4>1, <4>2, <4>3, <4>4
    <3>. QED  BY <1>0, <2>1, <3>1 DEF PageShaped, TdTypeOK
  <2>5. \A c \in tdCalls' : c \in tdCalls \/ (TdRequest(c, tdPage'.n) /\ c.op # "play")
    <3>1. tdPage.n \in 0..tdPage'.n
      BY <1>0, <2>1 DEF TdTypeOK
    <3>. QED  BY <2>2, <3>1, CallFacts
  <2>6. tdPage'.kind = "game" => Len(tdTab.ended) < TdRuns
    BY <1>0, <2>1 DEF TdTypeOK
  <2>. QED  BY <1>6, <2>1, <2>3, <2>4, <2>5, <2>6, QuietKeeps
<1>. QED  BY <1>1, <1>2

(***************************************************************************)
(* The result of a session                                                 *)
(***************************************************************************)
LEMMA TdShowKeeps ==
  ASSUME OutcomeInv, NEW sid \in TdSessions, NEW run, NEW ended,
         TdPlayedOut(ended), TdShowResult(sid, run, ended)
  PROVE  OutcomeInv'
<1>0. TdTypeOK /\ OutcomesTrue /\ OwnAnswer
  BY DEF OutcomeInv
<1>. DEFINE calls == TdResult(sid, run)
            view == [TdBlank EXCEPT !.outcome = tdTab.cache[sid]]
            twice == tdTab.twice \/ \E c \in tdCalls : c.op = "play" /\ c.sid = sid
            c0 == TdCall(tdPage.n + 1, "play", run.act, run.slot, sid)
<1>1. /\ tdPage' = [kind |-> tdPage'.kind, act |-> tdPage'.act, n |-> tdPage'.n, since |-> tdPage'.since]
      /\ tdPage'.kind = "result" /\ tdPage'.n = tdPage.n + 1 /\ tdPage'.n \in Nat /\ tdPage.n <= tdPage'.n
      /\ tdPage'.since \in 1..tdPage'.n /\ tdPage'.since = tdPage.n + 1
      /\ tdView' = view /\ tdServer' = tdServer /\ \A c \in tdCalls' : c \in tdCalls \/ c \in calls
  BY <1>0, OpenFacts DEF TdShowResult
<1>2. tdTab' = [tdTab EXCEPT !.ended = ended, !.at = sid, !.twice = twice]
  BY DEF TdShowResult
<1>3. /\ tdTab' = [role |-> tdTab'.role, skip |-> tdTab'.skip, game |-> tdTab'.game, ended |-> tdTab'.ended, at |-> tdTab'.at,
               cache |-> tdTab'.cache, told |-> tdTab'.told, faults |-> tdTab'.faults, twice |-> tdTab'.twice]
      /\ tdTab'.ended = ended /\ tdTab'.at = sid /\ tdTab'.cache = tdTab.cache /\ tdTab'.told = tdTab.told
      /\ (tdTab'.twice = twice)
  <2>. HIDE DEF twice
  <2>. QED  BY <1>0, <1>2 DEF TdTypeOK
<1>4. \A c \in calls : c = c0
  BY DEF TdResult
<1>5. TdRequest(c0, tdPage'.n) /\ c0.op = "play" /\ c0.n = tdPage'.since /\ c0.sid = sid /\ c0.stage = "sent"
  <2>1. tdPage.n + 1 \in 0..tdPage'.n
    BY <1>0, <1>1 DEF TdTypeOK
  <2>. QED  BY <1>1, <2>1, CallFacts
<1>6. /\ tdView' = [preview |-> tdView'.preview, asking |-> tdView'.asking, busy |-> tdView'.busy, outcome |-> tdView'.outcome]
      /\ tdView'.outcome = tdTab.cache[sid]
  BY <1>1 DEF TdBlank
<1>. HIDE DEF calls, view, twice, c0
<1>7. \A c \in tdCalls : TdRequest(c, tdPage'.n) /\ c.n < tdPage'.since
  <2>1. \A c \in tdCalls : TdRequest(c, tdPage.n)
    BY <1>0 DEF TdTypeOK
  <2>2. 0..tdPage.n \subseteq 0..tdPage'.n /\ \A k \in 0..tdPage.n : k < tdPage'.since
    BY <1>0, <1>1 DEF TdTypeOK
  <2>. QED  BY <2>1, <2>2 DEF TdRequest
<1>8. TdTypeOK'
  <2>1. \A c \in tdCalls' : TdRequest(c, tdPage'.n)
    BY <1>1, <1>4, <1>5, <1>7
  <2>2. twice \in BOOLEAN
    BY <1>0 DEF twice, TdTypeOK
  <2>. QED  BY <1>0, <1>1, <1>3, <1>6, <2>1, <2>2 DEF TdTypeOK
<1>9. OutcomesTrue'
  BY <1>0, <1>1, <1>3, <1>4, <1>5 DEF OutcomesTrue
<1>10. OwnAnswer'
  <2>1. \A c \in tdCalls' : tdPage'.since <= c.n => c.sid = sid
    <3>1. \A c \in tdCalls : ~(tdPage'.since <= c.n)
      <4>1. \A c \in tdCalls : c.n \in Nat
        BY <1>0 DEF TdTypeOK, TdRequest
      <4>. QED  BY <1>1, <1>7, <4>1
    <3>. QED  BY <1>1, <1>4, <1>5, <3>1
  <2>2. ~twice => \A c \in tdCalls' : c.op = "play" /\ c.sid = sid => c.n = tdPage'.since
    BY <1>1, <1>4, <1>5 DEF twice
  <2>3. sid \in tdTab.told => tdTab.cache[sid] = tdServer.plays[sid]
    BY <1>0 DEF OutcomesTrue
  <2>. QED  BY <1>1, <1>3, <1>6, <2>1, <2>2, <2>3 DEF OwnAnswer
<1>. QED  BY <1>8, <1>9, <1>10 DEF OutcomeInv

LEMMA TdResultsKeep ==
  ASSUME OutcomeInv, TdWon \/ \E sid \in 1..TdRuns : TdAgain(sid)
  PROVE  OutcomeInv'
<1>0. TdTypeOK
  BY DEF OutcomeInv
<1>. DEFINE n == Len(tdTab.ended)
<1>n. n \in Nat /\ DOMAIN tdTab.ended = 1..n /\ n <= TdRuns /\ TdRuns \in Nat /\ TdPlayedOut(tdTab.ended)
  BY <1>0, TdAssumption DEF TdTypeOK, TdPlayedOut
<1>1. CASE TdWon
  <2>1. n < TdRuns
    BY <1>0, <1>1 DEF TdWon, TdTypeOK
  <2>. DEFINE ended == Append(tdTab.ended, tdTab.game)
  <2>2. TdPlayedOut(ended)
    <3>. DEFINE runs == {tdTab.ended[i] : i \in 1..n} \cup {tdTab.game}
    <3>1. tdTab.ended \in Seq(runs) /\ tdTab.game \in runs
      <4>1. tdTab.ended = [i \in 1..n |-> tdTab.ended[i]]
        BY <1>n DEF TdPlayedOut
      <4>2. tdTab.ended \in [1..n -> runs] /\ tdTab.game \in runs
        BY <4>1
      <4>. HIDE DEF runs
      <4>. QED  BY <1>n, <4>2
    <3>. HIDE DEF runs
    <3>2. ended \in Seq(runs) /\ Len(ended) = n + 1
      BY <3>1
    <3>. HIDE DEF ended, n
    <3>. QED  BY <1>n, <2>1, <3>2 DEF TdPlayedOut
  <2>3. TdShowResult(n + 1, tdTab.game, ended)
    BY <1>1 DEF TdWon
  <2>. HIDE DEF ended
  <2>4. n + 1 \in TdSessions
    BY <1>n, <2>1 DEF TdSessions
  <2>. HIDE DEF n
  <2>. QED  BY <1>n, <2>1, <2>2, <2>3, <2>4, TdShowKeeps
<1>2. CASE \E sid \in 1..TdRuns : TdAgain(sid)
  BY <1>n, <1>2, TdShowKeeps DEF TdAgain, TdSessions
<1>. QED  BY <1>1, <1>2

\* The page is loaded anew: what was asked for is heard by nobody.
LEMMA TdReloadKeeps ==
  ASSUME OutcomeInv, TdReload
  PROVE  OutcomeInv'
<1>0. TdTypeOK /\ OutcomesTrue /\ OwnAnswer /\ tdPage.kind = "result"
  BY DEF OutcomeInv, TdReload
<1>. DEFINE sid == tdTab.at
            c0 == TdCall(tdPage.n + 1, "play", tdTab.ended[sid].act, tdTab.ended[sid].slot, sid)
            lost(c) == [c EXCEPT !.n = 0]
            next == tdPage.n + 1
<1>1. sid \in TdSessions /\ next \in Nat /\ tdPage.n < next /\ 1 <= next
  BY <1>0 DEF TdTypeOK
<1>2. /\ tdPage' = [tdPage EXCEPT !.n = next, !.since = next] /\ UNCHANGED <<tdServer, tdTab>>
      /\ tdView' = [TdBlank EXCEPT !.outcome = tdTab.cache[sid]]
      /\ tdCalls' = TdResult(sid, tdTab.ended[sid]) \cup {lost(c) : c \in {d \in tdCalls : d.op = "play" /\ d.stage = "sent"}}
  BY DEF TdReload
<1>. HIDE DEF next
<1>3. /\ tdPage' = [kind |-> tdPage'.kind, act |-> tdPage'.act, n |-> tdPage'.n, since |-> tdPage'.since]
      /\ tdPage'.kind = "result" /\ tdPage'.n = next /\ tdPage'.since = next
  BY <1>0, <1>2 DEF TdTypeOK
<1>4. /\ tdView' = [preview |-> tdView'.preview, asking |-> tdView'.asking, busy |-> tdView'.busy, outcome |-> tdView'.outcome]
      /\ tdView'.outcome = tdTab.cache[sid]
  BY <1>2 DEF TdBlank
<1>5. TdRequest(c0, tdPage'.n) /\ c0.op = "play" /\ c0.n = next /\ c0.sid = sid /\ c0.stage = "sent"
  <2>1. tdPage.n + 1 \in 0..tdPage'.n
    BY <1>1, <1>3 DEF next
  <2>. QED  BY <1>1, <2>1, CallFacts DEF next
<1>6. \A c \in tdCalls : c.op = "play" /\ c.stage = "sent" => TdRequest(lost(c), tdPage'.n) /\ lost(c).n = 0 /\ lost(c).stage = "sent"
  <2>1. \A c \in tdCalls : TdRequest(c, tdPage.n)
    BY <1>0 DEF TdTypeOK
  <2>2. 0 \in 0..tdPage'.n
    BY <1>1, <1>3
  <2>. SUFFICES ASSUME NEW c \in tdCalls, c.op = "play", c.stage = "sent", TdRequest(c, tdPage.n)
                PROVE  TdRequest(lost(c), tdPage'.n) /\ lost(c).n = 0 /\ lost(c).stage = "sent"
    BY <2>1
  <2>3. lost(c) = [op |-> c.op, act |-> c.act, slot |-> c.slot, sid |-> c.sid, n |-> 0, stage |-> c.stage, res |-> c.res]
    BY DEF TdRequest
  <2>. HIDE DEF lost
  <2>. QED  BY <2>2, <2>3 DEF TdRequest
<1>7. \A e \in tdCalls' : (e = c0 /\ tdTab.cache[sid] = TdNobody) \/ (TdRequest(e, tdPage'.n) /\ e.n = 0 /\ e.stage = "sent")
  BY <1>2, <1>6 DEF TdResult
<1>. HIDE DEF c0, lost
<1>8. TdTypeOK'
  BY <1>0, <1>1, <1>2, <1>3, <1>4, <1>5, <1>7 DEF TdTypeOK
<1>9. OutcomesTrue'
  BY <1>0, <1>2, <1>5, <1>7 DEF OutcomesTrue
<1>10. OwnAnswer'
  <2>1. \A e \in tdCalls' : next <= e.n => e.sid = sid
    BY <1>1, <1>5, <1>7
  <2>2. \A e \in tdCalls' : e.n # 0 => next <= e.n
    BY <1>1, <1>5, <1>7
  <2>3. sid \in tdTab.told => tdTab.cache[sid] = tdServer.plays[sid]
    BY <1>0, <1>1 DEF OutcomesTrue
  <2>. QED  BY <1>2, <1>3, <1>4, <2>1, <2>2, <2>3 DEF OwnAnswer
<1>. QED  BY <1>8, <1>9, <1>10 DEF OutcomeInv

(***************************************************************************)
(* Answers                                                                 *)
(***************************************************************************)
\* The server decides a session once: what was heard of others stays true.
LEMMA TdHandledKeeps ==
  ASSUME OutcomeInv, NEW c \in tdCalls, TdHandled(c)
  PROVE  OutcomeInv'
<1>0. TdTypeOK /\ OutcomesTrue /\ OwnAnswer /\ TdRequest(c, tdPage.n) /\ c.stage = "sent"
  BY DEF OutcomeInv, TdTypeOK, TdHandled
<1>1. PICK outcome, res :
        /\ outcome \in IF c.op = "play" THEN {"seized", "beaten"} ELSE {"none"}
        /\ c.op = "play" => res = outcome
        /\ tdServer' = CASE c.op = "settle" -> [tdServer EXCEPT !.acts[c.act] = "settled"]
                          [] c.op = "create" -> [tdServer EXCEPT !.acts[c.act] = "open"]
                          [] c.op = "play" -> [tdServer EXCEPT !.plays[c.sid] = outcome]
                          [] OTHER -> tdServer
        /\ tdCalls' = (tdCalls \ {c}) \cup {[c EXCEPT !.stage = "done", !.res = res]}
  BY DEF TdHandled
<1>2. UNCHANGED <<tdPage, tdView, tdStore, tdTab>>
  BY DEF TdHandled
<1>. DEFINE d == [c EXCEPT !.stage = "done", !.res = res]
<1>3. d = [op |-> c.op, act |-> c.act, slot |-> c.slot, sid |-> c.sid, n |-> c.n, stage |-> "done", res |-> res]
  <2>1. PICK op, act, slot, sid, n, stage, old :
          c = [op |-> op, act |-> act, slot |-> slot, sid |-> sid, n |-> n, stage |-> stage, res |-> old]
    BY <1>0 DEF TdRequest
  <2>. DEFINE c1 == [c EXCEPT !.stage = "done"]
  <2>2. c1 = [op |-> op, act |-> act, slot |-> slot, sid |-> sid, n |-> n, stage |-> "done", res |-> old]
    BY <2>1
  <2>3. d = [c1 EXCEPT !.res = res]
    OBVIOUS
  <2>. HIDE DEF c1, d
  <2>4. d = [op |-> op, act |-> act, slot |-> slot, sid |-> sid, n |-> n, stage |-> "done", res |-> res]
    BY <2>2, <2>3
  <2>. QED  BY <2>1, <2>4
<1>4. tdCalls' = (tdCalls \ {c}) \cup {d}
  BY <1>1
<1>. HIDE DEF d
<1>5. TdRequest(d, tdPage'.n) /\ d.op = c.op /\ d.sid = c.sid /\ d.n = c.n /\ d.stage = "done" /\ d.res = res
  BY <1>0, <1>2, <1>3 DEF TdRequest
<1>6. CASE c.op # "play"
  <2>1. tdServer' = [acts |-> tdServer'.acts, plays |-> tdServer.plays]
    BY <1>0, <1>1, <1>6 DEF TdTypeOK
  <2>2. TabKept /\ PageShaped
    BY <1>0, <1>2 DEF TabKept, PageShaped, TdTypeOK
  <2>3. tdPage'.n \in Nat /\ tdPage.n <= tdPage'.n /\ tdPage'.since \in 1..tdPage'.n
          /\ (tdPage'.kind = "game" => Len(tdTab.ended) < TdRuns)
    BY <1>0, <1>2 DEF TdTypeOK
  <2>4. \A e \in tdCalls' : e \in tdCalls \/ (TdRequest(e, tdPage'.n) /\ e.op # "play")
    BY <1>4, <1>5, <1>6
  <2>. QED  BY <1>2, <2>1, <2>2, <2>3, <2>4, QuietKeeps
<1>7. CASE c.op = "play"
  <2>. DEFINE sid == c.sid
              plays == [tdServer.plays EXCEPT ![sid] = outcome]
  <2>1. sid \in TdSessions /\ outcome \in {"seized", "beaten"} /\ res = outcome
    BY <1>0, <1>1, <1>7 DEF TdRequest
  <2>2. tdServer.plays[sid] = TdNobody
    BY <1>0, <1>7 DEF TdHandled, TdRefused
  <2>3. tdServer' = [acts |-> tdServer'.acts, plays |-> tdServer'.plays] /\ tdServer'.plays = plays
    BY <1>0, <1>1, <1>7 DEF TdTypeOK
  <2>4. plays \in [TdSessions -> TdOutcomes] /\ plays[sid] = outcome
          /\ \A s \in TdSessions : s # sid => plays[s] = tdServer.plays[s]
    BY <1>0, <2>1 DEF TdTypeOK, TdOutcomes
  <2>5. sid \notin tdTab.told /\ tdTab.cache[sid] = TdNobody
    BY <1>0, <2>1, <2>2 DEF OutcomesTrue
  <2>6. \A e \in tdCalls : e.op = "play" /\ e.stage = "done" => e.sid # sid
    BY <1>0, <2>2 DEF OutcomesTrue
  <2>7. outcome # TdNobody
    BY <2>1 DEF TdNobody
  <2>. HIDE DEF plays, sid
  <2>8. \A e \in tdCalls : TdRequest(e, tdPage.n) /\ TdRequest(e, tdPage'.n)
    BY <1>0, <1>2 DEF TdTypeOK, TdRequest
  <2>9. d.sid = sid
    BY <1>5 DEF sid
  <2>10. TdTypeOK'
    BY <1>0, <1>2, <1>4, <1>5, <2>3, <2>4, <2>8 DEF TdTypeOK
  <2>11. OutcomesTrue'
    <3>1. \A e \in tdCalls : e.op = "play" => e.sid \in TdSessions
      BY <2>8 DEF TdRequest
    <3>2. tdTab.told \subseteq TdSessions
      BY <1>0 DEF TdTypeOK
    <3>. QED  BY <1>0, <1>2, <1>4, <1>5, <2>1, <2>3, <2>4, <2>5, <2>6, <2>7, <2>9, <3>1, <3>2 DEF OutcomesTrue
  <2>12. OwnAnswer'
    <3>1. tdTab.told \subseteq TdSessions
      BY <1>0 DEF TdTypeOK
    <3>2. c.sid = sid
      BY DEF sid
    <3>. SUFFICES ASSUME tdPage.kind = "result" PROVE OwnAnswer'
      BY <1>2 DEF OwnAnswer
    <3>3. \A e \in tdCalls' : e.op = "play" /\ tdPage.since <= e.n => e.sid = tdTab.at
      BY <1>0, <1>4, <1>5, <1>7 DEF OwnAnswer
    <3>4. ~tdTab.twice => \A e \in tdCalls' : e.op = "play" /\ e.sid = tdTab.at /\ e.n # 0 => tdPage.since <= e.n
      BY <1>0, <1>4, <1>5, <1>7 DEF OwnAnswer
    <3>5. ~tdTab.twice /\ tdTab.at \in tdTab.told => tdView.outcome = plays[tdTab.at]
      BY <1>0, <2>4, <2>5, <3>1 DEF OwnAnswer
    <3>. QED  BY <1>2, <2>3, <3>3, <3>4, <3>5 DEF OwnAnswer
  <2>. QED  BY <2>10, <2>11, <2>12 DEF OutcomeInv
<1>. QED  BY <1>6, <1>7

\* An answer that is not a play's, or an error.
LEMMA TdOthersKeep ==
  ASSUME OutcomeInv, NEW c \in tdCalls, TdFailed(c) \/ TdListed(c) \/ TdDetailed(c) \/ TdSettled(c)
  PROVE  OutcomeInv'
<1>0. TdTypeOK
  BY DEF OutcomeInv
<1>1. UNCHANGED <<tdServer, tdPage>>
  BY DEF TdFailed, TdListed, TdDetailed, TdSettled
<1>2. tdView' = tdView \/ tdView' = [tdView EXCEPT !.busy = FALSE]
  BY DEF TdFailed, TdListed, TdDetailed, TdSettled
<1>3. tdTab' = tdTab \/ tdTab' = [tdTab EXCEPT !.faults = @ + 1]
  BY DEF TdFailed, TdListed, TdDetailed, TdSettled
<1>4. \A e \in tdCalls' : e \in tdCalls \/ \E act : e = TdCall(tdPage.n, "detail", act, TdNobody, 0)
  BY DEF TdFailed, TdListed, TdDetailed, TdSettled, TdTaken
<1>5. TabKept
  <2>. DEFINE more == tdTab.faults + 1
  <2>1. tdTab' = tdTab \/ tdTab' = [tdTab EXCEPT !.faults = more]
    BY <1>3
  <2>. HIDE DEF more
  <2>. QED  BY <1>0, <2>1 DEF TabKept, TdTypeOK
<1>6. PageShaped /\ tdView'.outcome = tdView.outcome
  BY <1>0, <1>1, <1>2 DEF PageShaped, TdTypeOK
<1>7. tdPage'.n \in Nat /\ tdPage.n <= tdPage'.n /\ tdPage'.since \in 1..tdPage'.n /\ tdPage.n \in 0..tdPage'.n
        /\ (tdPage'.kind = "game" => Len(tdTab.ended) < TdRuns)
  BY <1>0, <1>1 DEF TdTypeOK
<1>8. \A e \in tdCalls' : e \in tdCalls \/ (TdRequest(e, tdPage'.n) /\ e.op # "play")
  <2>1. \A act : LET e == TdCall(tdPage.n, "detail", act, TdNobody, 0) IN TdRequest(e, tdPage'.n) /\ e.op = "detail"
    BY <1>7, CallFacts
  <2>. QED  BY <1>4, <2>1
<1>9. tdServer' = [acts |-> tdServer'.acts, plays |-> tdServer.plays]
  BY <1>0, <1>1 DEF TdTypeOK
<1>. QED  BY <1>1, <1>5, <1>6, <1>7, <1>8, <1>9, QuietKeeps

LEMMA TdCreatedKeeps ==
  ASSUME OutcomeInv, NEW c \in tdCalls, TdCreated(c)
  PROVE  OutcomeInv'
<1>0. TdTypeOK
  BY DEF OutcomeInv
<1>. DEFINE next == tdPage.n + 1
            since == IF tdPage.kind = "detail" THEN tdPage.since ELSE next
<1>1. /\ tdPage' = [kind |-> "detail", act |-> c.act, n |-> next, since |-> since]
      /\ tdView' \in {TdReused, TdBlank} /\ UNCHANGED <<tdServer, tdTab>>
      /\ tdCalls' = (tdCalls \ {c}) \cup TdAsked(c.act)
  BY DEF TdCreated
<1>2. next \in Nat /\ tdPage.n <= next /\ since \in 1..next /\ next \in 0..next /\ next = tdPage.n + 1
  BY <1>0 DEF TdTypeOK
<1>. HIDE DEF next, since
<1>3. TabKept
  BY <1>0, <1>1 DEF TabKept, TdTypeOK
<1>4. PageShaped
  BY <1>0, <1>1 DEF PageShaped, TdTypeOK, TdReused, TdBlank
<1>5. \A e \in tdCalls' : e \in tdCalls \/ (TdRequest(e, tdPage'.n) /\ e.op # "play")
  <2>1. LET e == TdCall(next, "detail", c.act, TdNobody, 0) IN TdRequest(e, tdPage'.n) /\ e.op = "detail"
    <3>1. next \in 0..tdPage'.n
      BY <1>1, <1>2
    <3>. QED  BY <3>1, CallFacts
  <2>. QED  BY <1>1, <1>2, <2>1 DEF TdAsked, TdAsk
<1>6. tdServer' = [acts |-> tdServer'.acts, plays |-> tdServer.plays]
  BY <1>0, <1>1 DEF TdTypeOK
<1>. QED  BY <1>1, <1>2, <1>3, <1>4, <1>5, <1>6, QuietKeeps

\* What is heard is what the server has decided; only the page of that session shows it.
LEMMA TdPlayedKeeps ==
  ASSUME OutcomeInv, NEW c \in tdCalls, c.stage = "done", TdPlayed(c)
  PROVE  OutcomeInv'
<1>0. TdTypeOK /\ OutcomesTrue /\ OwnAnswer /\ TdRequest(c, tdPage.n) /\ c.op = "play"
  BY DEF OutcomeInv, TdTypeOK, TdPlayed
<1>. DEFINE sid == c.sid
            told == tdTab.told \cup {sid}
            cache == [tdTab.cache EXCEPT ![sid] = c.res]
            own == tdPage.since <= c.n
<1>1. /\ tdCalls' = tdCalls \ {c} /\ UNCHANGED <<tdServer, tdPage>>
      /\ tdTab' = IF c.n = 0 THEN tdTab ELSE [tdTab EXCEPT !.told = told, !.cache = cache]
      /\ tdView' = IF own THEN [tdView EXCEPT !.outcome = c.res] ELSE tdView
  <2>1. [tdTab EXCEPT !.told = @ \cup {c.sid}, !.cache[c.sid] = c.res] = [tdTab EXCEPT !.told = told, !.cache = cache]
    OBVIOUS
  <2>. QED  BY <2>1 DEF TdPlayed, TdTaken, TdOwn
<1>2. sid \in TdSessions /\ c.res = tdServer.plays[sid] /\ c.res # TdNobody /\ c.res \in TdOutcomes
  BY <1>0 DEF OutcomesTrue, TdRequest, TdTypeOK
<1>3. /\ cache \in [TdSessions -> TdOutcomes] /\ cache[sid] = c.res
      /\ \A s \in TdSessions : s # sid => cache[s] = tdTab.cache[s]
      /\ told \subseteq TdSessions /\ sid \in told /\ \A s \in told : s = sid \/ s \in tdTab.told
  BY <1>0, <1>2 DEF TdTypeOK
<1>. HIDE DEF cache, told, own, sid
<1>4. /\ tdTab' = [role |-> tdTab'.role, skip |-> tdTab'.skip, game |-> tdTab'.game, ended |-> tdTab'.ended, at |-> tdTab'.at,
               cache |-> tdTab'.cache, told |-> tdTab'.told, faults |-> tdTab'.faults, twice |-> tdTab'.twice]
      /\ tdTab'.ended = tdTab.ended /\ tdTab'.at = tdTab.at /\ tdTab'.twice = tdTab.twice
      /\ \/ c.n = 0 /\ tdTab'.cache = tdTab.cache /\ tdTab'.told = tdTab.told
         \/ c.n # 0 /\ tdTab'.cache = cache /\ tdTab'.told = told
  BY <1>0, <1>1 DEF TdTypeOK
<1>5. /\ tdView' = [preview |-> tdView'.preview, asking |-> tdView'.asking, busy |-> tdView'.busy, outcome |-> tdView'.outcome]
      /\ (own /\ tdView'.outcome = c.res) \/ (~own /\ tdView'.outcome = tdView.outcome)
  BY <1>0, <1>1 DEF TdTypeOK
<1>6. \A e \in tdCalls : TdRequest(e, tdPage'.n)
  BY <1>0, <1>1 DEF TdTypeOK, TdRequest
<1>7. TdTypeOK'
  BY <1>0, <1>1, <1>3, <1>4, <1>5, <1>6 DEF TdTypeOK
<1>8. OutcomesTrue'
  <2>1. tdTab.told \subseteq TdSessions
    BY <1>0 DEF TdTypeOK
  <2>. QED  BY <1>0, <1>1, <1>2, <1>3, <1>4, <2>1 DEF OutcomesTrue
<1>9. OwnAnswer'
  <2>. SUFFICES ASSUME tdPage.kind = "result" PROVE OwnAnswer'
    BY <1>1 DEF OwnAnswer
  <2>1. own => sid = tdTab.at
    BY <1>0 DEF OwnAnswer, own, sid
  <2>2. ~tdTab.twice /\ sid = tdTab.at /\ c.n # 0 => own
    BY <1>0 DEF OwnAnswer, own, sid
  <2>3. ~tdTab.twice /\ tdTab'.at \in tdTab'.told => tdView'.outcome = tdServer.plays[tdTab.at]
    <3>. SUFFICES ASSUME ~tdTab.twice, tdTab.at \in tdTab'.told PROVE tdView'.outcome = tdServer.plays[tdTab.at]
      BY <1>4
    <3>1. CASE own
      BY <1>2, <1>5, <2>1, <3>1
    <3>2. CASE ~own
      <4>1. tdTab.at \in tdTab.told
        BY <1>3, <1>4, <2>2, <3>2
      <4>. QED  BY <1>0, <1>5, <3>2, <4>1 DEF OwnAnswer
    <3>. QED  BY <3>1, <3>2
  <2>. QED  BY <1>0, <1>1, <1>4, <2>3 DEF OwnAnswer
<1>. QED  BY <1>7, <1>8, <1>9 DEF OutcomeInv

LEMMA OutcomeStep == OutcomeInv /\ [TdNext]_tdVars => OutcomeInv'
<1>. SUFFICES ASSUME OutcomeInv, [TdNext]_tdVars PROVE OutcomeInv'
  OBVIOUS
<1>1. CASE UNCHANGED tdVars
  BY <1>1 DEF tdVars, OutcomeInv, TdTypeOK, OutcomesTrue, OwnAnswer, TdRequest
<1>2. CASE \E c \in tdCalls :
             \/ TdHandled(c) \/ TdFailed(c)
             \/ c.stage = "done" /\ (TdListed(c) \/ TdDetailed(c)
                                       \/ TdSettled(c) \/ TdCreated(c) \/ TdPlayed(c))
  BY <1>2, TdHandledKeeps, TdOthersKeep, TdCreatedKeeps, TdPlayedKeeps
<1>. QED  BY <1>1, <1>2, TdPagesKeep, TdOnPageKeep, TdResultsKeep, TdReloadKeeps DEF TdNext

LEMMA OutcomeImplied == OutcomeInv => OutcomeKept
BY DEF OutcomeInv, OwnAnswer, OutcomeKept

(***************************************************************************)
(* The talents                                                             *)
(***************************************************************************)
LEMMA BareLevels == TaBare \in TaLevels /\ \A n \in TaNodes : TaBare[n] = 0
BY DEF TaBare, TaLevels

\* One level more of a node that may be allocated costs what it costs and takes no
\* node below what another one needs.
LEMMA AllocatedLegal ==
  ASSUME taRows \in TaLevels, TreeLegal, NEW n \in TaNodes, TaCanAllocate(n, taRows),
         taRows' = [taRows EXCEPT ![n] = taRows[n] + 1]
  PROVE  taRows' \in TaLevels /\ TreeLegal'
<1>0. /\ taRows["root"] \in Nat /\ taRows["mid"] \in Nat /\ taRows["top"] \in Nat
      /\ TaNodes = {"root", "mid", "top"}
  BY DEF TaLevels, TaNodes
<1>1. /\ TaCost["root"] = 1 /\ TaCost["mid"] = 1 /\ TaCost["top"] = 2
      /\ TaMax["root"] = 1 /\ TaMax["mid"] = 2 /\ TaMax["top"] = 1
  BY DEF TaCost, TaMax, TaNodes
<1>2. /\ TaPrerequisites["root"] = {} /\ TaPrerequisites["mid"] = {"root"} /\ TaPrerequisites["top"] = {}
      /\ TaPrerequisiteMaxLevels["root"] = {} /\ TaPrerequisiteMaxLevels["mid"] = {}
      /\ TaPrerequisiteMaxLevels["top"] = {"mid"}
  BY DEF TaPrerequisites, TaPrerequisiteMaxLevels, TaNodes
<1>3. taRows' \in TaLevels
  BY <1>0 DEF TaLevels
<1>4. \A m \in TaNodes : taRows'[m] = IF m = n THEN taRows[m] + 1 ELSE taRows[m]
  BY DEF TaLevels
<1>5. TaSpent(taRows') <= TaEarned
  <2>1. TaSpent(taRows) = taRows["root"] + taRows["mid"] + 2 * taRows["top"]
    BY <1>0, <1>1 DEF TaSpent
  <2>2. TaSpent(taRows') = taRows'["root"] + taRows'["mid"] + 2 * taRows'["top"]
    BY <1>0, <1>1, <1>4 DEF TaSpent
  <2>3. TaEarned - TaSpent(taRows) >= TaCost[n] /\ TaEarned \in Nat
    BY TaAssumption DEF TaCanAllocate
  <2>. QED  BY <1>0, <1>1, <1>4, <2>1, <2>2, <2>3
<1>6. \A m \in TaNodes : taRows'[m] <= TaMax[m]
  BY <1>0, <1>1, <1>4 DEF TaCanAllocate, TreeLegal
<1>7. \A m \in TaNodes : TaMet(m, taRows) => TaMet(m, taRows')
  <2>1. \A m \in TaNodes : taRows[m] >= 1 => taRows'[m] >= 1
    BY <1>0, <1>4
  <2>2. \A m \in TaNodes : taRows[m] >= TaMax[m] => taRows'[m] >= TaMax[m]
    BY <1>0, <1>1, <1>4
  <2>. QED  BY <1>0, <1>2, <2>1, <2>2 DEF TaMet
<1>8. \A m \in TaNodes : taRows'[m] > 0 => TaMet(m, taRows)
  BY <1>4 DEF TaCanAllocate, TreeLegal
<1>. QED  BY <1>3, <1>5, <1>6, <1>7, <1>8 DEF TreeLegal

LEMMA BareLegal ==
  /\ TaSpent(TaBare) <= TaEarned
  /\ \A n \in TaNodes : TaBare[n] <= TaMax[n] /\ (TaBare[n] > 0 => TaMet(n, TaBare))
<1>1. TaBare["root"] = 0 /\ TaBare["mid"] = 0 /\ TaBare["top"] = 0 /\ \A n \in TaNodes : TaBare[n] = 0
  BY DEF TaBare, TaNodes
<1>2. TaCost["root"] = 1 /\ TaCost["mid"] = 1 /\ TaCost["top"] = 2 /\ \A n \in TaNodes : 0 <= TaMax[n]
  BY DEF TaCost, TaMax, TaNodes
<1>3. TaSpent(TaBare) = 0
  BY <1>1, <1>2 DEF TaSpent
<1>. QED  BY <1>1, <1>2, <1>3, TaAssumption

LEMMA TalentsInitial == TaInit => TalentsInv
<1>. SUFFICES ASSUME TaInit PROVE TalentsInv
  OBVIOUS
<1>1. TaTypeOK
  BY BareLevels DEF TaInit, TaTypeOK, TaTabRecord
<1>2. TreeLegal
  BY BareLegal DEF TaInit, TreeLegal
<1>3. \A t \in TaTabs : taTab[t].store = taRows
  BY DEF TaInit
<1>. QED  BY <1>1, <1>2, <1>3
          DEF TaInit, TalentsInv, LockHeld, ChangesOnly, AskedByOpen, OneLoad, StoreFollows, ReloadOwed

(* ---- the pages ---------------------------------------------------------------- *)
\* A request that a page sends holds nothing yet.
LEMMA RequestFacts ==
  ASSUME NEW win \in TaTabs, NEW op \in {"tree", "modifiers", "allocate", "reset"},
         NEW node \in TaNodes \cup {"none", "game", "view"}
  PROVE  LET c == TaCall(win, op, node) IN
         c \in TaRequest /\ c.tab = win /\ c.op = op /\ c.node = node /\ c.stage = "sent"
BY BareLevels DEF TaCall, TaRequest

\* The requests of the page stay as they are but for those it does not listen to any more,
\* and one is added that is not a load of the store.
LEMMA AskKeeps ==
  ASSUME TalentsInv, NEW win \in TaTabs, NEW op \in {"tree", "allocate", "reset"}, NEW node,
         op = "allocate" <=> node \in TaNodes, node \in TaNodes \cup {"none"},
         taCalls' = taCalls \cup {TaCall(win, op, node)}, UNCHANGED <<taRows, taLock>>, TaTypeOK',
         taTab'[win].at = "tree", \A t \in TaTabs \ {win} : taTab'[t] = taTab[t],
         taTab'[win].store = taTab[win].store, taHist'.faults = taHist.faults, taHist'.crossed = taHist.crossed
  PROVE  TalentsInv'
<1>. DEFINE c == TaCall(win, op, node)
<1>1. c.tab = win /\ c.op = op /\ c.node = node /\ c.stage = "sent"
  BY DEF TaCall
<1>. HIDE DEF c
<1>2. taCalls' = taCalls \cup {c}
  BY DEF c
<1>3. TreeLegal'
  BY DEF TalentsInv, TreeLegal
<1>4. LockHeld' /\ ChangesOnly'
  BY <1>1, <1>2 DEF TalentsInv, LockHeld, ChangesOnly
<1>5. AskedByOpen'
  <2>1. \A d \in taCalls : d.tab \in TaTabs
    BY DEF TalentsInv, TaTypeOK, TaRequest
  <2>. QED  BY <1>1, <1>2, <2>1 DEF TalentsInv, AskedByOpen
<1>6. OneLoad'
  BY <1>1, <1>2 DEF TalentsInv, OneLoad
<1>7. StoreFollows'
  <2>. SUFFICES ASSUME ~taHist'.crossed, taHist'.faults = 0, ~ReloadOwed', NEW t \in TaTabs, TaAlone(t)'
                PROVE  /\ \A d \in taCalls' : d.op = "modifiers" /\ d.stage = "done" => d.res = taRows'
                       /\ taTab'[t].store = taRows' \/ \E d \in taCalls' : d.op = "modifiers"
    BY DEF StoreFollows
  <2>1. ~ReloadOwed
    BY <1>2 DEF ReloadOwed
  <2>2. t = win
    BY DEF TaAlone
  <2>3. TaAlone(t)
    BY <2>2 DEF TaAlone
  <2>. QED  BY <1>1, <1>2, <2>1, <2>2, <2>3 DEF TalentsInv, StoreFollows
<1>. QED  BY <1>3, <1>4, <1>5, <1>6, <1>7 DEF TalentsInv

LEMMA TaPagesKeep ==
  ASSUME TalentsInv, NEW win \in TaTabs,
         TaOpen(win) \/ TaReset(win) \/ \E n \in TaNodes : TaAllocate(win, n)
  PROVE  TalentsInv'
<1>0. TaTypeOK
  BY DEF TalentsInv
<1>. DEFINE more == taHist.clicks + 1
<1>c. more \in Nat
  BY <1>0 DEF TaTypeOK, TaTabRecord
<1>h. TaClick => taHist' = [taHist EXCEPT !.clicks = more]
  BY DEF TaClick
<1>. HIDE DEF more
<1>1. CASE TaOpen(win)
  <2>1. /\ taHist' = [taHist EXCEPT !.clicks = more]
        /\ taTab' = [taTab EXCEPT ![win] = [@ EXCEPT !.at = "tree", !.known = FALSE, !.busy = FALSE]]
        /\ taCalls' = taCalls \cup {TaCall(win, "tree", "none")} /\ UNCHANGED <<taRows, taLock>>
    BY <1>1, <1>h DEF TaOpen
  <2>2. taCalls' \subseteq TaRequest
    BY <1>0, <2>1, RequestFacts DEF TaTypeOK, TaTabRecord
  <2>3. TaTypeOK'
    BY <1>0, <1>c, <2>1, <2>2 DEF TaTypeOK, TaTabRecord
  <2>4. /\ taTab'[win].at = "tree" /\ taTab'[win].store = taTab[win].store
        /\ \A t \in TaTabs \ {win} : taTab'[t] = taTab[t]
        /\ taHist'.faults = taHist.faults /\ taHist'.crossed = taHist.crossed
    BY <1>0, <2>1 DEF TaTypeOK, TaTabRecord
  <2>5. "none" \notin TaNodes
    BY DEF TaNodes
  <2>. QED  BY <2>1, <2>3, <2>4, <2>5, AskKeeps
<1>2. ASSUME NEW op \in {"allocate", "reset"}, NEW node \in TaNodes \cup {"none"}, op = "allocate" <=> node \in TaNodes,
             TaIdle(win), TaAsk(win, op, node)
      PROVE  TalentsInv'
  <2>1. /\ taHist' = [taHist EXCEPT !.clicks = more]
        /\ taTab' = [taTab EXCEPT ![win].busy = TRUE]
        /\ taCalls' = taCalls \cup {TaCall(win, op, node)} /\ UNCHANGED <<taRows, taLock>>
    BY <1>2, <1>h DEF TaAsk
  <2>2. taCalls' \subseteq TaRequest
    BY <1>0, <2>1, RequestFacts DEF TaTypeOK, TaTabRecord
  <2>3. TaTypeOK'
    BY <1>0, <1>c, <2>1, <2>2 DEF TaTypeOK, TaTabRecord
  <2>4. /\ taTab'[win].at = "tree" /\ taTab'[win].store = taTab[win].store
        /\ \A t \in TaTabs \ {win} : taTab'[t] = taTab[t]
        /\ taHist'.faults = taHist.faults /\ taHist'.crossed = taHist.crossed
    BY <1>0, <1>2, <2>1 DEF TaTypeOK, TaTabRecord, TaIdle
  <2>. QED  BY <1>2, <2>1, <2>3, <2>4, AskKeeps
<1>3. "none" \notin TaNodes
  BY DEF TaNodes
<1>. QED  BY <1>1, <1>2, <1>3 DEF TaReset, TaAllocate

\* A game boots: it loads the store, and the view hears nothing more.
LEMMA TaGameKeeps ==
  ASSUME TalentsInv, NEW win \in TaTabs, TaGame(win)
  PROVE  TalentsInv'
<1>. DEFINE deaf(c) == IF c.tab = win THEN [c EXCEPT !.live = FALSE] ELSE c
            new == TaCall(win, "modifiers", "game")
            more == taHist.clicks + 1
            noted == taHist.crossed \/ TaCrossing(win)
<1>0. /\ TaTypeOK /\ more \in Nat /\ noted \in BOOLEAN
      /\ new \in TaRequest /\ new.tab = win /\ new.op = "modifiers" /\ new.node = "game" /\ new.stage = "sent"
  BY RequestFacts DEF TalentsInv, TaTypeOK
<1>1. /\ taHist' = [taHist EXCEPT !.clicks = more, !.crossed = noted]
      /\ taTab' = [taTab EXCEPT ![win].at = "game"]
      /\ taCalls' = {deaf(c) : c \in {d \in taCalls : d.tab # win \/ d.op # "tree"}} \cup {new}
      /\ UNCHANGED <<taRows, taLock>>
  BY DEF TaGame, TaLeft
<1>2. \A c \in taCalls : /\ deaf(c) \in TaRequest /\ deaf(c).tab = c.tab /\ deaf(c).op = c.op /\ deaf(c).node = c.node
                         /\ deaf(c).stage = c.stage /\ deaf(c).res = c.res
  BY <1>0 DEF TaTypeOK, TaRequest
<1>. HIDE DEF deaf, new, more, noted
<1>3. /\ \A e \in taCalls' : e = new \/ \E c \in taCalls : e = deaf(c)
      /\ new \in taCalls' /\ \A c \in taCalls : c.op # "tree" => deaf(c) \in taCalls'
  BY <1>1
<1>4. TaTypeOK'
  <2>1. taCalls' \subseteq TaRequest
    BY <1>0, <1>2, <1>3
  <2>. QED  BY <1>0, <1>1, <2>1 DEF TaTypeOK, TaTabRecord
<1>5. /\ taTab'[win].at = "game" /\ taTab'[win].store = taTab[win].store
      /\ \A t \in TaTabs \ {win} : taTab'[t] = taTab[t]
      /\ taHist'.faults = taHist.faults /\ (taHist'.crossed = (taHist.crossed \/ TaCrossing(win)))
  BY <1>0, <1>1 DEF TaTypeOK, TaTabRecord, noted
<1>6. TreeLegal' /\ LockHeld' /\ ChangesOnly'
  <2>1. TreeLegal'
    BY <1>1 DEF TalentsInv, TreeLegal
  <2>2. LockHeld'
    BY <1>0, <1>1, <1>2, <1>3 DEF TalentsInv, LockHeld
  <2>3. ChangesOnly'
    BY <1>0, <1>2, <1>3 DEF TalentsInv, ChangesOnly
  <2>. QED  BY <2>1, <2>2, <2>3
<1>7. AskedByOpen'
  <2>1. \A d \in taCalls : d.tab \in TaTabs
    BY <1>0 DEF TaTypeOK, TaRequest
  <2>. QED  BY <1>0, <1>2, <1>3, <1>5, <2>1 DEF TalentsInv, AskedByOpen
<1>8. OneLoad'
  <2>1. ~taHist'.crossed => \A c \in taCalls : c.op = "modifiers" => c.tab # win
    BY <1>5 DEF TaCrossing, TaOf
  <2>. SUFFICES ASSUME ~taHist'.crossed, NEW d \in taCalls', NEW e \in taCalls',
                       d.op = "modifiers", e.op = "modifiers", d.tab = e.tab
                PROVE  d = e
    BY DEF OneLoad
  <2>2. ~taHist.crossed
    BY <1>5
  <2>3. CASE d = new \/ e = new
    BY <1>0, <1>2, <1>3, <2>1, <2>3
  <2>4. CASE d # new /\ e # new
    <3>1. PICK a \in taCalls : d = deaf(a)
      BY <1>3, <2>4
    <3>2. PICK b \in taCalls : e = deaf(b)
      BY <1>3, <2>4
    <3>3. a = b
      BY <1>2, <2>2, <3>1, <3>2 DEF TalentsInv, OneLoad
    <3>. QED  BY <3>1, <3>2, <3>3
  <2>. QED  BY <2>3, <2>4
<1>9. StoreFollows'
  <2>. SUFFICES ASSUME ~taHist'.crossed, taHist'.faults = 0, ~ReloadOwed', NEW t \in TaTabs, TaAlone(t)'
                PROVE  \A d \in taCalls' : d.op = "modifiers" /\ d.stage = "done" => d.res = taRows'
    BY <1>0, <1>3 DEF StoreFollows
  <2>1. ~ReloadOwed
    BY <1>2, <1>3 DEF ReloadOwed
  <2>2. t = win
    BY <1>5 DEF TaAlone
  <2>3. TaAlone(t)
    BY <1>5, <2>2 DEF TaAlone
  <2>4. \A d \in taCalls : d.op = "modifiers" /\ d.stage = "done" => d.res = taRows
    BY <1>5, <2>1, <2>3 DEF TalentsInv, StoreFollows
  <2>. QED  BY <1>0, <1>1, <1>2, <1>3, <2>4
<1>. QED  BY <1>4, <1>6, <1>7, <1>8, <1>9 DEF TalentsInv

(* ---- the answers ------------------------------------------------------------------ *)
\* What no answer touches.
LEMMA AnswerKeeps ==
  ASSUME TalentsInv, NEW c \in taCalls, taCalls' \subseteq taCalls, UNCHANGED <<taRows, taLock>>,
         \A t \in TaTabs : taTab'[t].at = taTab[t].at
  PROVE  TreeLegal' /\ LockHeld' /\ ChangesOnly' /\ AskedByOpen'
<1>1. TreeLegal' /\ LockHeld' /\ ChangesOnly'
  BY DEF TalentsInv, TreeLegal, LockHeld, ChangesOnly
<1>2. \A d \in taCalls : d.tab \in TaTabs
  BY DEF TalentsInv, TaTypeOK, TaRequest
<1>. QED  BY <1>1, <1>2 DEF TalentsInv, AskedByOpen

\* The effect of an answer on the page: the tab stays where it is, and its store is what it
\* was unless the answer is a load.
TaTabsTyped == taTab \in [TaTabs -> TaTabRecord]

LEMMA PageFacts ==
  ASSUME TaTypeOK, NEW c \in taCalls, NEW store \in TaLevels,
         \/ taTab' = TaShown(c)
         \/ taTab' = [taTab EXCEPT ![c.tab].busy = FALSE]
         \/ taTab' = taTab
         \/ taTab' = TaSettled(c, store)
  PROVE  /\ TaTabsTyped'
         /\ \A t \in TaTabs : taTab'[t].at = taTab[t].at
         /\ taTab' = TaSettled(c, store) =>
              \A t \in TaTabs : taTab'[t].store = IF t = c.tab THEN store ELSE taTab[t].store
         /\ taTab' \in {TaShown(c), taTab, [taTab EXCEPT ![c.tab].busy = FALSE]} =>
              \A t \in TaTabs : taTab'[t].store = taTab[t].store
<1>. DEFINE old == taTab[c.tab]
<1>0. c.tab \in TaTabs /\ c.res \in TaLevels /\ old \in TaTabRecord
  BY DEF TaTypeOK, TaRequest
<1>1. CASE taTab' = TaSettled(c, store)
  <2>. DEFINE busy == old.busy /\ ~(c.node = "view" /\ c.live)
              r == [old EXCEPT !.store = store, !.busy = busy]
  <2>1. busy \in BOOLEAN
    OBVIOUS
  <2>2. taTab' = [taTab EXCEPT ![c.tab] = r]
    BY <1>1 DEF TaSettled
  <2>. HIDE DEF busy
  <2>3. r \in TaTabRecord /\ r.at = old.at /\ r.store = store
    BY <1>0, <2>1 DEF TaTabRecord
  <2>. HIDE DEF r
  <2>4. /\ TaTabsTyped' /\ \A t \in TaTabs : taTab'[t].at = taTab[t].at
        /\ \A t \in TaTabs : taTab'[t].store = IF t = c.tab THEN store ELSE taTab[t].store
    BY <1>0, <2>2, <2>3 DEF TaTypeOK, TaTabsTyped
  <2>5. taTab' \in {TaShown(c), taTab, [taTab EXCEPT ![c.tab].busy = FALSE]} => old.store = store
    <3>1. /\ TaShown(c)[c.tab].store = old.store
          /\ [taTab EXCEPT ![c.tab].busy = FALSE][c.tab].store = old.store
      BY <1>0 DEF TaShown, TaTypeOK, TaTabRecord
    <3>. QED  BY <1>0, <2>4, <3>1
  <2>. QED  BY <1>0, <2>4, <2>5
<1>2. CASE taTab' \in {TaShown(c), taTab, [taTab EXCEPT ![c.tab].busy = FALSE]}
  <2>1. PICK r \in TaTabRecord : taTab' = [taTab EXCEPT ![c.tab] = r] /\ r.at = old.at /\ r.store = old.store
    <3>1. CASE taTab' = TaShown(c) /\ c.live
      <4>1. [old EXCEPT !.tree = c.res, !.known = TRUE] \in TaTabRecord
        BY <1>0 DEF TaTabRecord
      <4>. QED  BY <1>0, <3>1, <4>1 DEF TaShown, TaTabRecord
    <3>2. CASE taTab' = taTab \/ (taTab' = TaShown(c) /\ ~c.live)
      BY <1>0, <3>2 DEF TaShown, TaTypeOK, TaTabRecord
    <3>3. CASE taTab' = [taTab EXCEPT ![c.tab].busy = FALSE]
      <4>1. [old EXCEPT !.busy = FALSE] \in TaTabRecord
        BY <1>0 DEF TaTabRecord
      <4>. QED  BY <1>0, <3>3, <4>1 DEF TaTabRecord
    <3>. QED  BY <1>2, <3>1, <3>2, <3>3
  <2>2. /\ TaTabsTyped' /\ \A t \in TaTabs : taTab'[t].at = taTab[t].at
        /\ \A t \in TaTabs : taTab'[t].store = IF t = c.tab THEN r.store ELSE taTab[t].store
    BY <1>0, <2>1 DEF TaTypeOK, TaTabsTyped
  <2>3. taTab' = TaSettled(c, store) => old.store = store
    <3>1. TaSettled(c, store)[c.tab].store = store
      BY <1>0 DEF TaSettled, TaTypeOK, TaTabRecord
    <3>. QED  BY <1>0, <2>1, <2>2, <3>1
  <2>. QED  BY <1>0, <2>1, <2>2, <2>3
<1>. QED  BY <1>1, <1>2

LEMMA TaAnswersKeep ==
  ASSUME TalentsInv, NEW c \in taCalls, c.stage = "done", TaTreeShown(c) \/ TaLoaded(c)
  PROVE  TalentsInv'
<1>0. TaTypeOK /\ c.res \in TaLevels /\ c.tab \in TaTabs
  BY DEF TalentsInv, TaTypeOK, TaRequest
<1>1. taCalls' = taCalls \ {c} /\ UNCHANGED <<taRows, taLock, taHist>>
  BY DEF TaTreeShown, TaLoaded, TaTaken
<1>2. taTab' = TaShown(c) \/ taTab' = TaSettled(c, c.res)
  BY DEF TaTreeShown, TaLoaded
<1>3. /\ TaTabsTyped'
      /\ \A t \in TaTabs : taTab'[t].at = taTab[t].at
      /\ taTab' = TaSettled(c, c.res) =>
           \A t \in TaTabs : taTab'[t].store = IF t = c.tab THEN c.res ELSE taTab[t].store
  BY <1>0, <1>2, PageFacts
<1>4. TaTypeOK'
  BY <1>0, <1>1, <1>3 DEF TaTypeOK, TaTabsTyped
<1>5. TreeLegal' /\ LockHeld' /\ ChangesOnly' /\ AskedByOpen'
  BY <1>1, <1>3, AnswerKeeps
<1>6. OneLoad'
  BY <1>1 DEF TalentsInv, OneLoad
<1>7. StoreFollows'
  <2>. SUFFICES ASSUME ~taHist'.crossed, taHist'.faults = 0, ~ReloadOwed', NEW t \in TaTabs, TaAlone(t)'
                PROVE  /\ \A d \in taCalls' : d.op = "modifiers" /\ d.stage = "done" => d.res = taRows'
                       /\ taTab'[t].store = taRows' \/ \E d \in taCalls' : d.op = "modifiers"
    BY DEF StoreFollows
  <2>1. c.op \in {"tree", "modifiers"}
    BY DEF TaTreeShown, TaLoaded
  <2>2. ~ReloadOwed
    BY <1>1, <2>1 DEF ReloadOwed
  <2>3. TaAlone(t)
    BY <1>3 DEF TaAlone
  <2>4. /\ \A d \in taCalls : d.op = "modifiers" /\ d.stage = "done" => d.res = taRows
        /\ taTab[t].store = taRows \/ \E d \in taCalls : d.op = "modifiers"
    BY <1>1, <2>2, <2>3 DEF TalentsInv, StoreFollows
  <2>5. CASE c.op = "tree"
    <3>1. taTab' = TaShown(c) /\ \A s \in TaTabs : taTab'[s].store = taTab[s].store
      <4>1. taTab' = TaShown(c)
        BY <2>5 DEF TaTreeShown, TaLoaded
      <4>. QED  BY <1>0, <4>1 DEF TaShown, TaTypeOK, TaTabRecord
    <3>. QED  BY <1>1, <2>4, <2>5, <3>1
  <2>6. CASE c.op = "modifiers"
    <3>1. taTab' = TaSettled(c, c.res)
      BY <2>6 DEF TaTreeShown, TaLoaded
    <3>2. c.tab = t
      BY <1>0, <2>3 DEF TaAlone, TalentsInv, AskedByOpen
    <3>3. c.res = taRows
      BY <2>4, <2>6
    <3>. QED  BY <1>1, <1>3, <2>4, <3>1, <3>2, <3>3
  <2>. QED  BY <2>1, <2>5, <2>6
<1>. QED  BY <1>4, <1>5, <1>6, <1>7 DEF TalentsInv

\* A change was answered: the store is loaded.
LEMMA TaChangedKeeps ==
  ASSUME TalentsInv, NEW c \in taCalls, c.stage = "done", TaChanged(c)
  PROVE  TalentsInv'
<1>. DEFINE new == [TaCall(c.tab, "modifiers", "view") EXCEPT !.live = c.live]
            noted == taHist.crossed \/ TaCrossing(c.tab)
<1>0. TaTypeOK /\ c.res \in TaLevels /\ c.tab \in TaTabs /\ c.live \in BOOLEAN /\ noted \in BOOLEAN
  BY DEF TalentsInv, TaTypeOK, TaRequest
<1>1. /\ new \in TaRequest /\ new.tab = c.tab /\ new.op = "modifiers" /\ new.stage = "sent"
  BY <1>0, BareLevels DEF TaCall, TaRequest
<1>2. /\ taCalls' = (taCalls \ {c}) \cup {new} /\ taHist' = [taHist EXCEPT !.crossed = noted]
      /\ taTab' = TaShown(c) /\ UNCHANGED <<taRows, taLock>> /\ c.op \in {"allocate", "reset"}
  BY DEF TaChanged
<1>. HIDE DEF new, noted
<1>3. /\ TaTabsTyped'
      /\ \A t \in TaTabs : taTab'[t].at = taTab[t].at
  BY <1>0, <1>2, PageFacts
<1>4. TaTypeOK'
  BY <1>0, <1>1, <1>2, <1>3 DEF TaTypeOK, TaTabsTyped
<1>h. (taHist'.crossed = (taHist.crossed \/ TaCrossing(c.tab))) /\ taHist'.faults = taHist.faults
  BY <1>0, <1>2 DEF TaTypeOK, noted
<1>5. TreeLegal' /\ LockHeld' /\ ChangesOnly'
  BY <1>1, <1>2 DEF TalentsInv, TreeLegal, LockHeld, ChangesOnly
<1>6. AskedByOpen'
  <2>1. \A d \in taCalls : d.tab \in TaTabs
    BY <1>0 DEF TaTypeOK, TaRequest
  <2>. QED  BY <1>0, <1>1, <1>2, <1>3, <2>1 DEF TalentsInv, AskedByOpen
<1>7. ~taHist'.crossed => \A d \in taCalls : d.op = "modifiers" => d.tab # c.tab
  BY <1>h DEF TaCrossing, TaOf
<1>8. OneLoad'
  <2>. SUFFICES ASSUME ~taHist'.crossed, NEW d \in taCalls', NEW e \in taCalls',
                       d.op = "modifiers", e.op = "modifiers", d.tab = e.tab
                PROVE  d = e
    BY DEF OneLoad
  <2>1. CASE d = new \/ e = new
    BY <1>1, <1>2, <1>7, <2>1
  <2>2. CASE d # new /\ e # new
    BY <1>2, <1>h, <2>2 DEF TalentsInv, OneLoad
  <2>. QED  BY <2>1, <2>2
<1>9. StoreFollows'
  <2>. SUFFICES ASSUME ~taHist'.crossed, NEW t \in TaTabs, TaAlone(t)'
                PROVE  \A d \in taCalls' : d.op = "modifiers" => d = new
    BY <1>1, <1>2 DEF StoreFollows
  <2>1. \A d \in taCalls : d.tab = t
    <3>1. \A d \in taCalls : d.tab \in TaTabs
      BY <1>0 DEF TaTypeOK, TaRequest
    <3>. QED  BY <1>3, <3>1 DEF TalentsInv, AskedByOpen, TaAlone
  <2>. QED  BY <1>2, <1>7, <2>1
<1>. QED  BY <1>4, <1>5, <1>6, <1>8, <1>9 DEF TalentsInv

LEMMA TaFailuresKeep ==
  ASSUME TalentsInv, NEW c \in taCalls, TaRefused(c) \/ TaLost(c)
  PROVE  TalentsInv'
<1>. DEFINE more == taHist.faults + 1
<1>0. TaTypeOK /\ c.tab \in TaTabs /\ TaBare \in TaLevels /\ more \in Nat /\ more # 0
  BY BareLevels DEF TalentsInv, TaTypeOK, TaRequest
<1>1. /\ taCalls' = taCalls \ {c} /\ UNCHANGED <<taRows, taLock>>
      /\ taTab' = TaSettled(c, TaBare) \/ taTab' = taTab \/ taTab' = [taTab EXCEPT ![c.tab].busy = FALSE]
      /\ c.op # "modifiers" => taTab' = taTab \/ taTab' = [taTab EXCEPT ![c.tab].busy = FALSE]
      /\ taHist' = taHist \/ taHist' = [taHist EXCEPT !.faults = more]
  BY DEF TaRefused, TaLost, TaFailed, TaTaken
<1>. HIDE DEF more
<1>3. /\ TaTabsTyped'
      /\ \A t \in TaTabs : taTab'[t].at = taTab[t].at
  BY <1>0, <1>1, PageFacts
<1>4. TaTypeOK'
  BY <1>0, <1>1, <1>3 DEF TaTypeOK, TaTabsTyped
<1>5. TreeLegal' /\ LockHeld' /\ ChangesOnly' /\ AskedByOpen'
  BY <1>1, <1>3, AnswerKeeps
<1>6. taHist'.crossed = taHist.crossed
  BY <1>0, <1>1 DEF TaTypeOK
<1>7. OneLoad'
  BY <1>1, <1>6 DEF TalentsInv, OneLoad
<1>8. StoreFollows'
  <2>1. CASE TaLost(c)
    <3>1. taHist'.faults # 0
      <4>1. taHist' = [taHist EXCEPT !.faults = more]
        BY <2>1 DEF TaLost, more
      <4>. QED  BY <1>0, <4>1 DEF TaTypeOK
    <3>. QED  BY <3>1 DEF StoreFollows
  <2>2. CASE TaRefused(c)
    <3>1. c.op = "allocate" /\ c.stage = "refused" /\ taHist' = taHist
      BY <2>2 DEF TaRefused, TalentsInv, ChangesOnly
    <3>2. \A t \in TaTabs : taTab'[t].store = taTab[t].store
      BY <1>0, <1>1, <3>1, PageFacts
    <3>3. ReloadOwed' <=> ReloadOwed
      BY <1>1, <3>1 DEF ReloadOwed
    <3>. QED  BY <1>1, <1>3, <3>1, <3>2, <3>3 DEF TalentsInv, StoreFollows, TaAlone
  <2>. QED  BY <2>1, <2>2
<1>. QED  BY <1>4, <1>5, <1>7, <1>8 DEF TalentsInv

(* ---- the service ---------------------------------------------------------------------- *)
\* A request goes one stage further.
LEMMA StageFacts ==
  ASSUME TaTypeOK, NEW c \in taCalls, NEW stage \in {"sent", "held", "stored", "refused", "done"},
         NEW res \in TaLevels, TaStage(c, stage, res)
  PROVE  \E d \in TaRequest :
           /\ taCalls' = (taCalls \ {c}) \cup {d}
           /\ d.tab = c.tab /\ d.op = c.op /\ d.node = c.node /\ d.stage = stage /\ d.res = res
<1>. DEFINE d == [c EXCEPT !.stage = stage, !.res = res]
<1>1. d \in TaRequest /\ d.tab = c.tab /\ d.op = c.op /\ d.node = c.node /\ d.stage = stage /\ d.res = res
  BY DEF TaTypeOK, TaRequest
<1>. QED  BY <1>1 DEF TaStage

LEMMA TaServiceKeeps ==
  ASSUME TalentsInv, NEW c \in taCalls, TaRead(c) \/ TaAcquire(c) \/ TaCommit(c) \/ TaReread(c)
  PROVE  TalentsInv'
<1>0. TaTypeOK /\ c.tab \in TaTabs /\ c.res \in TaLevels /\ taRows \in TaLevels /\ TaBare \in TaLevels
  BY BareLevels DEF TalentsInv, TaTypeOK, TaRequest
<1>1. UNCHANGED <<taTab, taHist>>
  BY DEF TaRead, TaAcquire, TaCommit, TaReread
\* Whatever the stages are, the request stays one of its tab.
<1>a. ASSUME NEW d, taCalls' = (taCalls \ {c}) \cup {d}, d.tab = c.tab, d.op = c.op
      PROVE  AskedByOpen' /\ OneLoad'
  BY <1>1, <1>a DEF TalentsInv, AskedByOpen, OneLoad
\* While the stored levels stay, an answer that carries them changes nothing of the loads.
<1>b. ASSUME NEW d, taCalls' = (taCalls \ {c}) \cup {d}, d.tab = c.tab, d.op = c.op, taRows' = taRows,
             d.op = "modifiers" => d.res = taRows, ReloadOwed => ReloadOwed'
      PROVE  StoreFollows'
  <2>. SUFFICES ASSUME ~taHist.crossed, taHist.faults = 0, ~ReloadOwed, NEW t \in TaTabs, TaAlone(t)
                PROVE  /\ \A e \in taCalls' : e.op = "modifiers" /\ e.stage = "done" => e.res = taRows
                       /\ taTab[t].store = taRows \/ \E e \in taCalls' : e.op = "modifiers"
    BY <1>1, <1>b DEF StoreFollows, TaAlone
  <2>. QED  BY <1>b DEF TalentsInv, StoreFollows
<1>2. CASE TaRead(c) \/ TaReread(c)
  <2>1. PICK d \in TaRequest : /\ taCalls' = (taCalls \ {c}) \cup {d}
                               /\ d.tab = c.tab /\ d.op = c.op /\ d.node = c.node /\ d.stage = "done" /\ d.res = taRows
    BY <1>0, <1>2, StageFacts DEF TaRead, TaReread
  <2>2. UNCHANGED <<taRows, taLock>> /\ c.stage \in {"sent", "stored"}
    BY <1>2 DEF TaRead, TaReread
  <2>3. TaTypeOK'
    BY <1>0, <1>1, <2>1, <2>2 DEF TaTypeOK
  <2>4. TreeLegal' /\ LockHeld' /\ ChangesOnly'
    BY <2>1, <2>2 DEF TalentsInv, TreeLegal, LockHeld, ChangesOnly
  <2>5. ReloadOwed => ReloadOwed'
    BY <2>1 DEF ReloadOwed
  <2>6. StoreFollows'
    BY <1>b, <2>1, <2>2, <2>5
  <2>. QED  BY <1>a, <2>1, <2>3, <2>4, <2>6 DEF TalentsInv
<1>3. CASE TaAcquire(c)
  <2>1. PICK d \in TaRequest : /\ taCalls' = (taCalls \ {c}) \cup {d}
                               /\ d.tab = c.tab /\ d.op = c.op /\ d.node = c.node /\ d.stage = "held" /\ d.res = taRows
    BY <1>0, <1>3, StageFacts DEF TaAcquire
  <2>2. /\ taRows' = taRows /\ taLock = {} /\ taLock' = {c.tab} /\ c.stage = "sent" /\ c.op \in {"allocate", "reset"}
    BY <1>3 DEF TaAcquire, TaFree
  <2>3. TaTypeOK'
    BY <1>0, <1>1, <2>1, <2>2 DEF TaTypeOK
  <2>4. TreeLegal' /\ ChangesOnly'
    BY <2>1, <2>2 DEF TalentsInv, TreeLegal, ChangesOnly
  <2>5. \A e \in taCalls : e.stage # "held"
    BY <2>2 DEF TalentsInv, LockHeld
  <2>6. LockHeld'
    BY <2>1, <2>2, <2>5 DEF LockHeld
  <2>7. ReloadOwed => ReloadOwed'
    BY <2>1, <2>2 DEF ReloadOwed
  <2>8. StoreFollows'
    BY <1>b, <2>1, <2>2, <2>7
  <2>. QED  BY <1>a, <2>1, <2>3, <2>4, <2>6, <2>8 DEF TalentsInv
<1>4. CASE TaCommit(c)
  <2>0. /\ c.stage = "held" /\ c.res = taRows /\ taLock = {c.tab} /\ taLock' = {}
        /\ \A e \in taCalls \ {c} : e.stage # "held"
        /\ c.op \in {"allocate", "reset"} /\ (c.op = "allocate" => c.node \in TaNodes)
    BY <1>4 DEF TaCommit, TalentsInv, LockHeld, ChangesOnly
  <2>1. CASE c.op = "allocate" /\ ~TaCanAllocate(c.node, c.res)
    <3>1. PICK d \in TaRequest : /\ taCalls' = (taCalls \ {c}) \cup {d}
                                 /\ d.tab = c.tab /\ d.op = c.op /\ d.node = c.node /\ d.stage = "refused"
      BY <1>0, <1>4, <2>1, StageFacts DEF TaCommit
    <3>2. taRows' = taRows
      BY <1>4, <2>1 DEF TaCommit
    <3>3. TaTypeOK'
      BY <1>0, <1>1, <2>0, <3>1, <3>2 DEF TaTypeOK
    <3>4. TreeLegal' /\ ChangesOnly' /\ LockHeld'
      BY <2>0, <2>1, <3>1, <3>2 DEF TalentsInv, TreeLegal, ChangesOnly, LockHeld
    <3>5. ReloadOwed => ReloadOwed'
      BY <2>0, <3>1 DEF ReloadOwed
    <3>6. StoreFollows'
      BY <1>b, <2>0, <3>1, <3>2, <3>5
    <3>. QED  BY <1>a, <3>1, <3>3, <3>4, <3>6 DEF TalentsInv
  <2>2. CASE ~(c.op = "allocate" /\ ~TaCanAllocate(c.node, c.res))
    <3>1. TreeLegal' /\ taRows' \in TaLevels
      <4>1. CASE c.op = "reset"
        <5>1. taRows' = TaBare
          BY <1>4, <2>2, <4>1 DEF TaCommit
        <5>. QED  BY <1>0, <5>1, BareLegal DEF TreeLegal
      <4>2. CASE c.op = "allocate"
        <5>1. taRows' = [taRows EXCEPT ![c.node] = taRows[c.node] + 1] /\ TaCanAllocate(c.node, taRows)
          BY <1>4, <2>0, <2>2, <4>2 DEF TaCommit
        <5>. QED  BY <1>0, <2>0, <4>2, <5>1, AllocatedLegal DEF TalentsInv
      <4>. QED  BY <2>0, <4>1, <4>2
    <3>2. PICK d \in TaRequest : /\ taCalls' = (taCalls \ {c}) \cup {d}
                                 /\ d.tab = c.tab /\ d.op = c.op /\ d.node = c.node /\ d.stage = "stored"
      BY <1>0, <1>4, <2>2, <3>1, StageFacts DEF TaCommit
    <3>3. TaTypeOK'
      BY <1>0, <1>1, <2>0, <3>1, <3>2 DEF TaTypeOK
    <3>4. ChangesOnly' /\ LockHeld'
      BY <2>0, <3>2 DEF TalentsInv, ChangesOnly, LockHeld
    <3>5. ReloadOwed'
      BY <2>0, <3>2 DEF ReloadOwed
    <3>. QED  BY <1>a, <3>1, <3>2, <3>3, <3>4, <3>5 DEF TalentsInv, StoreFollows
  <2>. QED  BY <2>1, <2>2
<1>. QED  BY <1>2, <1>3, <1>4

LEMMA TalentsStep == TalentsInv /\ [TaNext]_taVars => TalentsInv'
<1>. SUFFICES ASSUME TalentsInv, [TaNext]_taVars PROVE TalentsInv'
  OBVIOUS
<1>1. CASE UNCHANGED taVars
  BY <1>1 DEF taVars, TalentsInv, TaTypeOK, TreeLegal, LockHeld, ChangesOnly, AskedByOpen, OneLoad,
              StoreFollows, ReloadOwed, TaAlone
<1>. QED  BY <1>1, TaPagesKeep, TaGameKeeps, TaAnswersKeep, TaChangedKeeps, TaFailuresKeep, TaServiceKeeps DEF TaNext

LEMMA TalentsImplied == TalentsInv => TalentsHold
<1>. SUFFICES ASSUME TalentsInv PROVE BonusesOfTree
  BY DEF TalentsHold, TalentsInv
<1>. SUFFICES ASSUME NEW win \in TaTabs, TaOf(win) = {}, taHist.faults = 0, ~taHist.crossed, TaAlone(win)
              PROVE  taTab[win].store = taRows
  BY DEF BonusesOfTree, TaAlone
<1>1. \A c \in taCalls : c.tab \in TaTabs /\ taTab[c.tab].at # "menu"
  BY DEF TalentsInv, TaTypeOK, TaRequest, AskedByOpen
<1>2. taCalls = {}
  BY <1>1 DEF TaAlone, TaOf
<1>. QED  BY <1>2 DEF TalentsInv, StoreFollows, ReloadOwed

(***************************************************************************)
(* The composition                                                         *)
(***************************************************************************)
\* A step of the pages is a step of each of them, or leaves it alone.
LEMMA PagesStep ==
  ASSUME [PaNext]_paVars
  PROVE  [SeNext]_seVars /\ [RaNext]_raVars /\ [ClNext]_clVars /\ [TdNext]_tdVars /\ [TaNext]_taVars
BY DEF PaNext, paVars

\* A behaviour of the pages is one of their requests and sign-in, and one of the runs they
\* keep in step: what is proved of api.ts and useSessionSync alone holds among the pages.
THEOREM PagesParts == PaSpec => AuSpec /\ SyncSpec
<1>1. PaInit => AuInit /\ SyncInit
  BY DEF PaInit
<1>2. [PaNext]_paVars => [AuNext]_auVars /\ [SyncNext]_syncVars
  BY DEF PaNext, paVars
<1>. QED  BY <1>1, <1>2, PTL DEF PaSpec, AuSpec, SyncSpec

\* When nothing is left to be sent, the profile the server keeps is the marker the player
\* chose: avatarMarkerStore over every visit, logout and lost PUT.
THEOREM SettingsSavedHolds == PaSpec => []SettingsSaved
<1>1. PaInit => SettingsInv
  BY SettingsInitial DEF PaInit
<1>2. SettingsInv /\ [PaNext]_paVars => SettingsInv'
  BY SettingsStep, PagesStep
<1>. QED  BY <1>1, <1>2, SettingsImplied, PTL DEF PaSpec

\* A ranking on the screen answers the selection made by now, however late the answers of
\* RankingsView, LeaderboardView and AdminView come.
THEOREM ShownIsWantedHolds == PaSpec => []ShownIsWanted
<1>1. PaInit => RankingsInv
  BY RankingsInitial DEF PaInit
<1>2. RankingsInv /\ [PaNext]_paVars => RankingsInv'
  BY RankingsStep, PagesStep
<1>. QED  BY <1>1, <1>2, RankingsImplied, PTL DEF PaSpec

\* The roster ClassView shows when it has come to rest is that of the class it has selected.
THEOREM RosterOfSelectedHolds == PaSpec => []RosterOfSelected
<1>1. PaInit => ClassDeskInv
  BY ClassDeskInitial DEF PaInit
<1>2. ClassDeskInv /\ [PaNext]_paVars => ClassDeskInv'
  BY ClassDeskStep, PagesStep
<1>. QED  BY <1>1, <1>2, ClassDeskImplied, PTL DEF PaSpec

\* Once the outcome of a session was heard its result page shows it, over reloads, lost
\* answers and pages opened meanwhile: TerritoryResultView with territoryStore.
THEOREM OutcomeKeptHolds == PaSpec => []OutcomeKept
<1>1. PaInit => OutcomeInv
  BY OutcomeInitial DEF PaInit
<1>2. OutcomeInv /\ [PaNext]_paVars => OutcomeInv'
  BY OutcomeStep, PagesStep
<1>. QED  BY <1>1, <1>2, OutcomeImplied, PTL DEF PaSpec

\* The server's talent tree stays a legal one whatever two tabs allocate and reset, and a
\* run that starts undisturbed plays by the tree as it is: talentStore.
THEOREM TalentsHoldHolds == PaSpec => []TalentsHold
<1>1. PaInit => TalentsInv
  BY TalentsInitial DEF PaInit
<1>2. TalentsInv /\ [PaNext]_paVars => TalentsInv'
  BY TalentsStep, PagesStep
<1>. QED  BY <1>1, <1>2, TalentsImplied, PTL DEF PaSpec
=============================================================================
