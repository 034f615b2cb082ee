------------------------------ MODULE Settings ------------------------------
(***************************************************************************)
(* What a player sets on ProfileView: the endpoint marker, kept in uiStore *)
(* and on this device and sent to the server after a while, and the name   *)
(* and the avatar, kept by the server and shown from the user object.      *)
(* authStore brings the server's values back: all of them when the page is *)
(* opened with a session, the name and the avatar at a login.  Names start *)
(* with Se, this module being composed with others in Pages.               *)
(***************************************************************************)
EXTENDS Integers, FiniteSets

CONSTANTS
  SeUsers,     \* who uses this device
  SeFirst,     \* what the server may keep of a player beforehand
  SeChoices,   \* bound on the changes of the marker, or of name and avatar
  SeVisits,    \* bound on openings of the page, logins, expiries and profile refreshes
  SeFaults     \* bound on PUTs the server never gets

SeStyles == {"star", "gorilla", "custom"}
SeMarkerStyle == SeStyles \cup {"null"}
SeMarkerFx == {"fragments", "angry", "null"}
SeImageKind == {"none", "img"}
SeRecord ==
  [style : SeMarkerStyle, image : SeImageKind, fx : SeMarkerFx, name : {"old", "new"}, avatar : {"none", "AB"}]

ASSUME SeAssumption == {SeChoices, SeVisits, SeFaults} \subseteq Nat /\ SeFirst \subseteq SeRecord

VARIABLES
  seUser,    \* auth.user: who, name, avatar; or nobody
  seHint,    \* whose session cookie the browser holds
  seAt,      \* the view: profile, levels, elsewhere
  seLocal,   \* uiStore: style, image and hit effect of the marker
  seRow,     \* what the server keeps of each player
  seSync,    \* debounce timer, number of the PUT in flight, numbers used
  sePuts,    \* PUTs of the marker
  seMe,      \* /me requests
  seEdit,    \* the PUT of name or avatar that is being saved
  seHist     \* a change owed to the server, a player replaced, bounds used
seVars == <<seUser, seHint, seAt, seLocal, seRow, seSync, sePuts, seMe, seEdit, seHist>>

SeDefault == [style |-> "star", image |-> "none", fx |-> "fragments"]
SeNobody == [id |-> "nobody", name |-> "none", avatar |-> "none"]
SeNoRecord == [style |-> "null", image |-> "none", fx |-> "null", name |-> "old", avatar |-> "none"]
SeNoEdit == [id |-> "nobody", field |-> "none", stage |-> "none"]

(* ---- authStore ------------------------------------------------------------ *)
\* handleSessionExpiry and logout both forget the user; only a logout tells the
\* other stores, and uiStore goes back to the defaults.
SeExpire ==
  /\ seUser.id # "nobody" /\ seHist.visits < SeVisits
  /\ seUser' = SeNobody
  /\ seHist' = [seHist EXCEPT !.visits = @ + 1]
  /\ UNCHANGED <<seHint, seAt, seLocal, seRow, seSync, sePuts, seMe, seEdit>>

\* Leaving the profile view: onBeforeUnmount drops the timer and aborts the PUT.
SeLeft ==
  /\ seSync' = [seSync EXCEPT !.timer = FALSE, !.current = 0]
  /\ seHist' = [seHist EXCEPT !.owed = @ /\ ~seSync.timer]

SeLogout ==
  /\ seUser.id # "nobody"
  /\ seUser' = SeNobody /\ seHint' = "nobody" /\ seAt' = "elsewhere"
  /\ seLocal' = SeDefault
  /\ seSync' = [seSync EXCEPT !.timer = FALSE, !.current = 0]
  /\ seHist' = [seHist EXCEPT !.owed = FALSE]
  /\ UNCHANGED <<seRow, sePuts, seMe, seEdit>>

\* useAuth.login: the user object from /me, or what the login itself answered.  The
\* sign-in view is open to all, also while a refresh is still under way; there is no view
\* before init has done with its own /me (main.ts mounts the app after it).
SeLogin(u) ==
  /\ seHist.visits < SeVisits /\ \A m \in seMe : m.kind # "init"
  /\ \E avatar \in {seRow[u].avatar, "none"} :
       seUser' = [id |-> u, name |-> seRow[u].name, avatar |-> avatar]
  /\ seHint' = u /\ seAt' = "elsewhere"
  /\ seSync' = [seSync EXCEPT !.timer = FALSE, !.current = 0]
  /\ seHist' = [seHist EXCEPT !.visits = @ + 1, !.owed = FALSE, !.replaced = FALSE]
  /\ UNCHANGED <<seLocal, seRow, sePuts, seMe, seEdit>>

\* The page is opened again: memory is gone, the local storage is not; init asks
\* for /me when there is a session.
SeOpenPage ==
  /\ seHist.visits < SeVisits
  /\ seUser' = SeNobody /\ seAt' = "elsewhere"
  /\ seSync' = [seSync EXCEPT !.timer = FALSE, !.current = 0]
  /\ seMe' = IF seHint = "nobody" THEN {}
             ELSE {[id |-> seHint, kind |-> "init", read |-> FALSE, row |-> SeNoRecord]}
  /\ seEdit' = SeNoEdit
  /\ seHist' = [seHist EXCEPT !.visits = @ + 1, !.owed = FALSE, !.replaced = FALSE]
  /\ UNCHANGED <<seHint, seLocal, seRow, sePuts>>

\* LevelSelectView asks for the profile on entry, and the cookie says whose.
SeLevels ==
  /\ seUser.id # "nobody" /\ seHist.visits < SeVisits
  /\ seAt' = "levels" /\ SeLeft
  /\ seMe' = IF seHint = "nobody" THEN seMe
             ELSE seMe \cup {[id |-> seHint, kind |-> "refresh", read |-> FALSE, row |-> SeNoRecord]}
  /\ UNCHANGED <<seUser, seHint, seLocal, seRow, sePuts, seEdit>>

SeProfile ==
  /\ seUser.id # "nobody" /\ seAt # "profile"
  /\ seAt' = "profile"
  /\ UNCHANGED <<seUser, seHint, seLocal, seRow, seSync, sePuts, seMe, seEdit, seHist>>

\* Of the answer to a refresh only name and avatar matter.
SeMeHandled(m) ==
  /\ ~m.read
  /\ LET row == IF m.kind = "init" THEN seRow[m.id]
                ELSE [SeNoRecord EXCEPT !.name = seRow[m.id].name, !.avatar = seRow[m.id].avatar] IN
       seMe' = (seMe \ {m}) \cup {[m EXCEPT !.read = TRUE, !.row = row]}
  /\ UNCHANGED <<seUser, seHint, seAt, seLocal, seRow, seSync, sePuts, seEdit, seHist>>

\* applyServerEndpointMarker: a value the server does not have leaves the local one.
SeHydrated(row) ==
  [style |-> IF row.style = "null" THEN seLocal.style ELSE row.style,
   image |-> IF row.image = "none" THEN seLocal.image ELSE row.image,
   fx |-> IF row.fx = "null" THEN seLocal.fx ELSE row.fx]

\* An answer is taken whoever is signed in by now: a late one replaces a player who
\* signed in meanwhile.  A refresh does not touch the marker.
SeMeAnswered(m) ==
  /\ m.read /\ seMe' = seMe \ {m}
  /\ seUser' = [id |-> m.id, name |-> m.row.name, avatar |-> m.row.avatar]
  /\ seLocal' = IF m.kind = "init" THEN SeHydrated(m.row) ELSE seLocal
  /\ seHist' = [seHist EXCEPT !.owed = @ /\ m.kind # "init", !.replaced = seHint \notin {m.id, "nobody"}]
  /\ UNCHANGED <<seHint, seAt, seRow, seSync, sePuts, seEdit>>

\* A /me that fails tells nobody: init goes on without a user, a refresh keeps what it had.
SeMeLost(m) ==
  /\ seMe' = seMe \ {m}
  /\ UNCHANGED <<seUser, seHint, seAt, seLocal, seRow, seSync, sePuts, seEdit, seHist>>

(* ---- the marker -------------------------------------------------------------- *)
SeTouched ==
  [seHist EXCEPT !.choices = @ + 1, !.owed = TRUE]

SeOnProfile(what) == seAt = "profile" /\ seUser.id # "nobody" /\ seHist.about = what

\* Mutant: a change is not queued while a PUT is on its way.
SeQueueUnlessBusy == seSync' = [seSync EXCEPT !.timer = seSync.current = 0]

\* queueEndpointMarkerSync: the timer starts again.
SeQueue == seSync' = [seSync EXCEPT !.timer = TRUE]

SeStyle(style) ==
  /\ SeOnProfile("marker") /\ style # seLocal.style /\ seHist.choices < SeChoices
  /\ seLocal' = [seLocal EXCEPT !.style = style]
  /\ SeQueue
  /\ seHist' = SeTouched
  /\ UNCHANGED <<seUser, seHint, seAt, seRow, sePuts, seMe, seEdit>>

SeFx(fx) ==
  /\ SeOnProfile("marker") /\ fx # seLocal.fx /\ seHist.choices < SeChoices
  /\ seLocal' = [seLocal EXCEPT !.fx = fx]
  /\ SeQueue
  /\ seHist' = SeTouched
  /\ UNCHANGED <<seUser, seHint, seAt, seRow, sePuts, seMe, seEdit>>

\* pushEndpointMarkerToServer of local values l; the PUT before it is given up.
SePush(l, sync) ==
  /\ sePuts' = sePuts \cup
       {[n |-> seSync.used + 1, id |-> seHint, pay |-> [l EXCEPT !.image = IF l.style = "custom" THEN @ ELSE "none"],
         stage |-> "sent"]}
  /\ seSync' = [sync EXCEPT !.used = @ + 1, !.current = seSync.used + 1]

\* A new image, or none, goes out at once.
SeImage(image) ==
  /\ SeOnProfile("marker") /\ seLocal.style = "custom" /\ image # seLocal.image /\ seHist.choices < SeChoices
  /\ seLocal' = [seLocal EXCEPT !.image = image]
  /\ SePush(seLocal', seSync)
  /\ seHist' = SeTouched
  /\ UNCHANGED <<seUser, seHint, seAt, seRow, seMe, seEdit>>

\* The timer fires; nobody signed in, nothing sent.
SeFire ==
  /\ seSync.timer /\ seAt = "profile"
  /\ IF seUser.id = "nobody"
     THEN /\ seSync' = [seSync EXCEPT !.timer = FALSE] /\ UNCHANGED sePuts
          /\ seHist' = [seHist EXCEPT !.owed = FALSE]
     ELSE SePush(seLocal, [seSync EXCEPT !.timer = FALSE]) /\ UNCHANGED seHist
  /\ UNCHANGED <<seUser, seHint, seAt, seLocal, seRow, seMe, seEdit>>

\* The server takes a PUT, also one the browser has aborted by now, which has no answer.
SePutHandled(p) ==
  /\ p.stage = "sent" /\ p.id # "nobody"
  /\ sePuts' = (sePuts \ {p}) \cup IF p.n = seSync.current THEN {[p EXCEPT !.stage = "done"]} ELSE {}
  /\ seRow' = [seRow EXCEPT ![p.id].style = p.pay.style, ![p.id].image = p.pay.image,
                            ![p.id].fx = p.pay.fx]
  /\ seHist' = [seHist EXCEPT !.owed = @ /\ (p.n < seHist.last => seHist.last # seSync.used),
                              !.last = IF p.n > @ THEN p.n ELSE @]
  /\ UNCHANGED <<seUser, seHint, seAt, seLocal, seSync, seMe, seEdit>>

\* The answer: it clears the controller if that is still its own.
SePutAnswered(p) ==
  /\ p.stage = "done"
  /\ sePuts' = sePuts \ {p}
  /\ seSync' = [seSync EXCEPT !.current = IF @ = p.n THEN 0 ELSE @]
  /\ UNCHANGED <<seUser, seHint, seAt, seLocal, seRow, seMe, seEdit, seHist>>

\* The network fails, the server knows no session, or the abort comes in time.
SePutLost(p) ==
  /\ p.stage = "sent"
  /\ p.n = seSync.current /\ p.id # "nobody" => seHist.faults < SeFaults
  /\ seHist' = [seHist EXCEPT !.faults = IF p.n = seSync.current /\ p.id # "nobody" THEN @ + 1 ELSE @,
                              !.owed = @ /\ p.n # seSync.used]
  /\ sePuts' = sePuts \ {p}
  /\ seSync' = [seSync EXCEPT !.current = IF @ = p.n THEN 0 ELSE @]
  /\ UNCHANGED <<seUser, seHint, seAt, seLocal, seRow, seMe, seEdit>>

(* ---- name and avatar ----------------------------------------------------------- *)
\* savePlayerName, applyInitials, clearAvatar: each waits for its own answer.  Without a
\* cookie the request is refused and changes nothing.
SeSave(field) ==
  /\ SeOnProfile("identity") /\ seEdit = SeNoEdit /\ seHint # "nobody" /\ seHist.choices < SeChoices
  /\ seHist' = [seHist EXCEPT !.choices = @ + 1]
  /\ seEdit' = [id |-> seHint, field |-> field, stage |-> "sent"]
  /\ UNCHANGED <<seUser, seHint, seAt, seLocal, seRow, seSync, sePuts, seMe>>

SeSaveHandled ==
  /\ seEdit.stage = "sent"
  /\ seEdit' = [seEdit EXCEPT !.stage = "done"]
  /\ seRow' = IF seEdit.field = "name" THEN [seRow EXCEPT ![seEdit.id].name = "new"]
              ELSE [seRow EXCEPT ![seEdit.id].avatar = IF @ = "none" THEN "AB" ELSE "none"]
  /\ UNCHANGED <<seUser, seHint, seAt, seLocal, seSync, sePuts, seMe, seHist>>

\* The user object is patched when there is one: the name with what was sent, the
\* avatar with what was answered.
SeSaved ==
  /\ seEdit.stage = "done" /\ seEdit' = SeNoEdit
  /\ seUser' = CASE seUser.id = "nobody" -> seUser
                 [] seUser.id # "nobody" /\ seEdit.field = "name" -> [seUser EXCEPT !.name = "new"]
                 [] OTHER -> [seUser EXCEPT !.avatar = seRow[seEdit.id].avatar]
  /\ UNCHANGED <<seHint, seAt, seLocal, seRow, seSync, sePuts, seMe, seHist>>

(* ---- specification --------------------------------------------------------------- *)
\* Somebody has just signed in.  The players may have settings from another device.
\* Marker and identity share no state, and a behaviour is about one of them.
SeInit ==
  /\ seRow \in [SeUsers -> SeFirst]
  /\ \E u \in SeUsers : seUser = [id |-> u, name |-> seRow[u].name, avatar |-> seRow[u].avatar] /\ seHint = u
  /\ seAt = "elsewhere" /\ seLocal = SeDefault
  /\ seSync = [timer |-> FALSE, current |-> 0, used |-> 0]
  /\ sePuts = {} /\ seMe = {} /\ seEdit = SeNoEdit
  /\ \E about \in {"marker", "identity"} : seHist = [about |-> about, choices |-> 0, visits |-> 0,
               faults |-> 0, owed |-> FALSE, replaced |-> FALSE, last |-> 0]

SeNext ==
  \/ SeExpire \/ SeLogout \/ \E u \in SeUsers : SeLogin(u)
  \/ SeOpenPage \/ SeLevels \/ SeProfile
  \/ \E m \in seMe : SeMeHandled(m) \/ SeMeAnswered(m) \/ SeMeLost(m)
  \/ \E style \in SeStyles : SeStyle(style)
  \/ \E fx \in {"fragments", "angry"} : SeFx(fx)
  \/ \E image \in {"none", "img"} : SeImage(image)
  \/ SeFire \/ \E p \in sePuts : SePutHandled(p) \/ SePutAnswered(p) \/ SePutLost(p)
  \/ \E field \in {"name", "avatar"} : SeSave(field)
  \/ SeSaveHandled \/ SeSaved

(* ---- properties -------------------------------------------------------------------- *)
\* A change of the marker is owed to the server until another takes its place, the
\* account changes, the player leaves within the debounce, its PUT is lost, or an older
\* PUT is taken after it.  While one is owed and nothing is under way, the server keeps
\* what the player sees for whoever holds the cookie, and that is the player on the page
\* unless a late /me has replaced the one who signed in: then the row of the one replaced
\* gets the marker.
SettingsSaved ==
  seHist.owed /\ ~seSync.timer /\ sePuts = {} =>
    /\ seHint # "nobody"
    /\ seRow[seHint].style = seLocal.style /\ seRow[seHint].fx = seLocal.fx
    /\ seLocal.style = "custom" => seRow[seHint].image = seLocal.image
    /\ seUser.id \in {"nobody", seHint} \/ seHist.replaced

(* ---- the inductive invariant behind SettingsSaved ----------------------------------- *)
SeId == SeUsers \cup {"nobody"}
SeMarker == [style : SeMarkerStyle, image : SeImageKind, fx : SeMarkerFx]
SePut == [n : Nat, id : SeId, pay : SeMarker, stage : {"sent", "done"}]
SeHistOf ==
  [about : {"marker", "identity"}, choices : Nat, visits : Nat, faults : Nat, owed : BOOLEAN, replaced : BOOLEAN, last : Nat]
SeProfileRequest == [id : SeUsers, kind : {"init", "refresh"}, read : BOOLEAN, row : SeRecord]

\* The stores, the rows and the requests have their fields.
SeTypeOK ==
  /\ seUser \in [id : SeId, name : {"none", "old", "new"}, avatar : {"none", "AB"}]
  /\ seHint \in SeId /\ seAt \in {"profile", "levels", "elsewhere"}
  /\ seLocal \in SeMarker /\ seRow \in [SeUsers -> SeRecord]
  /\ seSync \in [timer : BOOLEAN, current : Nat, used : Nat]
  /\ sePuts \subseteq SePut /\ seMe \subseteq SeProfileRequest
  /\ seEdit = SeNoEdit \/ seEdit \in [id : SeUsers, field : {"name", "avatar"}, stage : {"sent", "done"}]
  /\ seHist \in SeHistOf

\* Every PUT has a number of its own; the last the server took is none still to be taken.
PutsNumbered ==
  /\ \A p \in sePuts : 0 < p.n /\ p.n <= seSync.used /\ (p.stage = "sent" => p.n # seHist.last)
  /\ \A p, q \in sePuts : p.n = q.n => p = q
  /\ seHist.last <= seSync.used

\* Whoever is on the page is the one whose cookie the browser holds, while it holds one,
\* unless a late /me has replaced them.
OneIdentity ==
  seHint # "nobody" /\ ~seHist.replaced => seUser.id \in {"nobody", seHint}

SePayload(l) == [l EXCEPT !.image = IF l.style = "custom" THEN @ ELSE "none"]
SeKept(row, pay) == row.style = pay.style /\ row.image = pay.image /\ row.fx = pay.fx

\* A change that is owed is still to be sent, on its way under the last number, or kept.
LastChangeSent ==
  seHist.owed /\ ~seSync.timer =>
    \/ \E p \in sePuts : p.n = seSync.used /\ p.stage = "sent" /\ p.id = seHint /\ p.pay = SePayload(seLocal)
    \/ seHist.last = seSync.used /\ seHint # "nobody" /\ SeKept(seRow[seHint], SePayload(seLocal))

SettingsInv == SeTypeOK /\ PutsNumbered /\ OneIdentity /\ LastChangeSent
=============================================================================
