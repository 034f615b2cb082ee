------------------------------- MODULE Pages -------------------------------
(* What a page of the browser has under way with the server, side by side: the sign-in and
   its refreshed cookies, the settings, the rankings, the class desk, the territory pages,
   the talents, and the session a game keeps in step.  Each is on its own with the server, so
   a behaviour is about one of them, chosen at the start, and the others stay where they
   begin. *)
EXTENDS ApiAuth, Settings, Rankings, ClassDesk, TerritoryDesk, Talents, RunSync

VARIABLE part

\* A part that is not chosen begins in one state, up to the names of the users.
PaIdle(name, pinned) == part = name \/ pinned

PaInit ==
  /\ part \in {"auth", "settings", "rankings", "class", "territory", "talents", "sync"}
  /\ AuInit /\ PaIdle("auth", auJar.refresh = 0 /\ DOMAIN auCalls = CHOOSE ids \in AuLayouts : TRUE)
  /\ SeInit /\ PaIdle("settings", seHist.about = "marker")
  /\ RaInit /\ PaIdle("rankings", raOpen = "admin" /\ ra.tab = CHOOSE t \in RaAdminTabs : TRUE)
  /\ ClInit /\ PaIdle("class", \A c \in ClClasses : clRow[c].alive /\ clRow[c].members = {})
  /\ TdInit /\ PaIdle("territory", tdTab.role = "student" /\ \A a \in TdActs : tdServer.acts[a] = "open")
  /\ TaInit
  /\ SyncInit /\ PaIdle("sync", rows = <<>>)

PaNext ==
  \/ /\ part = "auth" /\ AuNext
     /\ UNCHANGED <<part, seVars, raVars, clVars, tdVars, taVars, syncVars>>
  \/ /\ part = "settings" /\ SeNext
     /\ UNCHANGED <<part, auVars, raVars, clVars, tdVars, taVars, syncVars>>
  \/ /\ part = "rankings" /\ RaNext
     /\ UNCHANGED <<part, auVars, seVars, clVars, tdVars, taVars, syncVars>>
  \/ /\ part = "class" /\ ClNext
     /\ UNCHANGED <<part, auVars, seVars, raVars, tdVars, taVars, syncVars>>
  \/ /\ part = "territory" /\ TdNext
     /\ UNCHANGED <<part, auVars, seVars, raVars, clVars, taVars, syncVars>>
  \/ /\ part = "talents" /\ TaNext
     /\ UNCHANGED <<part, auVars, seVars, raVars, clVars, tdVars, syncVars>>
  \/ /\ part = "sync" /\ SyncNext
     /\ UNCHANGED <<part, auVars, seVars, raVars, clVars, tdVars, taVars>>

paVars == <<part, auVars, seVars, raVars, clVars, tdVars, taVars, syncVars>>
PaSpec == PaInit /\ [][PaNext]_paVars
=============================================================================
