-------------------------------- MODULE Play --------------------------------
(* What the game page of the browser is made of, side by side: the page with its cards and
   modals, the board, the mirror its HUD shows, the radar of a tower, the music, and the
   event log with the pages that follow it.  These parts share no state in the code, so a
   behaviour is about one of them, chosen at the start, and the others stay where they
   begin; whatever shares state is within one of the modules. *)
EXTENDS GamePage, LevelMap, Hud, Radar, Audio, ReplayLog

VARIABLE part

\* A part that is not chosen begins in one state.
PlIdle(name, pinned) == part = name \/ pinned

PlInit ==
  /\ part \in {"page", "map", "hud", "radar", "audio", "replay"}
  /\ PgInit /\ PlIdle("page", pgPage.star5)
  /\ LmInit /\ PlIdle("map", \A e \in LmEngines : lmMade[e] = CHOOSE l \in LmLevels : TRUE)
  /\ RdInit /\ PlIdle("radar", \A v \in RdSpeeds : rdTower.speed <= v /\ \A w \in RdWidths : rdTower.width <= w)
  /\ MuInit /\ PlIdle("audio", muPage.at = "game")
  /\ HuInit /\ RlInit

PlNext ==
  \/ /\ part = "page" /\ PgNext
     /\ UNCHANGED <<part, lmVars, huVars, rdVars, muVars, rlVars>>
  \/ /\ part = "map" /\ LmNext
     /\ UNCHANGED <<part, pgVars, huVars, rdVars, muVars, rlVars>>
  \/ /\ part = "hud" /\ HuNext
     /\ UNCHANGED <<part, pgVars, lmVars, rdVars, muVars, rlVars>>
  \/ /\ part = "radar" /\ RdNext
     /\ UNCHANGED <<part, pgVars, lmVars, huVars, muVars, rlVars>>
  \/ /\ part = "audio" /\ MuNext
     /\ UNCHANGED <<part, pgVars, lmVars, huVars, rdVars, rlVars>>
  \/ /\ part = "replay" /\ RlNext
     /\ UNCHANGED <<part, pgVars, lmVars, huVars, rdVars, muVars>>

plVars == <<part, pgVars, lmVars, huVars, rdVars, muVars, rlVars>>
PlSpec == PlInit /\ [][PlNext]_plVars
=============================================================================
