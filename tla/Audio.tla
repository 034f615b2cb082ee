------------------------------- MODULE Audio -------------------------------
(***************************************************************************)
(* The one AssetManager of the page: music beds with their fades, the menu *)
(* playlist, the unlock by the first gesture, the clones of a sound effect;*)
(* and those who drive it: useGlobalMusic by the route, useEngineAudio by  *)
(* the phases of the game.  Volumes are left out but for what a change of  *)
(* volume does to a fade.  Names start with Mu, this module being composed *)
(* with others in Play.                                                    *)
(***************************************************************************)
EXTENDS Integers, GamePhases

CONSTANTS
  MuTracks,  \* the playlist
  MuCap,     \* polyphonyCap of the sound effect
  MuVisits   \* bound on the games entered

\* A track is neither a bed of the engine nor the name for no track.
ASSUME MuAssumption ==
  /\ MuTracks # {} /\ MuTracks \cap {"ambient-build", "ambient-wave", "none"} = {}
  /\ MuCap \in Nat \ {0} /\ MuVisits \in Nat

VARIABLES
  muAudio,  \* AssetManager
  muPage,   \* the route's side, the phase of the engine, the games entered
  muClips   \* clones sounding, and whether minIntervalMs still runs
muVars == <<muAudio, muPage, muClips>>

MuNoTrack == "none"
MuEngineBeds == {"ambient-build", "ambient-wave"}
MuSlugs == MuTracks \cup MuEngineBeds

(* ---- AssetManager ------------------------------------------------------------- *)
\* A bed is off, at its volume, or fading out with a stop at the end of its fade.
MuSilence == [beds |-> [s \in MuSlugs |-> "off"], pending |-> {}, unlocked |-> FALSE,
              active |-> FALSE, current |-> MuNoTrack, ended |-> MuNoTrack]

\* playMusic: a bed that exists has its fade cancelled, and the others are left alone.
MuExisting(au, s) == [au EXCEPT !.beds[s] = "full"]
MuAdded(au, s) ==
  [au EXCEPT !.beds = [x \in MuSlugs |-> IF x = s THEN "full" ELSE IF @[x] = "off" THEN "off" ELSE "out"],
             !.pending = IF au.unlocked THEN @ \ {s} ELSE @ \cup {s}]
MuPlayed(au, s) == IF au.beds[s] = "off" THEN MuAdded(au, s) ELSE MuExisting(au, s)
MuStopped(au, gone) ==
  [au EXCEPT !.beds = [x \in MuSlugs |-> IF x \in gone THEN "off" ELSE @[x]], !.pending = @ \ gone]

\* rescaleMusic, after any change of a volume or of the mute: fades are cut short.
MuRescaled(au) == [au EXCEPT !.beds = [x \in MuSlugs |-> IF @[x] = "out" THEN "full" ELSE @[x]]]

\* playPlaylistTrack; the next track is another one, when there is another.
MuTrack(au, s) == [MuPlayed([au EXCEPT !.current = s], s) EXCEPT !.ended = s]
MuChoices(au) == IF MuTracks \ {au.current} = {} THEN MuTracks ELSE MuTracks \ {au.current}
MuListStarted(au) ==
  IF au.active THEN {au} ELSE {MuTrack([au EXCEPT !.active = TRUE], s) : s \in MuChoices(au)}
MuListStopped(au) ==
  [MuStopped(au, {au.current}) EXCEPT !.active = FALSE, !.ended = MuNoTrack, !.current = MuNoTrack]

MuFaded ==
  /\ \E s \in MuSlugs : muAudio.beds[s] = "out" /\ muAudio' = MuStopped(muAudio, {s})
  /\ UNCHANGED <<muPage, muClips>>
\* The first gesture plays what waited and fades it to its volume.
MuUnlock ==
  /\ ~muAudio.unlocked
  /\ muAudio' = [muAudio EXCEPT !.unlocked = TRUE, !.pending = {},
       !.beds = [x \in MuSlugs |-> IF x \in muAudio.pending THEN "full" ELSE @[x]]]
  /\ UNCHANGED <<muPage, muClips>>
MuEnded ==
  /\ muAudio.unlocked /\ muAudio.ended # MuNoTrack /\ muAudio.beds[muAudio.ended] # "off"
  /\ \E s \in MuChoices(muAudio) : muAudio' = MuTrack(MuStopped(muAudio, {muAudio.ended}), s)
  /\ UNCHANGED <<muPage, muClips>>
MuVolume == muAudio' = MuRescaled(muAudio) /\ UNCHANGED <<muPage, muClips>>

\* A sound effect: dropped before the unlock and inside its interval; at the cap the
\* oldest clone is paused.
MuClip ==
  /\ muAudio.unlocked /\ ~muClips.recent
  /\ muClips' = [sounding |-> IF muClips.sounding = MuCap THEN MuCap ELSE muClips.sounding + 1, recent |-> TRUE]
  /\ UNCHANGED <<muAudio, muPage>>
MuInterval == muClips.recent /\ muClips' = [muClips EXCEPT !.recent = FALSE] /\ UNCHANGED <<muAudio, muPage>>
MuClipEnds ==
  /\ muClips.sounding > 0
  /\ muClips' = [muClips EXCEPT !.sounding = @ - 1]
  /\ UNCHANGED <<muAudio, muPage>>

(* ---- the route and the engine -------------------------------------------------- *)
MuOff == "off"  \* no engine
MuInit ==
  /\ \E at \in {"menu", "game"} :
       /\ muPage = [at |-> at, phase |-> MuOff, games |-> IF at = "game" THEN 1 ELSE 0]
       /\ IF at = "game" THEN muAudio = MuSilence ELSE muAudio \in MuListStarted(MuSilence)
  /\ muClips = [sounding |-> 0, recent |-> FALSE]

\* stopEngineMusic, not the whole music: the playlist may have started already.
MuEngineStoppedAll(au) == [MuStopped(au, MuSlugs) EXCEPT !.active = FALSE, !.ended = MuNoTrack, !.current = MuNoTrack]
MuEngineStopped(au) == MuStopped(au, MuEngineBeds)
MuPhaseHeard(au, to) ==
  CASE to = "BUILD" -> MuPlayed(au, "ambient-build")
    [] to = "WAVE" -> MuPlayed(au, "ambient-wave")
    [] OTHER -> MuEngineStopped(au)

MuEnter ==
  /\ muPage.at = "menu" /\ muPage.games < MuVisits
  /\ muPage' = [at |-> "game", phase |-> MuOff, games |-> muPage.games + 1]
  /\ muAudio' = MuListStopped(muAudio)
  /\ UNCHANGED muClips
\* bindEngineAudio hands the volumes over, then the level starts in BUILD.
MuBoot ==
  /\ muPage.at = "game" /\ muPage.phase = MuOff
  /\ muPage' = [muPage EXCEPT !.phase = "BUILD"]
  /\ muAudio' = MuPhaseHeard(MuRescaled(muAudio), "BUILD")
  /\ UNCHANGED muClips
MuPhase ==
  /\ muPage.phase # MuOff
  /\ \E to \in AllowedTransitions[muPage.phase] :
       muPage' = [muPage EXCEPT !.phase = to] /\ muAudio' = MuPhaseHeard(muAudio, to)
  /\ UNCHANGED muClips
\* retry and the checkpoint: the engine is torn down and booted again.
MuRetry ==
  /\ muPage.phase # MuOff
  /\ muPage' = [muPage EXCEPT !.phase = MuOff] /\ muAudio' = MuEngineStopped(muAudio)
  /\ UNCHANGED muClips
\* The watcher of the route runs before the game's page is unmounted.
MuLeave ==
  /\ muPage.at = "game"
  /\ muPage' = [muPage EXCEPT !.at = "menu", !.phase = MuOff]
  /\ muAudio' \in {IF muPage.phase = MuOff THEN au ELSE MuEngineStopped(au) : au \in MuListStarted(muAudio)}
  /\ UNCHANGED muClips

MuNext ==
  \/ MuFaded \/ MuUnlock \/ MuEnded \/ MuVolume \/ MuClip \/ MuInterval \/ MuClipEnds
  \/ MuEnter \/ MuBoot \/ MuPhase \/ MuRetry \/ MuLeave
MuSpec == MuInit /\ [][MuNext]_muVars

(* ---- properties --------------------------------------------------------------------- *)
\* Whoever drives the music, and whatever fades are cut or run to their end, the page has
\* its own music: off the game a track of the playlist that will hand over to the next,
\* and no bed of the engine; in the game no track, and the bed of the phase.
MusicOfPage ==
  LET au == muAudio IN
    IF muPage.at = "menu"
    THEN /\ au.active /\ au.current \in MuTracks /\ au.ended = au.current /\ au.beds[au.current] = "full"
         /\ \A s \in MuEngineBeds : au.beds[s] = "off"
    ELSE /\ ~au.active /\ \A s \in MuTracks : au.beds[s] = "off"
         /\ muPage.phase = "BUILD" => au.beds["ambient-build"] = "full"
         /\ muPage.phase = "WAVE" => au.beds["ambient-wave"] = "full"
         /\ muPage.phase \notin {"BUILD", "WAVE"} => \A s \in MuEngineBeds : au.beds[s] = "off"
=============================================================================
