-------------------------- MODULE SessionAggregate --------------------------
(***************************************************************************)
(* The GameSession aggregate: the rules every request applies to one row   *)
(* of game_sessions before it is written back.  A row keeps the columns    *)
(* the rules read; "wave" is current_wave, "waves" is waves_survived,      *)
(* "total" the server-computed total_score and "refl" whether a reflection *)
(* is attached.  Kills, kill value, costs and timings are bounded the same *)
(* way as the score and only feed the total, so they are left out.         *)
(***************************************************************************)
EXTENDS Integers

CONSTANTS
  LevelScore,   \* LEVEL_MAX_SCORES[level]
  LevelWaves,   \* LEVEL_MAX_WAVES[level]
  MaxWave,      \* MAX_WAVE, the clamp on current_wave
  ScoreDelta,   \* max_score_delta_for(level), per PATCH
  MaxTotal      \* bound on the total scores that are told apart

ASSUME BoundsAssumption ==
  /\ LevelScore \in Nat /\ MaxWave \in Nat /\ ScoreDelta \in Nat
  /\ MaxTotal \in Nat /\ LevelWaves \in Nat \ {0}

NoValue == -1        \* Python's None in an optional integer

Statuses == {"none", "active", "completed", "abandoned"}

\* _ALLOWED_TRANSITIONS; "none" is a row that does not exist yet.
AllowedTransitions ==
  {<<"none", "active">>, <<"active", "completed">>, <<"active", "abandoned">>}

Row == [status : Statuses, ranked : BOOLEAN,
        wave : 0..MaxWave, score : 0..LevelScore,
        waves : 0..LevelWaves, total : {NoValue} \cup 0..MaxTotal, refl : BOOLEAN]

NoRow == [status |-> "none", ranked |-> FALSE, wave |-> 0, score |-> 0,
          waves |-> 0, total |-> NoValue, refl |-> FALSE]

\* GameSession.create; ranked is ~(practice_mode \/ is_preview).
NewRow(ranked) == [NoRow EXCEPT !.status = "active", !.ranked = ranked]

AtMost(a, b) == IF a < b THEN a ELSE b

(* ---- update_progress --------------------------------------------------- *)
\* Mutant: progress may go back.
CanUpdateBackwards(row, wave, score) ==
  /\ row.status = "active"
  /\ score = NoValue \/ (score - row.score <= ScoreDelta /\ score <= LevelScore)

CanUpdate(row, wave, score) ==
  /\ row.status = "active"
  /\ wave = NoValue \/ wave >= row.wave
  /\ score = NoValue \/ ( /\ score >= row.score
                          /\ score - row.score <= ScoreDelta
                          /\ score <= LevelScore )

Updated(row, wave, score) ==
  [row EXCEPT !.wave  = IF wave = NoValue THEN @ ELSE AtMost(wave, MaxWave),
              !.score = IF score = NoValue THEN @ ELSE score]

(* ---- complete ---------------------------------------------------------- *)
CeilDiv(a, b) == (a + b - 1) \div b

\* The score a replay log with n finished waves makes plausible.
PlausibleScore(n) == AtMost(LevelScore, CeilDiv(LevelScore * (n + 1), LevelWaves))

\* Mutant: the proven wave count is not capped.
CanCompleteUncapped(row, score, waves, cap, proven) ==
  /\ row.status = "active"
  /\ score >= row.score /\ score <= LevelScore
  /\ proven = NoValue \/ score <= PlausibleScore(proven)

\* cap: the level's wave count or the challenge's tighter one.
\* proven: the wave count of a non-empty replay log, or NoValue.
CanComplete(row, score, waves, cap, proven) ==
  /\ row.status = "active"
  /\ score >= row.score /\ score <= LevelScore
  /\ waves <= AtMost(LevelWaves, cap)
  /\ proven = NoValue \/ score <= PlausibleScore(proven)

Completed(row, score, waves, total) ==
  [row EXCEPT !.status = "completed", !.score = score, !.waves = waves, !.total = total]

(* ---- abandon, record_reflection ---------------------------------------- *)
Abandoned(row) == IF row.status = "active" THEN [row EXCEPT !.status = "abandoned"] ELSE row

\* Mutant: any ended session may be reflected on.
CanReflectEnded(row) == row.status # "active"

CanReflect(row) == row.status = "completed"
Reflected(row, text) == [row EXCEPT !.refl = text]

=============================================================================
