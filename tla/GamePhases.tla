---------------------------- MODULE GamePhases -----------------------------
(***************************************************************************)
(* The phases of a run and the transitions PhaseStateMachine allows.       *)
(***************************************************************************)

AllowedTransitions ==
  [ MENU         |-> {"LEVEL_SELECT", "BUILD"},
    LEVEL_SELECT |-> {"BUILD", "MENU"},
    BUILD        |-> {"WAVE", "GAME_OVER", "MENU"},
    WAVE         |-> {"MONTY_HALL", "BUILD", "LEVEL_END", "GAME_OVER", "CHAIN_RULE"},
    MONTY_HALL   |-> {"BUILD", "GAME_OVER"},
    CHAIN_RULE   |-> {"WAVE", "GAME_OVER"},
    LEVEL_END    |-> {"LEVEL_SELECT", "MENU", "BUILD"},
    GAME_OVER    |-> {"MENU", "LEVEL_SELECT", "BUILD"} ]

Phases == DOMAIN AllowedTransitions

CanTransition(from, to) == to \in AllowedTransitions[from]

\* Game.setPhase: a transition the table does not allow leaves the phase alone.
SetPhase(g, to) == IF CanTransition(g.phase, to) THEN [g EXCEPT !.phase = to] ELSE g
=============================================================================
