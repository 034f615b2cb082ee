----------------------------- MODULE MCGameFlow -----------------------------
(* Two waves: one that splits on death, one with the boss of the last wave.  *)
(* The first threshold is met in the first wave, the second by one more kill. *)
EXTENDS GameFlow

MCWaves      == << <<"SPLIT">>, <<"FAST", "BOSS_B">> >>
MCThresholds == << [kill |-> 3, doors |-> 3], [kill |-> 4, doors |-> 4] >>
=============================================================================
