---------------------------- MODULE MCTerritory ----------------------------
(* A class activity with two slots and an inter-class one with a third; a  *)
(* student with two sessions and one whose session lies between them.      *)
EXTENDS Territory, TLC

CONSTANTS a1, a2, s1, s2, s3, p1, p2, x1, x2, y1, r1, r2

MCActOf   == [s \in Slots |-> IF s = s3 THEN a2 ELSE a1]
MCOwnerOf == [x \in Sessions |-> IF x = y1 THEN p2 ELSE p1]
MCScoreOf == [x \in Sessions |-> IF x = x1 THEN 1 ELSE IF x = y1 THEN 2 ELSE 3]
MCFits    == (Sessions \X Slots) \ {<<x2, s3>>}
Symmetry   == Permutations(Reqs)
=============================================================================
