----------------------------- MODULE MCSessions -----------------------------
(* Sessions on two session ids and two concurrent requests. *)
EXTENDS Sessions, TLC

CONSTANTS s1, s2, r1, r2

MCSids == {s1, s2}
MCReqs == {r1, r2}
Symmetry == Permutations(MCSids) \cup Permutations(MCReqs)
=============================================================================
