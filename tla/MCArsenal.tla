----------------------------- MODULE MCArsenal ------------------------------
(* Two cells within interference and laser range of each other, and a curve  *)
(* that lights both.                                                         *)
EXTENDS Arsenal

MCCells  == {0, 2}
MCCurves == {{0, 2}}
=============================================================================
