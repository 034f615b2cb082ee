------------------------------ MODULE MCPages ------------------------------
(* An instance of Pages for TLC. *)
EXTENDS Pages, TLC

\* Two requests of one tab, or of two tabs.
MCLayouts == {{<<"t1", 1>>, <<"t1", 2>>}, {<<"t1", 1>>, <<"t2", 1>>}}

\* The players chose a style on another device, and no hit effect.
MCFirst == {[style |-> "gorilla", image |-> "none", fx |-> "null", name |-> "old", avatar |-> "none"]}

\* The users of the device are interchangeable.
Symmetry == Permutations(SeUsers)
=============================================================================
