--------------------------- MODULE TerritoryBoard ---------------------------
(***************************************************************************)
(* What the Grabbing Territory aggregate promises, with every play taking  *)
(* effect at once: while its activity is open a slot passes to a better    *)
(* score, nobody ever holds more slots of an activity than the cap,        *)
(* settling closes an activity for good, and a student who leaves the      *)
(* class gives up the slots of that class.                                 *)
(***************************************************************************)
EXTENDS Integers, FiniteSets

CONSTANTS
  Acts,                            \* activities
  Slots, ActOf,                    \* territory slots and their activity
  Students,
  Sessions, OwnerOf, ScoreOf,      \* completed sessions, their player and score
  NoSession,                       \* holder of a vacant slot
  ClassActs,                       \* activities of the class; the others are inter-class
  Cap                              \* student_slot_cap

VARIABLES
  occ,       \* the session that holds a slot: it names the student and the score
  settled    \* settled activities

HeldBy(p, s) == occ[s] # NoSession /\ OwnerOf[occ[s]] = p
Held(p, a) == {s \in Slots : ActOf[s] = a /\ HeldBy(p, s)}

\* Nobody holds more slots of an activity than its cap allows.
CapHeld == \A p \in Students, a \in Acts : Cardinality(Held(p, a)) <= Cap

Init == occ = [s \in Slots |-> NoSession] /\ settled = {}

Capture(x, s) ==
  /\ ActOf[s] \notin settled
  /\ occ[s] = NoSession \/ ScoreOf[x] > ScoreOf[occ[s]]
  /\ occ' = [occ EXCEPT ![s] = x]
  /\ CapHeld'
  /\ UNCHANGED settled

Settle(a) == a \notin settled /\ settled' = settled \cup {a} /\ UNCHANGED occ

Leave(p) ==
  /\ occ' = [s \in Slots |->
               IF ActOf[s] \in ClassActs /\ HeldBy(p, s) THEN NoSession ELSE occ[s]]
  /\ UNCHANGED settled

Next ==
  \/ \E x \in Sessions, s \in Slots : Capture(x, s)
  \/ \E a \in Acts : Settle(a)
  \/ \E p \in Students : Leave(p)

Spec == Init /\ [][Next]_<<occ, settled>>
=============================================================================
