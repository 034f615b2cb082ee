----------------------------- MODULE ActiveSlot -----------------------------
(***************************************************************************)
(* What create_session and the requests that end a session promise about  *)
(* game_sessions: a user has one slot for an active session.  Opening a    *)
(* session takes a fresh id and puts it in the slot, whoever was there;    *)
(* closing empties the slot; a session that left the slot never returns.   *)
(***************************************************************************)
CONSTANTS Sids, NoSid

VARIABLES active, created

Init == active = NoSid /\ created = {}

Open(s) ==
  /\ s \notin created
  /\ active' = s
  /\ created' = created \cup {s}

Close ==
  /\ active # NoSid
  /\ active' = NoSid
  /\ UNCHANGED created

Next == Close \/ \E s \in Sids : Open(s)

Spec == Init /\ [][Next]_<<active, created>>
=============================================================================
