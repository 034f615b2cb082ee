----------------------------- MODULE Territory -----------------------------
(***************************************************************************)
(* Grabbing Territory: the play, settle and scheduler transactions of the  *)
(* territory service, and the class service's removal of a student, which  *)
(* deletes occupations.  A play takes the activity row FOR UPDATE and then *)
(* reads several other tables; a step of it is what no other commit can    *)
(* split.  Row locks follow from where a request stands: it keeps what it  *)
(* locked until it is idle again.                                          *)
(***************************************************************************)
EXTENDS Integers, FiniteSets

CONSTANTS
  Acts,                            \* activities
  Slots, ActOf,                    \* territory slots and their activity
  Students,
  Sessions, OwnerOf, ScoreOf,      \* completed sessions, their player and score
  NoSession,                       \* holder of a vacant slot
  ClassActs,                       \* activities of the class; the others are inter-class
  Cap,                             \* student_slot_cap
  Fits,        \* pairs <<session, slot>> of one star rating
  Reqs,        \* requests in flight at once
  NoSlot, NoStudent,
  MaxFaults    \* bound on failed settlement batches and crashed requests

ASSUME TerritoryAssumption ==
  /\ ActOf \in [Slots -> Acts] /\ IsFiniteSet(Slots)
  /\ OwnerOf \in [Sessions -> Students] /\ ScoreOf \in [Sessions -> Nat]
  /\ NoSession \notin Sessions /\ ClassActs \subseteq Acts /\ Cap \in Nat \ {0}
  /\ Fits \subseteq Sessions \X Slots
  /\ NoSlot \notin Slots /\ NoStudent \notin Students /\ MaxFaults \in Nat

VARIABLES
  occ,        \* territory_occupations, by slot
  settled,    \* activities with settled = TRUE
  expired,    \* activities whose deadline has passed
  snaps,      \* ranking snapshots written per activity
  members,    \* class_memberships
  removed,    \* removed_memberships
  used,       \* territory_session_uses
  pc,         \* next statement of each request
  ses, slot,  \* what a play request names
  who,        \* the student a removal names
  usedRead,   \* whether merge() found the session use on record
  due,        \* ids the settlement task still has to visit
  captures,   \* history: seizes committed per session
  faults

Board == INSTANCE TerritoryBoard

local == <<pc, ses, slot, who, usedRead>>
vars  == <<occ, settled, expired, snaps, members, removed, used, local, due, captures, faults>>

Playing == {"member", "row", "used", "attempt", "write"}

TypeOK ==
  /\ occ \in [Slots -> Sessions \cup {NoSession}] /\ settled \subseteq Acts
  /\ expired \subseteq Acts /\ snaps \in [Acts -> Nat]
  /\ members \subseteq Students /\ removed \subseteq Students /\ used \subseteq Sessions
  /\ pc \in [Reqs -> Playing \cup {"idle", "remove"}]
  /\ ses \in [Reqs -> Sessions \cup {NoSession}] /\ slot \in [Reqs -> Slots \cup {NoSlot}]
  /\ who \in [Reqs -> Students \cup {NoStudent}] /\ usedRead \in [Reqs -> BOOLEAN]
  /\ \A r \in Reqs : /\ pc[r] \in Playing <=> slot[r] # NoSlot /\ ses[r] # NoSession
                     /\ pc[r] = "remove" <=> who[r] # NoStudent
  /\ due \subseteq Acts /\ captures \in [Sessions -> Nat] /\ faults \in 0..MaxFaults

Init ==
  /\ occ = [s \in Slots |-> NoSession] /\ settled = {} /\ expired = {}
  /\ snaps = [a \in Acts |-> 0] /\ members = {} /\ removed = {} /\ used = {}
  /\ pc = [r \in Reqs |-> "idle"] /\ ses = [r \in Reqs |-> NoSession]
  /\ slot = [r \in Reqs |-> NoSlot] /\ who = [r \in Reqs |-> NoStudent]
  /\ usedRead = [r \in Reqs |-> FALSE]
  /\ due = {} /\ captures = [x \in Sessions |-> 0] /\ faults = 0

(* ---- locks --------------------------------------------------------------- *)
\* A play holds its activity row; from "used" on the occupation row of its
\* slot, and from "write" on every row its student holds in the activity.
\* Mutant: the activity is locked when the occupation is written.
ActFreeUntilWrite(a) == \A r \in Reqs : pc[r] = "write" => ActOf[slot[r]] # a

ActFree(a) == \A r \in Reqs : pc[r] \in Playing => ActOf[slot[r]] # a

HeldBy(p, s) == occ[s] # NoSession /\ OwnerOf[occ[s]] = p
RowFree(s) ==
  \A r \in Reqs :
    /\ pc[r] \in {"used", "attempt", "write"} => slot[r] # s
    /\ pc[r] = "write" => ~(ActOf[slot[r]] = ActOf[s] /\ HeldBy(OwnerOf[ses[r]], s))

Goto(r, l) == pc' = [pc EXCEPT ![r] = l]

Finish(r) ==
  /\ Goto(r, "idle")
  /\ ses' = [ses EXCEPT ![r] = NoSession] /\ slot' = [slot EXCEPT ![r] = NoSlot]
  /\ who' = [who EXCEPT ![r] = NoStudent] /\ usedRead' = [usedRead EXCEPT ![r] = FALSE]

\* The step changes the request only: it goes on if ok, else it is refused.
Check(r, ok, l) ==
  /\ IF ok THEN Goto(r, l) /\ UNCHANGED <<ses, slot, who, usedRead>> ELSE Finish(r)
  /\ UNCHANGED <<occ, settled, expired, snaps, members, removed, used, due, captures, faults>>

(* ---- time, membership ------------------------------------------------------ *)
DeadlinePasses(a) ==
  /\ a \notin expired /\ expired' = expired \cup {a}
  /\ UNCHANGED <<occ, settled, snaps, members, removed, used, local, due, captures, faults>>

\* join_by_code refuses whom a teacher removed, add_student does not.
JoinByCode(p) ==
  /\ p \notin members /\ p \notin removed
  /\ members' = members \cup {p}
  /\ UNCHANGED <<occ, settled, expired, snaps, removed, used, local, due, captures, faults>>

AddStudent(p) ==
  /\ p \notin members
  /\ members' = members \cup {p} /\ removed' = removed \ {p}
  /\ UNCHANGED <<occ, settled, expired, snaps, used, local, due, captures, faults>>

RemoveRead(r, p) ==
  /\ pc[r] = "idle" /\ p \in members
  /\ Goto(r, "remove") /\ who' = [who EXCEPT ![r] = p]
  /\ UNCHANGED <<occ, settled, expired, snaps, members, removed, used, ses, slot, usedRead,
                 due, captures, faults>>

\* Membership and class occupations go in one transaction; the DELETE waits
\* for locked occupation rows, but takes no lock on the activity.
ClassRows(p) == {s \in Slots : ActOf[s] \in ClassActs /\ HeldBy(p, s)}
RemoveCommit(r) ==
  /\ pc[r] = "remove"
  /\ LET p == who[r] IN
       /\ \A s \in ClassRows(p) : RowFree(s)
       /\ occ' = [s \in Slots |-> IF s \in ClassRows(p) THEN NoSession ELSE occ[s]]
       /\ members' = members \ {p} /\ removed' = removed \cup {p}
  /\ Finish(r)
  /\ UNCHANGED <<settled, expired, snaps, used, due, captures, faults>>

(* ---- play_territory ---------------------------------------------------------- *)
\* Mutant: a plain SELECT of the activity.
PlayLockPlain(r, x, s) ==
  /\ pc[r] = "idle" /\ ActOf[s] \notin settled /\ ActOf[s] \notin expired
  /\ Goto(r, "member")
  /\ ses' = [ses EXCEPT ![r] = x] /\ slot' = [slot EXCEPT ![r] = s]
  /\ UNCHANGED <<occ, settled, expired, snaps, members, removed, used, who, usedRead,
                 due, captures, faults>>

\* Activity row FOR UPDATE, ensure_playable.
PlayLock(r, x, s) ==
  /\ pc[r] = "idle" /\ ActFree(ActOf[s])
  /\ ActOf[s] \notin settled /\ ActOf[s] \notin expired
  /\ Goto(r, "member")
  /\ ses' = [ses EXCEPT ![r] = x] /\ slot' = [slot EXCEPT ![r] = s]
  /\ UNCHANGED <<occ, settled, expired, snaps, members, removed, used, who, usedRead,
                 due, captures, faults>>

\* _verify_activity_access reads the membership without a lock.
PlayMember(r) ==
  /\ pc[r] = "member"
  /\ Check(r, ActOf[slot[r]] \in ClassActs => OwnerOf[ses[r]] \in members, "row")

\* find_occupation_by_slot_for_update, _validate_session
PlayRow(r) ==
  /\ pc[r] = "row" /\ (occ[slot[r]] # NoSession => RowFree(slot[r]))
  /\ Check(r, <<ses[r], slot[r]>> \in Fits, "used")

\* is_session_used
PlayUsed(r) ==
  /\ pc[r] = "used"
  /\ Check(r, ses[r] \notin used, "attempt")

\* attempt_occupation against the locked occupation.
RawCount(p, a) == Cardinality({s \in Slots : ActOf[s] = a /\ HeldBy(p, s)})
EffectiveCount(p, s) ==
  LET raw == RawCount(p, ActOf[s]) IN
    IF HeldBy(p, s) THEN (IF raw > 0 THEN raw - 1 ELSE 0) ELSE raw

Keeps(x, s) == HeldBy(OwnerOf[x], s) /\ ScoreOf[x] = ScoreOf[occ[s]]
\* Mutant: one slot too many.
CanOccupyOffByOne(x, s) ==
  /\ ActOf[s] \notin expired
  /\ \/ Keeps(x, s)
     \/ /\ occ[s] # NoSession => ScoreOf[x] > ScoreOf[occ[s]]
        /\ HeldBy(OwnerOf[x], s) \/ EffectiveCount(OwnerOf[x], s) <= Cap

\* Same student and score, or a better score (a vacant slot has none) and room.
MayTake(x, s) ==
  \/ Keeps(x, s)
  \/ /\ occ[s] # NoSession => ScoreOf[x] > ScoreOf[occ[s]]
     /\ HeldBy(OwnerOf[x], s) \/ EffectiveCount(OwnerOf[x], s) < Cap

CanOccupy(x, s) == ActOf[s] \notin expired /\ MayTake(x, s)

\* The count locks the student's rows; merge() then looks for the session use.
PlayAttempt(r) ==
  /\ pc[r] = "attempt"
  /\ \A t \in Slots \ {slot[r]} :
       ActOf[t] = ActOf[slot[r]] /\ HeldBy(OwnerOf[ses[r]], t) => RowFree(t)
  /\ IF CanOccupy(ses[r], slot[r])
     THEN /\ Goto(r, "write")
          /\ usedRead' = [usedRead EXCEPT ![r] = ses[r] \in used]
          /\ UNCHANGED <<ses, slot, who>>
     ELSE Finish(r)
  /\ UNCHANGED <<occ, settled, expired, snaps, members, removed, used, due, captures, faults>>

\* Mutant: no unique session on occupations.
ConflictOnUseOnly(r) == ~usedRead[r] /\ ses[r] \in used

\* The inserts fail on the key of territory_session_uses, unless merge() saw
\* the row, and on uq_territory_occupation_session.
Conflict(r) ==
  \/ ~usedRead[r] /\ ses[r] \in used
  \/ ~Keeps(ses[r], slot[r]) /\ \E t \in Slots \ {slot[r]} : occ[t] = ses[r]

PlayWrite(r) ==
  /\ pc[r] = "write"
  /\ IF Conflict(r)
     THEN UNCHANGED <<occ, used, captures>>
     ELSE /\ occ' = IF Keeps(ses[r], slot[r]) THEN occ ELSE [occ EXCEPT ![slot[r]] = ses[r]]
          /\ used' = used \cup {ses[r]}
          /\ captures' = [captures EXCEPT ![ses[r]] = @ + 1]
  /\ Finish(r)
  /\ UNCHANGED <<settled, expired, snaps, members, removed, due, faults>>

(* ---- settlement ----------------------------------------------------------------- *)
Settled(a) == settled' = settled \cup {a} /\ snaps' = [snaps EXCEPT ![a] = @ + 1]

\* Mutant: the activity is read without FOR UPDATE.
SettleActivityPlain(a) ==
  /\ a \notin settled /\ Settled(a)
  /\ UNCHANGED <<occ, expired, members, removed, used, local, due, captures, faults>>

\* The teacher, before or after the deadline.
SettleActivity(a) ==
  /\ ActFree(a) /\ a \notin settled
  /\ Settled(a)
  /\ UNCHANGED <<occ, expired, members, removed, used, local, due, captures, faults>>

\* settle_expired collects the ids outside any transaction ...
SettleScan ==
  /\ due = {} /\ expired \ settled # {}
  /\ due' = expired \ settled
  /\ UNCHANGED <<occ, settled, expired, snaps, members, removed, used, local, captures, faults>>

\* Mutants: no second look at settled; an already settled activity raises
\* and stays in the batch.
SettleNextBlind(a) ==
  /\ a \in due /\ ActFree(a)
  /\ due' = due \ {a} /\ Settled(a)
  /\ UNCHANGED <<occ, expired, members, removed, used, local, captures, faults>>
SettleNextRaises(a) ==
  /\ a \in due \ settled /\ ActFree(a)
  /\ due' = due \ {a} /\ Settled(a)
  /\ UNCHANGED <<occ, expired, members, removed, used, local, captures, faults>>

\* ... and settles them one by one, skipping what a teacher settled meanwhile.
SettleNext(a) ==
  /\ a \in due /\ ActFree(a)
  /\ due' = due \ {a}
  /\ IF a \in settled THEN UNCHANGED <<settled, snaps>> ELSE Settled(a)
  /\ UNCHANGED <<occ, expired, members, removed, used, local, captures, faults>>

(* ---- faults ----------------------------------------------------------------------- *)
\* An unexpected error ends the batch; the task tries again later.
BatchFails ==
  /\ due # {} /\ faults < MaxFaults
  /\ due' = {} /\ faults' = faults + 1
  /\ UNCHANGED <<occ, settled, expired, snaps, members, removed, used, local, captures>>

Crash(r) ==
  /\ pc[r] # "idle" /\ faults < MaxFaults
  /\ Finish(r) /\ faults' = faults + 1
  /\ UNCHANGED <<occ, settled, expired, snaps, members, removed, used, due, captures>>

(* ---- specification ------------------------------------------------------------------- *)
Proceed(r) ==
  PlayMember(r) \/ PlayRow(r) \/ PlayUsed(r) \/ PlayAttempt(r) \/ PlayWrite(r) \/ RemoveCommit(r)

Next ==
  \/ \E r \in Reqs :
       \/ \E x \in Sessions, s \in Slots : PlayLock(r, x, s)
       \/ \E p \in Students : RemoveRead(r, p)
       \/ Proceed(r) \/ Crash(r)
  \/ \E p \in Students : JoinByCode(p) \/ AddStudent(p)
  \/ \E a \in Acts : DeadlinePasses(a) \/ SettleActivity(a) \/ SettleNext(a)
  \/ SettleScan \/ BatchFails

Spec == Init /\ [][Next]_vars

\* Requests and the scheduler keep running, and row locks are granted in turn.
FairSpec ==
  /\ Spec
  /\ \A r \in Reqs : WF_vars(Proceed(r)) /\ SF_vars(RemoveCommit(r))
  /\ WF_vars(SettleScan) /\ \A a \in Acts : SF_vars(SettleNext(a))

(***************************************************************************)
(* Properties                                                              *)
(***************************************************************************)
\* Every play takes effect at one point, as TerritoryBoard has it, whatever
\* plays, settlements and removals run beside it.
BoardRefined == Board!Spec

\* Nobody ever holds more slots of an activity than the cap, also when two
\* plays of one student are in flight.
CapHeld == Board!CapHeld

\* An activity is settled once, with one ranking snapshot, although teacher
\* and scheduler may both try.
SettledOnce == \A a \in Acts : snaps[a] = IF a \in settled THEN 1 ELSE 0

\* One session never holds two slots at a time.
OneSlotPerSession ==
  \A s, t \in Slots : occ[s] # NoSession /\ occ[s] = occ[t] => s = t

\* After settlement a slot only changes by the removal of its holder.
StandingsStand ==
  [][\A s \in Slots : ActOf[s] \in settled /\ occ'[s] # occ[s]
       => occ'[s] = NoSession /\ OwnerOf[occ[s]] \in removed']_vars

\* Every expired activity is settled in the end, by the scheduler if nobody
\* else does.
ExpiredSettled == \A a \in Acts : a \in expired ~> a \in settled

(* ---- claims of comments and tests that the code does not keep ------- *)
\* A session captures territory at most once, counter-seizes or not.
CapturedOnce == \A x \in Sessions : captures[x] <= 1

(***************************************************************************)
(* The inductive invariant behind CapHeld, SettledOnce, OneSlotPerSession, *)
(* StandingsStand and BoardRefined                                         *)
(***************************************************************************)
\* Nobody settles an activity while a play is in it.
Open == \A r \in Reqs : pc[r] \in Playing => ActOf[slot[r]] \notin settled

\* One play at a time in an activity.
PlaysAlone ==
  \A r, q \in Reqs :
    pc[r] \in Playing /\ pc[q] \in Playing /\ ActOf[slot[r]] = ActOf[slot[q]] => r = q

\* What attempt_occupation decided still stands when the rows are written.
Admitted == \A r \in Reqs : pc[r] = "write" => MayTake(ses[r], slot[r])

Inv ==
  /\ TypeOK /\ Open /\ PlaysAlone /\ Admitted
  /\ CapHeld /\ SettledOnce /\ OneSlotPerSession
=============================================================================
