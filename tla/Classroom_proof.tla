-------------------------- MODULE Classroom_proof --------------------------
(***************************************************************************)
(* What a class has on the server keeps its promises.  Territory keeps its *)
(* invariant and implements TerritoryBoard, for any number of students,    *)
(* sessions, requests and activities, a finite number of slots, and any    *)
(* cap.  The register keeps what its requests check one by one, for any    *)
(* number of classes, teachers, groups and requests and finitely many      *)
(* students.                                                               *)
(***************************************************************************)
EXTENDS Classroom, FiniteSetTheorems, TLAPS

(***************************************************************************)
(* Slots held, and counted                                                 *)
(***************************************************************************)
\* The instance has a Cardinality of its own, defined alike.
LEMMA SameCardinality == \A S : Board!Cardinality(S) = Cardinality(S)
BY DEF Board!Cardinality, Cardinality

HeldIn(p, a) == {s \in Slots : ActOf[s] = a /\ HeldBy(p, s)}

LEMMA HeldFacts ==
  /\ \A p, a : RawCount(p, a) = Cardinality(HeldIn(p, a))
  /\ \A p, a : IsFiniteSet(HeldIn(p, a)) /\ Cardinality(HeldIn(p, a)) \in Nat
  /\ CapHeld <=> \A p \in Students, a \in Acts : Cardinality(HeldIn(p, a)) <= Cap
<1>1. ASSUME NEW p, NEW a
      PROVE  IsFiniteSet(HeldIn(p, a)) /\ Cardinality(HeldIn(p, a)) \in Nat
  <2>1. HeldIn(p, a) \in SUBSET Slots
    BY DEF HeldIn
  <2>2. IsFiniteSet(HeldIn(p, a))
    BY <2>1, FS_Subset, TerritoryAssumption
  <2>. QED  BY <2>2, FS_CardinalityType
<1>2. ASSUME NEW p, NEW a PROVE RawCount(p, a) = Cardinality(HeldIn(p, a))
  BY DEF RawCount, HeldIn
<1>3. ASSUME NEW p, NEW a PROVE Board!Held(p, a) = HeldIn(p, a)
  BY DEF Board!Held, Board!HeldBy, HeldIn, HeldBy
<1>. QED  BY <1>1, <1>2, <1>3, SameCardinality DEF CapHeld, Board!CapHeld

LEMMA FewerHeld ==
  ASSUME NEW p, NEW a, HeldIn(p, a)' \subseteq HeldIn(p, a)
  PROVE  /\ Cardinality(HeldIn(p, a)') \in Nat
         /\ Cardinality(HeldIn(p, a)') <= Cardinality(HeldIn(p, a))
<1>1. HeldIn(p, a)' \in SUBSET HeldIn(p, a) /\ IsFiniteSet(HeldIn(p, a))
  BY HeldFacts
<1>2. /\ IsFiniteSet(HeldIn(p, a)')
      /\ Cardinality(HeldIn(p, a)') <= Cardinality(HeldIn(p, a))
  BY <1>1, FS_Subset
<1>. QED  BY <1>2, FS_CardinalityType

\* Slots that only become vacant leave every count at or below the cap.
LEMMA VacatingKeepsCap ==
  ASSUME CapHeld, \A s \in Slots : occ'[s] \in {occ[s], NoSession}
  PROVE  CapHeld'
<1>1. ASSUME NEW p \in Students, NEW a \in Acts PROVE Cardinality(HeldIn(p, a)') <= Cap
  <2>1. HeldIn(p, a)' \subseteq HeldIn(p, a)
    BY DEF HeldIn, HeldBy
  <2>2. Cardinality(HeldIn(p, a)) <= Cap /\ Cardinality(HeldIn(p, a)) \in Nat
    BY HeldFacts
  <2>. QED  BY <2>1, <2>2, FewerHeld, TerritoryAssumption
<1>2. ASSUME NEW p \in Students, NEW a \in Acts PROVE Board!Held(p, a)' = HeldIn(p, a)'
  BY DEF Board!Held, Board!HeldBy, HeldIn, HeldBy
<1>. QED  BY <1>1, <1>2, SameCardinality DEF CapHeld, Board!CapHeld

\* Taking a slot with room to spare does so as well.
LEMMA TakingKeepsCap ==
  ASSUME NEW x \in Sessions, NEW s \in Slots, TypeOK, CapHeld,
         MayTake(x, s), ~Keeps(x, s), occ' = [occ EXCEPT ![s] = x]
  PROVE  CapHeld'
<1>. DEFINE me == OwnerOf[x]  here == ActOf[s]
<1>0. me \in Students /\ here \in Acts /\ x # NoSession /\ Cap \in Nat
  BY TerritoryAssumption
<1>1. ASSUME NEW t \in Slots PROVE occ'[t] = IF t = s THEN x ELSE occ[t]
  BY DEF TypeOK
<1>2. \A p \in Students, a \in Acts : Cardinality(HeldIn(p, a)) <= Cap
  BY HeldFacts
<1>3. ASSUME NEW p \in Students, NEW a \in Acts PROVE Cardinality(HeldIn(p, a)') <= Cap
  <2>0. Cardinality(HeldIn(p, a)) <= Cap /\ Cardinality(HeldIn(p, a)) \in Nat
    BY <1>2, HeldFacts
  <2>1. CASE p # me \/ a # here \/ HeldBy(me, s)
    <3>1. HeldIn(p, a)' \subseteq HeldIn(p, a)
      BY <1>1, <2>1 DEF HeldIn, HeldBy
    <3>. QED  BY <3>1, <2>0, <1>0, FewerHeld
  <2>2. CASE p = me /\ a = here /\ ~HeldBy(me, s)
    <3>1. HeldIn(p, a)' = HeldIn(p, a) \cup {s}
      BY <1>0, <1>1, <2>2 DEF HeldIn, HeldBy
    <3>2. Cardinality(HeldIn(p, a)) < Cap
      BY <2>2, HeldFacts DEF MayTake, EffectiveCount
    <3>3. Cardinality(HeldIn(p, a) \cup {s}) <= Cardinality(HeldIn(p, a)) + 1
      <4>1. IsFiniteSet(HeldIn(p, a))
        BY HeldFacts
      <4>2. Cardinality(HeldIn(p, a) \cup {s}) =
              IF s \in HeldIn(p, a) THEN Cardinality(HeldIn(p, a))
              ELSE Cardinality(HeldIn(p, a)) + 1
        BY <4>1, FS_AddElement
      <4>. QED  BY <4>2, <2>0
    <3>4. Cardinality(HeldIn(p, a) \cup {s}) \in Nat
      BY HeldFacts, FS_AddElement, FS_CardinalityType
    <3>. QED  BY <3>1, <3>2, <3>3, <3>4, <2>0, <1>0
  <2>. QED  BY <2>1, <2>2
<1>4. ASSUME NEW p \in Students, NEW a \in Acts PROVE Board!Held(p, a)' = HeldIn(p, a)'
  BY DEF Board!Held, Board!HeldBy, HeldIn, HeldBy
<1>. QED  BY <1>3, <1>4, SameCardinality DEF CapHeld, Board!CapHeld

\* Where nothing changes hands, what a play may take stays as it is.
LEMMA SameMayTake ==
  ASSUME NEW x, NEW s, UNCHANGED occ
  PROVE  MayTake(x, s)' <=> MayTake(x, s)
BY DEF MayTake, Keeps, HeldBy, EffectiveCount, RawCount

LEMMA SameBoard ==
  ASSUME UNCHANGED occ
  PROVE  /\ CapHeld => CapHeld'
         /\ OneSlotPerSession => OneSlotPerSession'
BY DEF CapHeld, Board!CapHeld, Board!Held, Board!HeldBy, OneSlotPerSession

(***************************************************************************)
(* Steps that only move a request                                          *)
(***************************************************************************)
\* The board, and where the plays stand, are as before.
LEMMA QuietInv ==
  ASSUME Inv, TypeOK', UNCHANGED <<occ, settled, snaps, pc, ses, slot>>
  PROVE  Inv'
<1>1. Open' /\ PlaysAlone' /\ SettledOnce'
  BY DEF Inv, Open, PlaysAlone, SettledOnce
<1>2. Admitted'
  BY SameMayTake DEF Inv, Admitted
<1>3. CapHeld' /\ OneSlotPerSession'
  BY SameBoard DEF Inv
<1>. QED  BY <1>1, <1>2, <1>3 DEF Inv

\* A play passes a check before the last one.
LEMMA MoveInv ==
  ASSUME Inv, TypeOK', NEW r \in Reqs, NEW l \in Playing \ {"write"},
         pc[r] \in Playing, Goto(r, l), UNCHANGED <<occ, settled, snaps, ses, slot>>
  PROVE  Inv'
<1>0. \A q \in Reqs : pc'[q] = IF q = r THEN l ELSE pc[q]
  BY DEF Goto, Inv, TypeOK
<1>1. Open' /\ PlaysAlone'
  BY <1>0 DEF Inv, Open, PlaysAlone
<1>2. Admitted'
  BY <1>0, SameMayTake DEF Inv, Admitted
<1>3. CapHeld' /\ OneSlotPerSession' /\ SettledOnce'
  BY SameBoard DEF Inv, SettledOnce
<1>. QED  BY <1>1, <1>2, <1>3 DEF Inv

\* A request ends: what is left of the others.
LEMMA FinishFacts ==
  ASSUME TypeOK, NEW r \in Reqs, Finish(r)
  PROVE  /\ pc'[r] = "idle"
         /\ \A q \in Reqs \ {r} : pc'[q] = pc[q] /\ ses'[q] = ses[q] /\ slot'[q] = slot[q]
BY DEF TypeOK, Finish, Goto

LEMMA FinishPlays ==
  ASSUME Inv, NEW r \in Reqs, Finish(r), UNCHANGED settled
  PROVE  Open' /\ PlaysAlone'
BY FinishFacts DEF Inv, Open, PlaysAlone, Playing

LEMMA FinishInv ==
  ASSUME Inv, TypeOK', NEW r \in Reqs, Finish(r), UNCHANGED <<occ, settled, snaps>>
  PROVE  Inv'
<1>1. Open' /\ PlaysAlone'
  BY FinishPlays
<1>2. Admitted'
  BY FinishFacts, SameMayTake DEF Inv, Admitted
<1>3. CapHeld' /\ OneSlotPerSession' /\ SettledOnce'
  BY SameBoard DEF Inv, SettledOnce
<1>. QED  BY <1>1, <1>2, <1>3 DEF Inv

LEMMA FinishType ==
  ASSUME TypeOK, NEW r \in Reqs, Finish(r)
  PROVE  /\ pc' \in [Reqs -> Playing \cup {"idle", "remove"}]
         /\ ses' \in [Reqs -> Sessions \cup {NoSession}]
         /\ slot' \in [Reqs -> Slots \cup {NoSlot}]
         /\ who' \in [Reqs -> Students \cup {NoStudent}] /\ usedRead' \in [Reqs -> BOOLEAN]
         /\ \A q \in Reqs :
              /\ pc'[q] \in Playing <=> slot'[q] # NoSlot /\ ses'[q] # NoSession
              /\ pc'[q] = "remove" <=> who'[q] # NoStudent
BY DEF TypeOK, Finish, Goto, Playing

LEMMA CheckInv ==
  ASSUME Inv, NEW r \in Reqs, NEW ok, NEW l \in Playing \ {"write"},
         pc[r] \in Playing, Check(r, ok, l)
  PROVE  Inv'
<1>0. /\ UNCHANGED <<occ, settled, expired, snaps, members, removed, used, due, captures, faults>>
      /\ (Goto(r, l) /\ UNCHANGED <<ses, slot, who, usedRead>>) \/ Finish(r)
  BY DEF Check
<1>1. CASE Goto(r, l) /\ UNCHANGED <<ses, slot, who, usedRead>>
  <2>1. TypeOK'
    BY <1>0, <1>1 DEF Inv, TypeOK, Goto, Playing
  <2>. QED  BY <1>0, <1>1, <2>1, MoveInv
<1>2. CASE Finish(r)
  <2>1. TypeOK'
    BY <1>0, <1>2, FinishType DEF Inv, TypeOK
  <2>. QED  BY <1>0, <1>2, <2>1, FinishInv
<1>. QED  BY <1>0, <1>1, <1>2

(***************************************************************************)
(* The actions of Next                                                     *)
(***************************************************************************)
LEMMA InitInv == Init => Inv
<1>. SUFFICES ASSUME Init PROVE Inv
  OBVIOUS
<1>1. TypeOK
  BY TerritoryAssumption DEF Init, TypeOK, Playing
<1>2. Open /\ PlaysAlone /\ Admitted
  BY DEF Init, Open, PlaysAlone, Admitted, Playing
<1>3. SettledOnce /\ OneSlotPerSession
  BY DEF Init, SettledOnce, OneSlotPerSession
<1>4. CapHeld
  <2>1. ASSUME NEW p \in Students, NEW a \in Acts PROVE HeldIn(p, a) = {}
    BY DEF Init, HeldIn, HeldBy
  <2>. QED  BY <2>1, HeldFacts, FS_EmptySet, TerritoryAssumption
<1>. QED  BY <1>1, <1>2, <1>3, <1>4 DEF Inv

LEMMA DeadlinePassesInv == ASSUME Inv, NEW a \in Acts, DeadlinePasses(a) PROVE Inv'
<1>1. TypeOK'
  BY DEF DeadlinePasses, local, Inv, TypeOK
<1>. QED  BY <1>1, QuietInv DEF DeadlinePasses, local

LEMMA MembersInv ==
  ASSUME Inv, NEW p \in Students, JoinByCode(p) \/ AddStudent(p)
  PROVE  Inv'
<1>1. TypeOK'
  BY DEF JoinByCode, AddStudent, local, Inv, TypeOK
<1>. QED  BY <1>1, QuietInv DEF JoinByCode, AddStudent, local

LEMMA BatchInv == ASSUME Inv, SettleScan \/ BatchFails PROVE Inv'
<1>1. TypeOK'
  BY TerritoryAssumption DEF SettleScan, BatchFails, local, Inv, TypeOK
<1>. QED  BY <1>1, QuietInv DEF SettleScan, BatchFails, local

LEMMA CrashInv == ASSUME Inv, NEW r \in Reqs, Crash(r) PROVE Inv'
<1>1. TypeOK'
  BY FinishType, TerritoryAssumption DEF Crash, Inv, TypeOK
<1>. QED  BY <1>1, FinishInv DEF Crash

LEMMA RemoveReadInv ==
  ASSUME Inv, NEW r \in Reqs, NEW p \in Students, RemoveRead(r, p)
  PROVE  Inv'
<1>0. \A q \in Reqs : pc'[q] = IF q = r THEN "remove" ELSE pc[q]
  BY DEF RemoveRead, Goto, Inv, TypeOK
<1>1. TypeOK'
  BY <1>0, TerritoryAssumption DEF RemoveRead, Goto, Inv, TypeOK, Playing
<1>2. Open' /\ PlaysAlone'
  BY <1>0 DEF RemoveRead, Inv, Open, PlaysAlone, Playing
<1>3. Admitted'
  BY <1>0, SameMayTake DEF RemoveRead, Inv, Admitted
<1>4. CapHeld' /\ OneSlotPerSession' /\ SettledOnce'
  BY SameBoard DEF RemoveRead, Inv, SettledOnce
<1>. QED  BY <1>1, <1>2, <1>3, <1>4 DEF Inv

\* A play enters an activity nobody else plays in, and which is open.
LEMMA PlayLockInv ==
  ASSUME Inv, NEW r \in Reqs, NEW x \in Sessions, NEW s \in Slots, PlayLock(r, x, s)
  PROVE  Inv'
<1>0. /\ pc[r] = "idle"
      /\ \A q \in Reqs : /\ pc'[q] = IF q = r THEN "member" ELSE pc[q]
                         /\ ses'[q] = IF q = r THEN x ELSE ses[q]
                         /\ slot'[q] = IF q = r THEN s ELSE slot[q]
  BY DEF PlayLock, Goto, Inv, TypeOK
<1>1. TypeOK'
  BY <1>0, TerritoryAssumption DEF PlayLock, Goto, Inv, TypeOK, Playing
<1>2. Open'
  BY <1>0 DEF PlayLock, Inv, Open
<1>3. PlaysAlone'
  BY <1>0 DEF PlayLock, ActFree, Inv, PlaysAlone
<1>4. Admitted'
  BY <1>0, SameMayTake DEF PlayLock, Inv, Admitted
<1>5. CapHeld' /\ OneSlotPerSession' /\ SettledOnce'
  BY SameBoard DEF PlayLock, Inv, SettledOnce
<1>. QED  BY <1>1, <1>2, <1>3, <1>4, <1>5 DEF Inv

LEMMA PlayChecksInv ==
  ASSUME Inv, NEW r \in Reqs, PlayMember(r) \/ PlayRow(r) \/ PlayUsed(r)
  PROVE  Inv'
<1>1. CASE PlayMember(r)
  BY <1>1, CheckInv DEF PlayMember, Playing
<1>2. CASE PlayRow(r)
  BY <1>2, CheckInv DEF PlayRow, Playing
<1>3. CASE PlayUsed(r)
  BY <1>3, CheckInv DEF PlayUsed, Playing
<1>. QED  BY <1>1, <1>2, <1>3

LEMMA PlayAttemptInv == ASSUME Inv, NEW r \in Reqs, PlayAttempt(r) PROVE Inv'
<1>0. /\ pc[r] = "attempt"
      /\ UNCHANGED <<occ, settled, expired, snaps, members, removed, used, due, captures, faults>>
  BY DEF PlayAttempt
<1>1. CASE CanOccupy(ses[r], slot[r])
  <2>1. UNCHANGED <<ses, slot, who>>
    BY <1>1 DEF PlayAttempt
  <2>2. \A q \in Reqs : pc'[q] = IF q = r THEN "write" ELSE pc[q]
    BY <1>1 DEF PlayAttempt, Goto, Inv, TypeOK
  <2>3. TypeOK'
    <3>1. usedRead' \in [Reqs -> BOOLEAN]
      <4>1. CASE ses[r] \in used
        <5>1. usedRead' = [usedRead EXCEPT ![r] = ses[r] \in used]
          BY <1>1 DEF PlayAttempt
        <5>2. (ses[r] \in used) = TRUE
          BY <4>1
        <5>3. usedRead' = [usedRead EXCEPT ![r] = TRUE]
          BY <5>1, <5>2, Zenon
        <5>. QED  BY <5>3 DEF Inv, TypeOK
      <4>2. CASE ses[r] \notin used
        <5>1. usedRead' = [usedRead EXCEPT ![r] = ses[r] \in used]
          BY <1>1 DEF PlayAttempt
        <5>2. (ses[r] \in used) = FALSE
          BY <4>2
        <5>3. usedRead' = [usedRead EXCEPT ![r] = FALSE]
          BY <5>1, <5>2, Zenon
        <5>. QED  BY <5>3 DEF Inv, TypeOK
      <4>. QED  BY <4>1, <4>2
    <3>2. pc' \in [Reqs -> Playing \cup {"idle", "remove"}]
      BY <1>1 DEF PlayAttempt, Goto, Inv, TypeOK, Playing
    <3>. QED  BY <1>0, <2>1, <2>2, <3>1, <3>2 DEF Inv, TypeOK, Playing
  <2>4. Open' /\ PlaysAlone'
    BY <1>0, <2>1, <2>2 DEF Inv, Open, PlaysAlone, Playing
  <2>5. Admitted'
    BY <1>0, <1>1, <2>1, <2>2, SameMayTake DEF CanOccupy, Inv, Admitted
  <2>6. CapHeld' /\ OneSlotPerSession' /\ SettledOnce'
    BY <1>0, SameBoard DEF Inv, SettledOnce
  <2>. QED  BY <2>3, <2>4, <2>5, <2>6 DEF Inv
<1>2. CASE ~CanOccupy(ses[r], slot[r])
  <2>1. Finish(r)
    BY <1>2 DEF PlayAttempt
  <2>2. TypeOK'
    BY <1>0, <2>1, FinishType DEF Inv, TypeOK
  <2>. QED  BY <1>0, <2>1, <2>2, FinishInv
<1>. QED  BY <1>1, <1>2

\* Nobody plays in the activity, so none loses the ground it stands on.
LEMMA SettleInv ==
  ASSUME Inv, NEW a \in Acts, ActFree(a), a \notin settled, Settled(a), TypeOK',
         UNCHANGED <<occ, pc, ses, slot>>
  PROVE  Inv'
<1>1. Open' /\ PlaysAlone'
  BY DEF Settled, ActFree, Inv, Open, PlaysAlone
<1>2. Admitted'
  BY SameMayTake DEF Inv, Admitted
<1>3. SettledOnce'
  BY DEF Settled, Inv, TypeOK, SettledOnce
<1>4. CapHeld' /\ OneSlotPerSession'
  BY SameBoard DEF Inv
<1>. QED  BY <1>1, <1>2, <1>3, <1>4 DEF Inv

LEMMA SettleActivityInv == ASSUME Inv, NEW a \in Acts, SettleActivity(a) PROVE Inv'
<1>1. TypeOK'
  BY DEF SettleActivity, Settled, local, Inv, TypeOK
<1>. QED  BY <1>1, SettleInv DEF SettleActivity, local

LEMMA SettleNextInv == ASSUME Inv, NEW a \in Acts, SettleNext(a) PROVE Inv'
<1>1. TypeOK'
  BY DEF SettleNext, Settled, local, Inv, TypeOK
<1>2. CASE a \in settled
  BY <1>1, <1>2, QuietInv DEF SettleNext, local
<1>3. CASE a \notin settled
  BY <1>1, <1>3, SettleInv DEF SettleNext, local
<1>. QED  BY <1>2, <1>3

(***************************************************************************)
(* Steps that change who holds a slot                                      *)
(***************************************************************************)
\* A play writes what was admitted; the others play in other activities.
LEMMA PlayWriteInv == ASSUME Inv, NEW r \in Reqs, PlayWrite(r) PROVE Inv'
<1>. DEFINE x == ses[r]  s == slot[r]
<1>0. /\ pc[r] = "write" /\ x \in Sessions /\ s \in Slots /\ Finish(r)
      /\ UNCHANGED <<settled, expired, snaps, members, removed, due, faults>>
      /\ TypeOK /\ MayTake(x, s)
  BY DEF PlayWrite, Inv, TypeOK, Playing, Admitted
<1>1. CASE Conflict(r)
  <2>1. UNCHANGED <<occ, used, captures>>
    BY <1>1 DEF PlayWrite
  <2>2. TypeOK'
    BY <1>0, <2>1, FinishType DEF TypeOK
  <2>. QED  BY <1>0, <2>1, <2>2, FinishInv
<1>2. CASE ~Conflict(r)
  <2>1. /\ occ' = IF Keeps(x, s) THEN occ ELSE [occ EXCEPT ![s] = x]
        /\ used' = used \cup {x} /\ captures' = [captures EXCEPT ![x] = @ + 1]
    BY <1>2 DEF PlayWrite
  <2>2. TypeOK'
    <3>1. occ' \in [Slots -> Sessions \cup {NoSession}]
      BY <1>0, <2>1 DEF TypeOK
    <3>2. used' \subseteq Sessions /\ captures' \in [Sessions -> Nat]
      BY <1>0, <2>1 DEF TypeOK
    <3>. QED  BY <1>0, <3>1, <3>2, FinishType DEF TypeOK
  <2>3. CASE Keeps(x, s)
    BY <1>0, <2>1, <2>2, <2>3, FinishInv
  <2>4. CASE ~Keeps(x, s)
    <3>1. \A t \in Slots : occ'[t] = IF t = s THEN x ELSE occ[t]
      BY <1>0, <2>1, <2>4 DEF TypeOK
    <3>2. Open' /\ PlaysAlone'
      BY <1>0, FinishPlays
    <3>3. Admitted'
      <4>1. SUFFICES ASSUME NEW q \in Reqs, pc'[q] = "write"
                     PROVE  MayTake(ses[q], slot[q])'
        BY DEF Admitted
      <4>2. /\ q # r /\ pc[q] = "write" /\ ses'[q] = ses[q] /\ slot'[q] = slot[q]
            /\ MayTake(ses[q], slot[q])
        BY <1>0, <4>1, FinishFacts DEF Inv, Admitted
      <4>3. ActOf[slot[q]] # ActOf[s] /\ slot[q] \in Slots
        BY <1>0, <4>2 DEF Inv, PlaysAlone, TypeOK, Playing
      <4>4. occ'[slot[q]] = occ[slot[q]]
        BY <3>1, <4>3
      <4>5. ASSUME NEW p PROVE RawCount(p, ActOf[slot[q]])' = RawCount(p, ActOf[slot[q]])
        <5>1. {t \in Slots : ActOf[t] = ActOf[slot'[q]] /\ HeldBy(p, t)'} =
              {t \in Slots : ActOf[t] = ActOf[slot[q]] /\ HeldBy(p, t)}
          BY <3>1, <4>2, <4>3 DEF HeldBy
        <5>. QED  BY <5>1 DEF RawCount
      <4>. QED  BY <4>2, <4>4, <4>5 DEF MayTake, Keeps, HeldBy, EffectiveCount
    <3>4. OneSlotPerSession'
      BY <1>0, <1>2, <2>4, <3>1 DEF Conflict, Inv, OneSlotPerSession
    <3>5. CapHeld'
      BY <1>0, <2>1, <2>4, TakingKeepsCap DEF Inv
    <3>6. SettledOnce'
      BY <1>0 DEF Inv, SettledOnce
    <3>. QED  BY <2>2, <3>2, <3>3, <3>4, <3>5, <3>6 DEF Inv
  <2>. QED  BY <2>3, <2>4
<1>. QED  BY <1>1, <1>2

\* A removal waits for the rows a writing play has locked, so it disturbs
\* neither the slot the play is about to take nor the slots it counted.
LEMMA RemoveCommitInv == ASSUME Inv, NEW r \in Reqs, RemoveCommit(r) PROVE Inv'
<1>. DEFINE p == who[r]
<1>0. /\ TypeOK /\ pc[r] = "remove" /\ p \in Students /\ Finish(r)
      /\ \A s \in ClassRows(p) : RowFree(s)
      /\ occ' = [s \in Slots |-> IF s \in ClassRows(p) THEN NoSession ELSE occ[s]]
      /\ members' = members \ {p} /\ removed' = removed \cup {p}
      /\ UNCHANGED <<settled, expired, snaps, used, due, captures, faults>>
  BY DEF RemoveCommit, Inv, TypeOK, Playing
<1>1. \A s \in Slots : occ'[s] = IF s \in ClassRows(p) THEN NoSession ELSE occ[s]
  BY <1>0
<1>2. TypeOK'
  <2>1. occ' \in [Slots -> Sessions \cup {NoSession}]
    BY <1>0 DEF TypeOK
  <2>2. members' \subseteq Students /\ removed' \subseteq Students
    BY <1>0 DEF TypeOK
  <2>. QED  BY <1>0, <2>1, <2>2, FinishType DEF TypeOK
<1>3. Open' /\ PlaysAlone'
  BY <1>0, FinishPlays
<1>4. Admitted'
  <2>1. SUFFICES ASSUME NEW q \in Reqs, pc'[q] = "write" PROVE MayTake(ses[q], slot[q])'
    BY DEF Admitted
  <2>2. /\ q # r /\ pc[q] = "write" /\ ses'[q] = ses[q] /\ slot'[q] = slot[q]
        /\ MayTake(ses[q], slot[q]) /\ slot[q] \in Slots
    BY <1>0, <2>1, FinishFacts DEF Inv, Admitted, TypeOK, Playing
  <2>3. occ'[slot[q]] = occ[slot[q]]
    BY <1>0, <1>1, <2>2 DEF RowFree
  <2>4. RawCount(OwnerOf[ses[q]], ActOf[slot[q]])' = RawCount(OwnerOf[ses[q]], ActOf[slot[q]])
    <3>. DEFINE me == OwnerOf[ses[q]]
    <3>1. ASSUME NEW t \in Slots, ActOf[t] = ActOf[slot[q]]
          PROVE  HeldBy(me, t)' <=> HeldBy(me, t)
      <4>1. CASE t \in ClassRows(p)
        BY <1>0, <1>1, <2>2, <3>1, <4>1 DEF RowFree, ClassRows, HeldBy
      <4>2. CASE t \notin ClassRows(p)
        BY <1>1, <2>2, <4>2 DEF HeldBy
      <4>. QED  BY <4>1, <4>2
    <3>2. {t \in Slots : ActOf[t] = ActOf[slot'[q]] /\ HeldBy(me, t)'} =
          {t \in Slots : ActOf[t] = ActOf[slot[q]] /\ HeldBy(me, t)}
      BY <2>2, <3>1
    <3>. QED  BY <2>2, <3>2 DEF RawCount
  <2>. QED  BY <2>2, <2>3, <2>4 DEF MayTake, Keeps, HeldBy, EffectiveCount
<1>5. CapHeld'
  BY <1>1, VacatingKeepsCap DEF Inv
<1>6. OneSlotPerSession' /\ SettledOnce'
  BY <1>0, <1>1 DEF Inv, OneSlotPerSession, SettledOnce
<1>. QED  BY <1>2, <1>3, <1>4, <1>5, <1>6 DEF Inv

LEMMA NextInv == Inv /\ [Next]_vars => Inv'
<1>. SUFFICES ASSUME Inv, [Next]_vars PROVE Inv'
  OBVIOUS
<1>1. CASE UNCHANGED vars
  <2>1. TypeOK'
    BY <1>1 DEF vars, local, Inv, TypeOK
  <2>. QED  BY <1>1, <2>1, QuietInv DEF vars, local
<1>2. ASSUME NEW r \in Reqs, Proceed(r) PROVE Inv'
  BY <1>2, PlayChecksInv, PlayAttemptInv, PlayWriteInv, RemoveCommitInv DEF Proceed
<1>. QED  BY <1>1, <1>2, PlayLockInv, RemoveReadInv, CrashInv, MembersInv, DeadlinePassesInv,
             SettleActivityInv, SettleNextInv, BatchInv DEF Next

(***************************************************************************)
(* The theorems                                                            *)
(***************************************************************************)
\* The invariant of the territory service holds in every reachable state.
THEOREM TerritoryInv == Spec => []Inv
<1>. QED  BY InitInv, NextInv, PTL DEF Spec

\* Every variable keeps its type; a request in a play names its session and
\* slot until it ends, and one that ended names nothing.
THEOREM TypeCorrect == Spec => []TypeOK
<1>1. Inv => TypeOK
  BY DEF Inv
<1>. QED  BY <1>1, TerritoryInv, PTL

\* Two plays of a student in flight never exceed student_slot_cap.
THEOREM CapHolds == Spec => []CapHeld
<1>1. Inv => CapHeld
  BY DEF Inv
<1>. QED  BY <1>1, TerritoryInv, PTL

\* Teacher and scheduler together settle an activity once.
THEOREM SettledOnceHolds == Spec => []SettledOnce
<1>1. Inv => SettledOnce
  BY DEF Inv
<1>. QED  BY <1>1, TerritoryInv, PTL

\* No session holds two slots.
THEOREM OneSlotHolds == Spec => []OneSlotPerSession
<1>1. Inv => OneSlotPerSession
  BY DEF Inv
<1>. QED  BY <1>1, TerritoryInv, PTL

\* Settled standings change only by the removal of the holder.
LEMMA StandingsStep ==
  ASSUME Inv, Inv', [Next]_vars, NEW s \in Slots, ActOf[s] \in settled, occ'[s] # occ[s]
  PROVE  occ'[s] = NoSession /\ OwnerOf[occ[s]] \in removed'
<1>1. CASE \E r \in Reqs : PlayWrite(r)
  BY <1>1 DEF PlayWrite, Inv, TypeOK, Open, Playing
<1>2. CASE \E r \in Reqs : RemoveCommit(r)
  BY <1>2 DEF RemoveCommit, ClassRows, HeldBy, Inv, TypeOK
<1>3. CASE UNCHANGED occ
  BY <1>3
<1>. QED
  BY <1>1, <1>2, <1>3 DEF Next, vars, Proceed, PlayLock, RemoveRead, Crash, PlayMember, PlayRow,
     PlayUsed, PlayAttempt, Check, JoinByCode, AddStudent, DeadlinePasses, SettleActivity,
     SettleNext, SettleScan, BatchFails

\* After settlement a slot only changes by the removal of its holder.
THEOREM StandingsStandHolds == Spec => StandingsStand
<1>1. Inv /\ Inv' /\ [Next]_vars =>
        [\A s \in Slots : ActOf[s] \in settled /\ occ'[s] # occ[s]
            => occ'[s] = NoSession /\ OwnerOf[occ[s]] \in removed']_vars
  BY StandingsStep
<1>. QED  BY <1>1, TerritoryInv, PTL DEF Spec, StandingsStand

(***************************************************************************)
(* Refinement                                                              *)
(***************************************************************************)
\* The write of a play is the capture, unless it keeps its own slot.
LEMMA PlayWriteCaptures ==
  ASSUME Inv, Inv', NEW r \in Reqs, PlayWrite(r)
  PROVE  [Board!Next]_<<occ, settled>>
<1>0. /\ ses[r] \in Sessions /\ slot[r] \in Slots /\ ActOf[slot[r]] \notin settled
      /\ MayTake(ses[r], slot[r]) /\ UNCHANGED settled
  BY DEF PlayWrite, Inv, TypeOK, Playing, Admitted, Open
<1>1. CASE UNCHANGED occ
  BY <1>0, <1>1
<1>2. CASE ~UNCHANGED occ
  <2>1. ~Keeps(ses[r], slot[r]) /\ occ' = [occ EXCEPT ![slot[r]] = ses[r]]
    BY <1>2 DEF PlayWrite
  <2>2. occ[slot[r]] = NoSession \/ ScoreOf[ses[r]] > ScoreOf[occ[slot[r]]]
    BY <1>0, <2>1 DEF MayTake
  <2>3. Board!CapHeld'
    BY DEF Inv, CapHeld
  <2>4. Board!Capture(ses[r], slot[r])
    BY <1>0, <2>1, <2>2, <2>3 DEF Board!Capture
  <2>. QED  BY <1>0, <2>4 DEF Board!Next
<1>. QED  BY <1>1, <1>2

LEMMA RemoveCommitLeaves ==
  ASSUME Inv, NEW r \in Reqs, RemoveCommit(r)
  PROVE  [Board!Next]_<<occ, settled>>
<1>1. who[r] \in Students
  BY DEF RemoveCommit, Inv, TypeOK, Playing
<1>2. Board!Leave(who[r])
  BY DEF RemoveCommit, ClassRows, HeldBy, Board!Leave, Board!HeldBy
<1>. QED  BY <1>1, <1>2 DEF Board!Next

LEMMA SettleSettles ==
  ASSUME NEW a \in Acts, SettleActivity(a) \/ SettleNext(a)
  PROVE  [Board!Next]_<<occ, settled>>
BY DEF SettleActivity, SettleNext, Settled, Board!Next, Board!Settle

LEMMA BoardStep ==
  ASSUME Inv, Inv', [Next]_vars
  PROVE  [Board!Next]_<<occ, settled>>
<1>1. CASE \E r \in Reqs : PlayWrite(r)
  BY <1>1, PlayWriteCaptures
<1>2. CASE \E r \in Reqs : RemoveCommit(r)
  BY <1>2, RemoveCommitLeaves
<1>3. CASE \E a \in Acts : SettleActivity(a) \/ SettleNext(a)
  BY <1>3, SettleSettles
<1>4. CASE UNCHANGED <<occ, settled>>
  BY <1>4
<1>. QED
  BY <1>1, <1>2, <1>3, <1>4 DEF Next, vars, Proceed, PlayLock, RemoveRead, Crash, PlayMember,
     PlayRow, PlayUsed, PlayAttempt, Check, JoinByCode, AddStudent, DeadlinePasses,
     SettleScan, BatchFails

\* The interleaved transactions implement plays that take effect at once.
THEOREM ImplementsBoard == Spec => BoardRefined
<1>1. Init => Board!Init
  BY DEF Init, Board!Init
<1>2. Inv /\ Inv' /\ [Next]_vars => [Board!Next]_<<occ, settled>>
  BY BoardStep
<1>. QED  BY <1>1, <1>2, TerritoryInv, PTL DEF Spec, BoardRefined, Board!Spec

(***************************************************************************)
(* The register: requests                                                  *)
(***************************************************************************)
LEMMA CrTyped ==
  ASSUME RegisterInv
  PROVE  /\ crRow \in [CrClasses -> CrRowOf] /\ crIn \in [CrClasses -> CrInOf] /\ crUsers \in SUBSET CrStudents
         /\ crReqs \in [1 .. CrSlots -> CrReqOf \cup {CrIdle}]
         /\ crHist \in [n : Nat, codes : Nat, revoked : SUBSET Nat, over : SUBSET CrClasses, overtaken : SUBSET CrKinds]
BY DEF RegisterInv, CrTypeOK

LEMMA CrRequestTypes ==
  ASSUME RegisterInv, NEW r \in 1 .. CrSlots, crReqs[r] # CrIdle
  PROVE  crReqs[r] \in CrReqOf /\ CrAbout(crReqs[r]) /\ CrPassed(crReqs[r])
BY DEF RegisterInv, CrTypeOK, CrReqsSound

\* A request at a stage is not idle.
LEMMA CrBusy ==
  ASSUME RegisterInv, NEW r \in 1 .. CrSlots, NEW op \in CrOps, NEW stage, CrIs(r, op, stage)
  PROVE  /\ crReqs[r] # CrIdle /\ crReqs[r] \in CrReqOf /\ crReqs[r].op = op /\ crReqs[r].stage = stage
         /\ CrAbout(crReqs[r]) /\ CrPassed(crReqs[r])
<1>1. crReqs[r] # CrIdle
  BY DEF CrIs, CrIdle, CrOps, CrSaveOps, CrOfStudent
<1> QED BY <1>1, CrRequestTypes DEF CrIs

\* The slot of one request changes.
LEMMA CrSlotChanges ==
  ASSUME RegisterInv, NEW r \in 1 .. CrSlots, NEW q,
         crReqs' = [crReqs EXCEPT ![r] = q],
         q = CrIdle \/ (q \in CrReqOf /\ CrAbout(q) /\ CrPassed(q))
  PROVE  crReqs' \in [1 .. CrSlots -> CrReqOf \cup {CrIdle}] /\ CrReqsSound'
<1>1. crReqs' \in [1 .. CrSlots -> CrReqOf \cup {CrIdle}]
  BY CrTyped
<1>2. ASSUME NEW p \in 1 .. CrSlots, crReqs'[p] # CrIdle
      PROVE  CrAbout(crReqs'[p]) /\ CrPassed(crReqs'[p])
  <2>1. CASE p = r
    BY <1>2, <2>1, CrTyped
  <2>2. CASE p # r
    <3>1. crReqs'[p] = crReqs[p]
      BY <2>2, CrTyped
    <3> QED BY <1>2, <3>1, CrRequestTypes
  <2> QED BY <2>1, <2>2
<1> QED BY <1>1, <1>2 DEF CrReqsSound

\* What a request begins with.
LEMMA CrBeginsSound ==
  ASSUME RegisterInv, NEW r \in 1 .. CrSlots, NEW op \in CrOps, NEW c \in CrClasses,
         NEW whom \in CrStudents \cup {CrStudents, CrNone},
         NEW arg \in CrClasses \cup CrTeachers \cup CrGroups \cup {CrNone}, NEW agg \in CrRowOf,
         CrBegins(r, op, c, whom, arg, agg),
         CrAbout([op |-> op, cls |-> c, who |-> whom, arg |-> arg, agg |-> agg, stage |-> "check", seen |-> <<>>]),
         op \in {"create", "regenerate"} => agg.code = crHist.codes + 1
  PROVE  RegisterInv'
<1> DEFINE q == [op |-> op, cls |-> c, who |-> whom, arg |-> arg, agg |-> agg, stage |-> "check", seen |-> <<>>]
           top == IF agg.code > crHist.codes THEN agg.code ELSE crHist.codes
           m == crHist.n + 1
<1>1. /\ crReqs' = [crReqs EXCEPT ![r] = q] /\ crHist' = [crHist EXCEPT !.n = m, !.codes = top]
      /\ UNCHANGED <<crRow, crIn, crUsers>>
  BY DEF CrBegins
<1>2. q \in CrReqOf /\ CrAbout(q) /\ CrPassed(q) /\ q.op = op /\ q.agg = agg
  BY DEF CrReqOf, CrPassed
<1>3. crReqs' \in [1 .. CrSlots -> CrReqOf \cup {CrIdle}] /\ CrReqsSound'
  <2> HIDE DEF q
  <2> QED BY <1>1, <1>2, CrSlotChanges
<1>4. m \in Nat /\ top \in Nat /\ top >= crHist.codes /\ top >= agg.code /\ agg.code \in Nat /\ crHist.codes \in Nat
  BY CrTyped DEF CrRowOf
<1> HIDE DEF m, top
<1>5. /\ crHist' \in [n : Nat, codes : Nat, revoked : SUBSET Nat, over : SUBSET CrClasses, overtaken : SUBSET CrKinds]
      /\ crHist'.codes = top /\ crHist'.revoked = crHist.revoked /\ crHist'.over = crHist.over
      /\ crHist'.overtaken = crHist.overtaken
  BY <1>1, <1>4, CrTyped
<1>6. CrTypeOK'
  BY <1>1, <1>3, <1>5, CrTyped DEF CrTypeOK
<1>7. RegisterHolds'
  BY <1>1, <1>5 DEF RegisterInv, RegisterHolds, GroupedAreMembers, BlockedStayOut, WithinCapacity, OneRole, RevokedCodes
<1>8. ASSUME CrCodesSound PROVE CrCodesSound'
  <2>1. /\ \A d \in CrClasses : crRow[d].code <= crHist.codes /\ crRow[d].code \in Nat
        /\ \A k \in crHist.revoked : k <= crHist.codes /\ k \in Nat
    BY <1>8, CrTyped DEF CrCodesSound, CrRowOf
  <2>2. \A d \in CrClasses : crRow'[d].code <= crHist'.codes
    BY <1>1, <1>4, <1>5, <2>1
  <2>3. \A k \in crHist'.revoked : k <= crHist'.codes
    BY <1>4, <1>5, <2>1
  <2>4. \A p \in 1 .. CrSlots : p # r => crReqs'[p] = crReqs[p]
    BY <1>1, CrTyped
  <2>5. crReqs'[r] = q
    BY <1>1, CrTyped
  <2>6. \A p \in 1 .. CrSlots : p # r => (CrIssues(p)' <=> CrIssues(p))
    BY <2>4 DEF CrIssues
  <2>7. \A p \in 1 .. CrSlots : CrIssues(p) => crReqs[p].agg.code <= crHist.codes /\ crReqs[p].agg.code \in Nat
    BY <1>8, CrRequestTypes DEF CrCodesSound, CrReqOf, CrRowOf, CrIssues
  <2>8. CrIssues(r)' => agg.code = crHist.codes + 1
    BY <1>2, <2>5 DEF CrIssues
  <2>9. ASSUME NEW p \in 1 .. CrSlots, CrIssues(p)'
        PROVE  LET k == crReqs'[p].agg.code IN
               /\ 0 < k /\ k <= crHist'.codes /\ k \notin crHist'.revoked
               /\ \A d \in CrClasses : crRow'[d].code # k
               /\ \A s \in 1 .. CrSlots : s # p /\ CrIssues(s)' => crReqs'[s].agg.code # k
    <3>1. CASE p = r
      <4>1. crReqs'[p].agg.code = agg.code /\ agg.code = crHist.codes + 1
        BY <1>2, <2>5, <2>8, <2>9, <3>1
      <4>2. \A s \in 1 .. CrSlots : s # p /\ CrIssues(s)' => crReqs'[s].agg.code # agg.code
        BY <1>4, <2>4, <2>6, <2>7, <3>1, <4>1
      <4> QED BY <1>1, <1>4, <1>5, <2>1, <4>1, <4>2
    <3>2. CASE p # r
      <4>1. CrIssues(p) /\ crReqs'[p] = crReqs[p]
        BY <2>4, <2>6, <2>9, <3>2
      <4> DEFINE k == crReqs[p].agg.code
      <4>2. /\ 0 < k /\ k <= crHist.codes /\ k \notin crHist.revoked /\ k \in Nat
            /\ \A d \in CrClasses : crRow[d].code # k
            /\ \A s \in 1 .. CrSlots : s # p /\ CrIssues(s) => crReqs[s].agg.code # k
        BY <1>8, <2>7, <4>1 DEF CrCodesSound
      <4>3. \A s \in 1 .. CrSlots : s # p /\ CrIssues(s)' => crReqs'[s].agg.code # k
        <5>1. CrIssues(r)' => crReqs'[r].agg.code # k
          BY <1>2, <1>4, <2>5, <2>8, <4>2
        <5> QED BY <2>4, <2>6, <4>2, <5>1
      <4> HIDE DEF k
      <4> QED BY <1>1, <1>4, <1>5, <4>1, <4>2, <4>3 DEF k
    <3> QED BY <3>1, <3>2
  <2>10. /\ \A d \in CrClasses : crRow'[d].code = 0 => ~crRow'[d].alive /\ crIn'[d].co = {}
         /\ \A d, e \in CrClasses : d # e /\ crRow'[d].code = crRow'[e].code => crRow'[d].code = 0
    BY <1>1, <1>8 DEF CrCodesSound
  <2> QED BY <2>2, <2>3, <2>9, <2>10 DEF CrCodesSound
<1>9. CrRowsSound'
  BY <1>5, <1>8 DEF RegisterInv, CrRowsSound
<1> QED BY <1>3, <1>6, <1>7, <1>9 DEF RegisterInv

\* A request that goes on, or off, without a write: what it has issued stays its own.
LEMMA CrQuietly ==
  ASSUME RegisterInv, NEW r \in 1 .. CrSlots, NEW q, crReqs' = [crReqs EXCEPT ![r] = q],
         q = CrIdle \/ (/\ q \in CrReqOf /\ CrAbout(q) /\ CrPassed(q)
                        /\ q.op \in {"create", "regenerate"} => CrIssues(r) /\ q.agg = crReqs[r].agg),
         UNCHANGED <<crRow, crIn, crHist>>, crUsers' \in SUBSET CrStudents
  PROVE  RegisterInv'
<1>1. crReqs' \in [1 .. CrSlots -> CrReqOf \cup {CrIdle}] /\ CrReqsSound'
  BY CrSlotChanges
<1>2. CrTypeOK'
  BY <1>1, CrTyped DEF CrTypeOK
<1>3. RegisterHolds'
  BY DEF RegisterInv, RegisterHolds, GroupedAreMembers, BlockedStayOut, WithinCapacity, OneRole, RevokedCodes
<1>4. \A p \in 1 .. CrSlots : CrIssues(p)' => CrIssues(p) /\ crReqs'[p].agg = crReqs[p].agg
  <2>1. crReqs'[r] = q /\ \A p \in 1 .. CrSlots : p # r => crReqs'[p] = crReqs[p]
    BY CrTyped
  <2> QED BY <2>1 DEF CrIssues
<1>5. CrCodesSound => CrCodesSound'
  BY <1>4 DEF CrCodesSound
<1>6. CrRowsSound'
  BY <1>5 DEF RegisterInv, CrRowsSound
<1> QED BY <1>1, <1>2, <1>3, <1>6 DEF RegisterInv

LEMMA CrReadsSound ==
  ASSUME RegisterInv, NEW r \in 1 .. CrSlots, NEW op \in CrOps, CrIs(r, op, "check"), NEW passes \in BOOLEAN,
         CrReads(r, passes),
         passes /\ op \in {"add", "join"} => CrCount(crIn, crReqs[r].cls) < crReqs[r].agg.cap,
         passes /\ op = "move" => CrCount(crIn, crReqs[r].arg) < crReqs[r].agg.cap
  PROVE  RegisterInv'
<1> DEFINE o == crReqs[r]
           seen == [in |-> crIn, row |-> crRow, users |-> crUsers]
<1>1. o # CrIdle /\ o \in CrReqOf /\ o.op = op /\ CrAbout(o)
  BY CrBusy
<1>2. /\ UNCHANGED <<crRow, crIn, crUsers, crHist>>
      /\ crReqs' = [crReqs EXCEPT ![r] = IF passes THEN [o EXCEPT !.stage = "write", !.seen = seen] ELSE CrIdle]
  BY DEF CrReads
<1>3. CASE ~passes
  <2>1. crReqs' = [crReqs EXCEPT ![r] = CrIdle]
    BY <1>2, <1>3
  <2> QED BY <1>2, <2>1, CrQuietly, CrTyped
<1>4. CASE passes
  <2> DEFINE q == [o EXCEPT !.stage = "write", !.seen = seen]
  <2>1. crReqs' = [crReqs EXCEPT ![r] = q]
    BY <1>2, <1>4
  <2>2. seen \in CrSeenOf /\ seen.in = crIn
    BY CrTyped DEF CrSeenOf
  <2> HIDE DEF seen
  <2>3. /\ q \in CrReqOf /\ q.op = o.op /\ q.cls = o.cls /\ q.who = o.who /\ q.arg = o.arg /\ q.agg = o.agg
        /\ q.seen = seen
    BY <1>1, <2>2 DEF CrReqOf
  <2>4. CrAbout(q)
    BY <1>1, <2>3 DEF CrAbout
  <2>5. CrPassed(q)
    BY <1>1, <1>4, <2>2, <2>3 DEF CrPassed
  <2>6. q.op \in {"create", "regenerate"} => CrIssues(r) /\ q.agg = crReqs[r].agg
    BY <1>1, <2>3 DEF CrIssues
  <2> HIDE DEF q
  <2> QED BY <1>2, <2>1, <2>3, <2>4, <2>5, <2>6, CrQuietly, CrTyped
<1> QED BY <1>3, <1>4

LEMMA CrFailsSound == ASSUME RegisterInv, NEW r \in 1 .. CrSlots, CrFails(r) PROVE RegisterInv'
<1>1. /\ crReqs' = [crReqs EXCEPT ![r] = CrIdle] /\ UNCHANGED <<crRow, crIn, crHist>>
      /\ crUsers' \in SUBSET CrStudents
  BY CrTyped DEF CrFails
<1> QED BY <1>1, CrQuietly

(***************************************************************************)
(* The register: writes                                                    *)
(***************************************************************************)
\* What each kind of overtaken check means.
LEMMA CrOvertakenKinds ==
  ASSUME NEW q, NEW tables, NEW own
  PROVE  LET o == CrOvertaken(q, tables, own)  in == crIn[q.cls]  was == q.seen.in[q.cls] IN
         /\ o \in SUBSET CrKinds
         /\ q.op = "group" /\ q.who \notin in.members => "group" \in o
         /\ q.op \in {"remove", "move"} /\ in.group[q.who] # was.group[q.who] => "group" \in o
         /\ \A c \in CrClasses : q.op \in {"join", "claim"} /\ q.who \in tables[c].members \cap crIn[c].blocked
              => "block" \in o
         /\ \A c \in CrGrown(tables) : CrCount(q.seen.in, c) # CrCount(crIn, c) \/ CrCapRead(q, c) # crRow[c].cap
              => "capacity" \in o
         /\ q.op = "addCo" /\ q.arg = crRow[q.cls].owner => "role" \in o
         /\ q.op = "transfer" /\ q.arg \in in.co \ was.co => "role" \in o
         /\ \A f \in own : q.agg[f] # q.seen.row[q.cls][f] => "row" \in o
BY DEF CrOvertaken, CrKinds

CrNewCode(r, row) == row.code # crRow[crReqs[r].cls].code

\* What a write leaves: the tables and the row as written, and the bookkeeping of the properties.
CrWritten(r, tables, row, own) ==
  LET q == crReqs[r]  o == CrOvertaken(q, tables, own) IN
    /\ q \in CrReqOf /\ q.cls \in CrClasses
    /\ crIn' = tables /\ crRow' = [crRow EXCEPT ![q.cls] = row] /\ crUsers' = crUsers
    /\ crRow'[q.cls] = row /\ \A c \in CrClasses : c # q.cls => crRow'[c] = crRow[c]
    /\ CrTypeOK' /\ CrReqsSound'
    /\ crHist'.codes = crHist.codes /\ crHist'.overtaken = crHist.overtaken \cup o
    /\ crHist'.over = crHist.over \cup {c \in CrGrown(tables) : CrCount(tables, c) > crRow[c].cap}
    /\ crHist'.revoked = IF row.code # crRow[q.cls].code \/ ~row.alive
                         THEN crHist.revoked \cup {crRow[q.cls].code} ELSE crHist.revoked
    /\ \A p \in 1 .. CrSlots : CrIssues(p)' => p # r /\ CrIssues(p) /\ crReqs'[p] = crReqs[p]

LEMMA CrCommitted ==
  ASSUME RegisterInv, NEW r \in 1 .. CrSlots, crReqs[r] # CrIdle, NEW tables \in [CrClasses -> CrInOf],
         NEW row \in CrRowOf, NEW own, CrCommits(r, tables, row, own)
  PROVE  CrWritten(r, tables, row, own)
<1> DEFINE q == crReqs[r]
           v == IF row.code # crRow[q.cls].code \/ ~row.alive
                THEN crHist.revoked \cup {crRow[q.cls].code} ELSE crHist.revoked
           w == crHist.over \cup {c \in CrGrown(tables) : CrCount(tables, c) > crRow[c].cap}
           o == crHist.overtaken \cup CrOvertaken(q, tables, own)
<1>1. q \in CrReqOf /\ q.cls \in CrClasses
  BY CrRequestTypes DEF CrReqOf
<1>2. /\ crIn' = tables /\ crRow' = [crRow EXCEPT ![q.cls] = row] /\ crUsers' = crUsers
      /\ crReqs' = [crReqs EXCEPT ![r] = CrIdle]
      /\ crHist' = [crHist EXCEPT !.revoked = v, !.over = w, !.overtaken = o]
  BY DEF CrCommits
<1>3. v \in SUBSET Nat
  BY <1>1, CrTyped DEF CrRowOf
<1>4. w \in SUBSET CrClasses
  BY CrTyped DEF CrGrown
<1>5. o \in SUBSET CrKinds
  BY CrTyped, CrOvertakenKinds
<1> HIDE DEF v, w, o
<1>6. /\ crHist' \in [n : Nat, codes : Nat, revoked : SUBSET Nat, over : SUBSET CrClasses, overtaken : SUBSET CrKinds]
      /\ crHist'.codes = crHist.codes /\ crHist'.revoked = v /\ crHist'.over = w /\ crHist'.overtaken = o
  BY <1>2, <1>3, <1>4, <1>5, CrTyped
<1>7. /\ crRow' \in [CrClasses -> CrRowOf] /\ crRow'[q.cls] = row
      /\ \A c \in CrClasses : c # q.cls => crRow'[c] = crRow[c]
  BY <1>1, <1>2, CrTyped
<1>8. crReqs' \in [1 .. CrSlots -> CrReqOf \cup {CrIdle}] /\ CrReqsSound'
  BY <1>2, CrSlotChanges
<1>9. CrTypeOK'
  BY <1>2, <1>6, <1>7, <1>8, CrTyped DEF CrTypeOK
<1>10. \A p \in 1 .. CrSlots : CrIssues(p)' => p # r /\ CrIssues(p) /\ crReqs'[p] = crReqs[p]
  BY <1>2, CrTyped DEF CrIssues
<1> QED BY <1>1, <1>2, <1>6, <1>7, <1>8, <1>9, <1>10 DEF v, w, o, CrWritten

\* What a write must see to, table by table, unless the check behind it was overtaken.
CrGroupKept(tables) ==
  \A c \in CrClasses, s \in CrStudents :
    (crIn[c].group[s] # CrNone => s \in crIn[c].members) =>
    (tables[c].group[s] # CrNone => s \in tables[c].members)
CrBlockKept(tables) ==
  \A c \in CrClasses : crIn[c].members \cap crIn[c].blocked = {} => tables[c].members \cap tables[c].blocked = {}
CrCapKept(tables) == \A c \in CrGrown(tables) : CrCount(tables, c) <= crRow[c].cap
\* A row is written back as it is, or with a code of its own, or with its class gone.
CrRowKept(r, row) ==
  \/ row.code = crRow[crReqs[r].cls].code /\ (row.alive => crRow[crReqs[r].cls].alive)
  \/ row.code = crReqs[r].agg.code /\ CrIssues(r)
CrRoleKept(r, tables, row) ==
  \A c \in CrClasses :
    LET new == IF c = crReqs[r].cls THEN row ELSE crRow[c] IN
    (crRow[c].alive => crRow[c].owner \notin crIn[c].co) => (new.alive => new.owner \notin tables[c].co)

LEMMA CrCommitsSound ==
  ASSUME RegisterInv, NEW r \in 1 .. CrSlots, crReqs[r] # CrIdle, NEW tables \in [CrClasses -> CrInOf],
         NEW row \in CrRowOf, NEW own, CrCommits(r, tables, row, own),
         LET o == CrOvertaken(crReqs[r], tables, own) IN
         /\ "group" \in o \/ CrGroupKept(tables)
         /\ "block" \in o \/ CrBlockKept(tables)
         /\ "capacity" \in o \/ CrCapKept(tables)
         /\ CrCodesSound => "row" \in o \/ CrRowKept(r, row)
         /\ CrCodesSound => "row" \in o \/ \A c \in CrClasses :
              tables[c].co # {} => (IF c = crReqs[r].cls THEN row ELSE crRow[c]).code # 0
         /\ CrCodesSound => "row" \in o \/ "role" \in o \/ CrRoleKept(r, tables, row)
  PROVE  RegisterInv'
<1> DEFINE q == crReqs[r]
           o == CrOvertaken(q, tables, own)
<1>1. /\ q \in CrReqOf /\ q.cls \in CrClasses
      /\ crIn' = tables /\ crUsers' = crUsers
      /\ crRow'[q.cls] = row /\ \A c \in CrClasses : c # q.cls => crRow'[c] = crRow[c]
      /\ CrTypeOK' /\ CrReqsSound'
      /\ crHist'.codes = crHist.codes /\ crHist'.overtaken = crHist.overtaken \cup o
      /\ crHist'.over = crHist.over \cup {c \in CrGrown(tables) : CrCount(tables, c) > crRow[c].cap}
      /\ crHist'.revoked = IF row.code # crRow[q.cls].code \/ ~row.alive
                           THEN crHist.revoked \cup {crRow[q.cls].code} ELSE crHist.revoked
      /\ \A p \in 1 .. CrSlots : CrIssues(p)' => p # r /\ CrIssues(p) /\ crReqs'[p] = crReqs[p]
  <2>1. CrWritten(r, tables, row, own)
    BY CrCommitted
  <2> QED BY <2>1 DEF CrWritten
<1> HIDE DEF o
<1>2. /\ "group" \in o \/ CrGroupKept(tables)
      /\ "block" \in o \/ CrBlockKept(tables)
      /\ "capacity" \in o \/ CrCapKept(tables)
      /\ CrCodesSound => "row" \in o \/ CrRowKept(r, row)
      /\ CrCodesSound => "row" \in o \/ \A c \in CrClasses :
           tables[c].co # {} => (IF c = crReqs[r].cls THEN row ELSE crRow[c]).code # 0
      /\ CrCodesSound => "row" \in o \/ "role" \in o \/ CrRoleKept(r, tables, row)
  BY DEF o
<1>3. GroupedAreMembers'
  BY <1>1, <1>2 DEF RegisterInv, RegisterHolds, GroupedAreMembers, CrGroupKept
<1>4. BlockedStayOut'
  BY <1>1, <1>2 DEF RegisterInv, RegisterHolds, BlockedStayOut, CrBlockKept
<1>5. WithinCapacity'
  <2>1. CASE "capacity" \in o
    BY <1>1, <2>1 DEF WithinCapacity
  <2>2. CASE CrCapKept(tables)
    <3>1. {c \in CrGrown(tables) : CrCount(tables, c) > crRow[c].cap} = {}
      <4>1. ASSUME NEW c \in CrGrown(tables), CrCount(tables, c) > crRow[c].cap PROVE FALSE
        <5>1. CrCount(tables, c) <= crRow[c].cap /\ c \in CrClasses
          BY <2>2 DEF CrCapKept, CrGrown
        <5>2. crRow[c].cap \in Int /\ CrCount(tables, c) \in Int
          <6>1. tables[c].members \in SUBSET CrStudents
            BY <5>1 DEF CrInOf
          <6>2. IsFiniteSet(tables[c].members)
            BY <6>1, FS_Subset, CrAssumption
          <6> QED BY <5>1, <6>2, FS_CardinalityType, CrTyped DEF CrCount, CrRowOf
        <5> QED BY <4>1, <5>1, <5>2
      <4> QED BY <4>1
    <3> QED BY <1>1, <3>1 DEF RegisterInv, RegisterHolds, WithinCapacity
  <2> QED BY <1>2, <2>1, <2>2
<1>6. ASSUME CrCodesSound, "row" \notin o PROVE CrCodesSound' /\ (RevokedCodes => RevokedCodes')
  <2>1. CrRowKept(r, row)
    BY <1>2, <1>6
  <2>2. /\ \A c \in CrClasses : crRow[c].code \in Nat /\ crRow'[c].code \in Nat
        /\ \A p \in 1 .. CrSlots : CrIssues(p) => crReqs[p].agg.code \in Nat
        /\ crHist.codes \in Nat /\ crHist.revoked \in SUBSET Nat
    <3>1. \A p \in 1 .. CrSlots : CrIssues(p) => crReqs[p].agg.code \in Nat
      BY CrRequestTypes DEF CrIssues, CrReqOf, CrRowOf
    <3> QED BY <1>1, <3>1, CrTyped DEF CrRowOf, CrTypeOK
  <2>3. /\ row.code = crRow[q.cls].code \/ (row.code = q.agg.code /\ CrIssues(r))
    BY <2>1 DEF CrRowKept
  <2>4. /\ row.code <= crHist.codes
        /\ \A c \in CrClasses : c # q.cls /\ row.code = crRow[c].code => row.code = 0
        /\ row.code # crRow[q.cls].code => row.code # 0 /\ row.code \notin crHist.revoked
    BY <1>1, <1>6, <2>2, <2>3 DEF CrCodesSound
  <2>5. \A c \in CrClasses : crRow'[c].code <= crHist'.codes
    BY <1>1, <1>6, <2>4 DEF CrCodesSound
  <2>6. \A k \in crHist'.revoked : k <= crHist'.codes
    BY <1>1, <1>6 DEF CrCodesSound
  <2>7. \A c \in CrClasses : crRow'[c].code = 0 => ~crRow'[c].alive /\ crIn'[c].co = {}
    <3>1. \A c \in CrClasses : tables[c].co # {} => (IF c = q.cls THEN row ELSE crRow[c]).code # 0
      BY <1>2, <1>6
    <3>2. row.code = 0 => ~row.alive
      BY <1>1, <1>6, <2>1, <2>4 DEF CrRowKept, CrCodesSound
    <3> QED BY <1>1, <1>6, <3>1, <3>2 DEF CrCodesSound
  <2>8. \A c, d \in CrClasses : c # d /\ crRow'[c].code = crRow'[d].code => crRow'[c].code = 0
    BY <1>1, <1>6, <2>4 DEF CrCodesSound
  <2>9. ASSUME NEW p \in 1 .. CrSlots, CrIssues(p)'
        PROVE  LET k == crReqs'[p].agg.code IN
               /\ 0 < k /\ k <= crHist'.codes /\ k \notin crHist'.revoked
               /\ \A c \in CrClasses : crRow'[c].code # k
               /\ \A s \in 1 .. CrSlots : s # p /\ CrIssues(s)' => crReqs'[s].agg.code # k
    <3> DEFINE k == crReqs[p].agg.code
    <3>1. p # r /\ CrIssues(p) /\ crReqs'[p] = crReqs[p]
      BY <1>1, <2>9
    <3>2. /\ 0 < k /\ k <= crHist.codes /\ k \notin crHist.revoked
          /\ \A c \in CrClasses : crRow[c].code # k
          /\ \A s \in 1 .. CrSlots : s # p /\ CrIssues(s) => crReqs[s].agg.code # k
      BY <1>6, <3>1 DEF CrCodesSound
    <3> HIDE DEF k
    <3>3. row.code # k
      BY <1>1, <2>3, <3>1, <3>2
    <3>4. \A s \in 1 .. CrSlots : s # p /\ CrIssues(s)' => crReqs'[s].agg.code # k
      BY <1>1, <3>2
    <3>5. k \notin crHist'.revoked /\ \A c \in CrClasses : crRow'[c].code # k
      BY <1>1, <3>2, <3>3
    <3> QED BY <1>1, <3>1, <3>2, <3>4, <3>5 DEF k
  <2>10. ASSUME RevokedCodes PROVE RevokedCodes'
    <3>1. ASSUME "row" \notin crHist.overtaken, NEW c \in CrClasses, crRow'[c].alive
          PROVE  crRow'[c].code \notin crHist'.revoked
      <4>1. \A d \in CrClasses : crRow[d].alive => crRow[d].code \notin crHist.revoked
        BY <2>10, <3>1 DEF RevokedCodes
      <4>2. CASE c # q.cls
        <5>1. crRow'[c] = crRow[c] /\ crRow[c].code # 0
          BY <1>1, <1>6, <3>1, <4>2 DEF CrCodesSound
        <5>2. crRow[c].code # crRow[q.cls].code
          BY <1>1, <1>6, <4>2, <5>1 DEF CrCodesSound
        <5> QED BY <1>1, <3>1, <4>1, <5>1, <5>2
      <4>3. CASE c = q.cls
        <5>1. crRow'[c] = row /\ row.alive
          BY <1>1, <3>1, <4>3
        <5>2. CASE row.code = crRow[q.cls].code
          <6>1. crRow[q.cls].alive
            BY <1>1, <1>6, <2>1, <5>1, <5>2 DEF CrRowKept, CrCodesSound
          <6> QED BY <1>1, <4>1, <5>1, <5>2, <6>1
        <5>3. CASE row.code # crRow[q.cls].code
          BY <1>1, <2>4, <5>1, <5>3
        <5> QED BY <5>2, <5>3
      <4> QED BY <4>2, <4>3
    <3> QED BY <1>1, <3>1 DEF RevokedCodes
  <2> QED BY <2>5, <2>6, <2>7, <2>8, <2>9, <2>10 DEF CrCodesSound
<1>7. CrRowsSound' /\ RevokedCodes'
  BY <1>1, <1>6 DEF RegisterInv, RegisterHolds, CrRowsSound, RevokedCodes
<1>8. OneRole'
  <2>1. CASE {"role", "row"} \cap (crHist.overtaken \cup o) # {}
    BY <1>1, <2>1 DEF OneRole
  <2>2. CASE {"role", "row"} \cap (crHist.overtaken \cup o) = {}
    <3>1. CrCodesSound /\ CrRoleKept(r, tables, row)
      BY <1>2, <2>2 DEF RegisterInv, CrRowsSound
    <3>2. \A c \in CrClasses : crRow[c].alive => crRow[c].owner \notin crIn[c].co
      BY <2>2 DEF RegisterInv, RegisterHolds, OneRole
    <3> QED BY <1>1, <3>1, <3>2 DEF OneRole, CrRoleKept
  <2> QED BY <2>1, <2>2
<1> QED BY <1>1, <1>3, <1>4, <1>5, <1>7, <1>8 DEF RegisterInv, RegisterHolds

\* Who is in a class is finitely many.
LEMMA CrFinite ==
  ASSUME RegisterInv, NEW tables \in [CrClasses -> CrInOf], NEW c \in CrClasses
  PROVE  IsFiniteSet(tables[c].members) /\ CrCount(tables, c) \in Nat /\ CrCount(tables, c) = Cardinality(tables[c].members)
<1>1. tables[c].members \in SUBSET CrStudents
  BY DEF CrInOf
<1>2. IsFiniteSet(tables[c].members)
  BY <1>1, FS_Subset, CrAssumption
<1> QED BY <1>2, FS_CardinalityType DEF CrCount

\* A write to the tables of the request's class, which leaves its row alone.
LEMMA CrTablesSound ==
  ASSUME RegisterInv, NEW r \in 1 .. CrSlots, NEW op \in CrOps \ {"claim"}, CrIs(r, op, "write"), NEW in \in CrInOf,
         CrTables(r, in),
         LET q == crReqs[r]  c == q.cls  old == crIn[c]  was == q.seen.in[c] IN
         /\ \/ \A s \in CrStudents : (old.group[s] # CrNone => s \in old.members) =>
                 (in.group[s] # CrNone => s \in in.members)
            \/ op = "group" /\ q.who \notin old.members
            \/ op = "remove" /\ old.group[q.who] # was.group[q.who]
         /\ \/ old.members \cap old.blocked = {} => in.members \cap in.blocked = {}
            \/ op = "join" /\ q.who \in in.members \cap old.blocked
         /\ \/ Cardinality(in.members) <= Cardinality(old.members)
            \/ Cardinality(in.members) <= crRow[c].cap
            \/ CrCount(q.seen.in, c) # CrCount(crIn, c)
            \/ q.agg.cap # crRow[c].cap
         /\ \/ in.co \in SUBSET old.co
            \/ crRow[c].alive /\ ((op = "addCo" /\ q.arg = crRow[c].owner) \/ crRow[c].owner \notin in.co \ old.co)
  PROVE  RegisterInv'
<1> DEFINE q == crReqs[r]
           c == q.cls
           old == crIn[c]
           tables == [crIn EXCEPT ![c] = in]
           o == CrOvertaken(q, tables, {})
<1>1. q # CrIdle /\ q \in CrReqOf /\ q.op = op /\ c \in CrClasses
  BY CrBusy DEF CrReqOf
<1>2. /\ tables \in [CrClasses -> CrInOf] /\ tables[c] = in /\ \A d \in CrClasses : d # c => tables[d] = crIn[d]
      /\ crRow[c] \in CrRowOf
  BY <1>1, CrTyped
<1>3. CrCommits(r, tables, crRow[c], {})
  BY DEF CrTables
<1>4. /\ q.op = "group" /\ q.who \notin old.members => "group" \in o
      /\ q.op \in {"remove", "move"} /\ old.group[q.who] # q.seen.in[c].group[q.who] => "group" \in o
      /\ \A d \in CrClasses : q.op \in {"join", "claim"} /\ q.who \in tables[d].members \cap crIn[d].blocked
           => "block" \in o
      /\ \A d \in CrGrown(tables) : CrCount(q.seen.in, d) # CrCount(crIn, d) \/ CrCapRead(q, d) # crRow[d].cap
           => "capacity" \in o
      /\ q.op = "addCo" /\ q.arg = crRow[q.cls].owner => "role" \in o
  BY CrOvertakenKinds
<1> HIDE DEF o, tables
<1>5. "group" \in o \/ CrGroupKept(tables)
  BY <1>1, <1>2, <1>4 DEF CrGroupKept
<1>6. "block" \in o \/ CrBlockKept(tables)
  BY <1>1, <1>2, <1>4 DEF CrBlockKept
<1>7. "capacity" \in o \/ CrCapKept(tables)
  <2>1. ASSUME NEW d \in CrGrown(tables), "capacity" \notin o PROVE CrCount(tables, d) <= crRow[d].cap
    <3>1. d \in CrClasses /\ CrCount(tables, d) > CrCount(crIn, d)
      BY <2>1 DEF CrGrown
    <3>2. CrCount(tables, d) \in Nat /\ CrCount(crIn, d) \in Nat
      BY <1>2, <3>1, CrFinite, CrTyped
    <3>3. d = c
      BY <1>2, <3>1, <3>2 DEF CrCount
    <3>4. CrCount(tables, d) = Cardinality(in.members) /\ CrCount(crIn, d) = Cardinality(old.members)
      BY <1>2, <3>3 DEF CrCount
    <3>5. CrCapRead(q, d) = q.agg.cap
      BY <1>1 DEF CrCapRead
    <3>6. CrCount(q.seen.in, d) = CrCount(crIn, d) /\ q.agg.cap = crRow[d].cap
      BY <1>4, <2>1, <3>5
    <3> QED BY <3>1, <3>2, <3>3, <3>4, <3>6
  <2> QED BY <2>1 DEF CrCapKept
<1>8. CrRowKept(r, crRow[c])
  BY DEF CrRowKept
<1>9. ASSUME CrCodesSound PROVE \A d \in CrClasses : tables[d].co # {} => (IF d = c THEN crRow[c] ELSE crRow[d]).code # 0
  BY <1>1, <1>2, <1>9 DEF CrCodesSound
<1>10. ASSUME CrCodesSound PROVE "role" \in o \/ CrRoleKept(r, tables, crRow[c])
  <2>1. ASSUME NEW d \in CrClasses, "role" \notin o, crRow[d].alive => crRow[d].owner \notin crIn[d].co, crRow[d].alive
        PROVE  crRow[d].owner \notin tables[d].co
    <3>1. CASE d # c
      BY <1>2, <2>1, <3>1
    <3>2. CASE d = c
      BY <1>1, <1>2, <1>4, <2>1, <3>2
    <3> QED BY <3>1, <3>2
  <2>2. \A d \in CrClasses : (IF d = crReqs[r].cls THEN crRow[c] ELSE crRow[d]) = crRow[d]
    OBVIOUS
  <2> QED BY <2>1, <2>2 DEF CrRoleKept
<1>11. /\ "group" \in o \/ CrGroupKept(tables)
       /\ "block" \in o \/ CrBlockKept(tables)
       /\ "capacity" \in o \/ CrCapKept(tables)
       /\ CrCodesSound => "row" \in o \/ CrRowKept(r, crRow[c])
       /\ CrCodesSound => "row" \in o \/ \A d \in CrClasses :
            tables[d].co # {} => (IF d = crReqs[r].cls THEN crRow[c] ELSE crRow[d]).code # 0
       /\ CrCodesSound => "row" \in o \/ "role" \in o \/ CrRoleKept(r, tables, crRow[c])
  BY <1>5, <1>6, <1>7, <1>8, <1>9, <1>10
<1> QED BY ONLY RegisterInv, r \in 1 .. CrSlots, <1>1, <1>2, <1>3, <1>11, CrCommitsSound DEF o

(***************************************************************************)
(* The register: one lemma per operation                                   *)
(***************************************************************************)
LEMMA CrOneMore ==
  ASSUME NEW S, IsFiniteSet(S), NEW x
  PROVE  Cardinality(S \cup {x}) <= Cardinality(S) + 1 /\ Cardinality(S \cup {x}) \in Nat
<1>1. /\ IsFiniteSet(S \cup {x})
      /\ Cardinality(S \cup {x}) = IF x \in S THEN Cardinality(S) ELSE Cardinality(S) + 1
  BY FS_AddElement
<1>2. Cardinality(S) \in Nat /\ Cardinality(S \cup {x}) \in Nat
  BY <1>1, FS_CardinalityType
<1> QED BY <1>1, <1>2

LEMMA CrSomeMore ==
  ASSUME NEW S, IsFiniteSet(S), NEW T, IsFiniteSet(T), T \cap S = {}
  PROVE  Cardinality(S \cup T) = Cardinality(S) + Cardinality(T)
<1>1. Cardinality(S \cup T) = Cardinality(S) + Cardinality(T) - Cardinality(S \cap T)
  BY FS_Union
<1>2. S \cap T = {} /\ Cardinality({}) = 0 /\ Cardinality(S) \in Nat /\ Cardinality(T) \in Nat
  BY FS_EmptySet, FS_CardinalityType
<1>3. Cardinality(S \cap T) = 0
  BY <1>2
<1> QED BY <1>1, <1>2, <1>3

LEMMA CrRowTyped ==
  ASSUME RegisterInv
  PROVE  /\ \A c \in CrClasses : crRow[c] \in CrRowOf /\ crRow[c].code \in Nat /\ crRow[c].cap \in Nat
         /\ \A c \in CrClasses : crIn[c] \in CrInOf
         /\ crHist.codes + 1 \in Nat
         /\ CrAnyClass \in CrClasses
<1>1. \A c \in CrClasses : crRow[c] \in CrRowOf /\ crRow[c].code \in Nat /\ crRow[c].cap \in Nat
  BY CrTyped DEF CrRowOf
<1>2. CrAnyClass \in CrClasses
  BY CrAssumption DEF CrAnyClass
<1> QED BY <1>1, <1>2, CrTyped

\* What the tables of a class hold.
LEMMA CrInTyped ==
  ASSUME RegisterInv, NEW c \in CrClasses
  PROVE  /\ crIn[c] \in CrInOf
         /\ crIn[c].members \in SUBSET CrStudents /\ crIn[c].blocked \in SUBSET CrStudents
         /\ crIn[c].invited \in SUBSET CrStudents /\ crIn[c].co \in SUBSET CrTeachers
         /\ crIn[c].groups \in SUBSET CrGroups /\ crIn[c].made \in SUBSET CrGroups
         /\ crIn[c].group \in [CrStudents -> CrGroups \cup {CrNone}]
         /\ IsFiniteSet(crIn[c].members) /\ Cardinality(crIn[c].members) \in Nat
         /\ CrCount(crIn, c) = Cardinality(crIn[c].members)
<1>1. crIn[c] \in CrInOf
  BY CrTyped
<1>2. IsFiniteSet(crIn[c].members) /\ Cardinality(crIn[c].members) \in Nat /\ CrCount(crIn, c) = Cardinality(crIn[c].members)
  BY CrFinite, CrTyped
<1> QED BY <1>1, <1>2 DEF CrInOf


LEMMA CrAddStudentSound == ASSUME RegisterInv, NEW r \in 1 .. CrSlots, CrAddStudent(r) PROVE RegisterInv'

<1>1. ASSUME NEW t \in CrTeachers, NEW c \in CrClasses, NEW s \in CrStudents, CrBegins(r, "add", c, s, CrNone, crRow[c])
      PROVE  RegisterInv'
  <2>1. "add" \in CrOps /\ crRow[c] \in CrRowOf
    BY <1>1, CrRowTyped DEF CrOps, CrOfStudent, CrSaveOps
  <2>2. CrAbout([op |-> "add", cls |-> c, who |-> s, arg |-> CrNone, agg |-> crRow[c], stage |-> "check", seen |-> <<>>])
    BY <1>1, <2>1 DEF CrAbout, CrOfStudent, CrSaveOps
  <2>3. c \in CrClasses /\ s \in CrStudents \cup {CrStudents, CrNone} /\ CrNone \in CrClasses \cup CrTeachers \cup CrGroups \cup {CrNone}
    BY <1>1, CrRowTyped
  <2> QED BY ONLY RegisterInv, r \in 1 .. CrSlots, <1>1, <2>1, <2>2, <2>3, CrBeginsSound
<1>2. ASSUME CrIs(r, "add", "check"),
             CrReads(r, crReqs[r].who \in crUsers \ crIn[crReqs[r].cls].members /\ CrCount(crIn, crReqs[r].cls) < crReqs[r].agg.cap)
      PROVE  RegisterInv'
  <2> DEFINE passes == crReqs[r].who \in crUsers \ crIn[crReqs[r].cls].members /\ CrCount(crIn, crReqs[r].cls) < crReqs[r].agg.cap
  <2>1. "add" \in CrOps
    BY DEF CrOps, CrOfStudent, CrSaveOps
  <2>2. passes \in BOOLEAN /\ (passes => CrCount(crIn, crReqs[r].cls) < crReqs[r].agg.cap)
    OBVIOUS
  <2>3. CrReads(r, passes)
    BY <1>2
  <2> HIDE DEF passes
  <2> QED BY ONLY RegisterInv, r \in 1 .. CrSlots, <1>2, <2>1, <2>2, <2>3, CrReadsSound
<1>3. ASSUME CrIs(r, "add", "write"),
             CrTables(r, CrTaken(crIn[crReqs[r].cls], {crReqs[r].who}))
      PROVE  RegisterInv'
  <2> DEFINE q == crReqs[r]
             c == q.cls
             old == crIn[c]
             in == CrTaken(old, {q.who})
  <2>1. "add" \in CrOps \ {"claim"}
    BY DEF CrOps, CrOfStudent, CrSaveOps
  <2>2. q \in CrReqOf /\ q.op = "add" /\ c \in CrClasses /\ CrAbout(q) /\ CrPassed(q) /\ q.stage = "write"
    BY <1>3, <2>1, CrBusy DEF CrReqOf
  <2>3. /\ old \in CrInOf
        /\ old.members \in SUBSET CrStudents /\ old.blocked \in SUBSET CrStudents
        /\ old.invited \in SUBSET CrStudents /\ old.co \in SUBSET CrTeachers
        /\ old.groups \in SUBSET CrGroups /\ old.made \in SUBSET CrGroups
        /\ old.group \in [CrStudents -> CrGroups \cup {CrNone}]
        /\ IsFiniteSet(old.members) /\ Cardinality(old.members) \in Nat
        /\ CrCount(crIn, c) = Cardinality(old.members)
    BY <2>2, CrInTyped
  <2>4. in \in CrInOf /\ in.members = old.members \cup {q.who} /\ in.blocked = old.blocked \ {q.who}
        /\ in.co = old.co /\ in.group = old.group
    BY <2>2, <2>3 DEF CrTaken, CrInOf, CrAbout, CrOfStudent
  <2> HIDE DEF in
  <2>5. \/ \A s \in CrStudents : (old.group[s] # CrNone => s \in old.members) =>
              (in.group[s] # CrNone => s \in in.members)
        \/ q.op = "group" /\ q.who \notin old.members
        \/ q.op = "remove" /\ old.group[q.who] # q.seen.in[c].group[q.who]
    BY <2>4
  <2>6. \/ old.members \cap old.blocked = {} => in.members \cap in.blocked = {}
        \/ q.op = "join" /\ q.who \in in.members \cap old.blocked
    BY <2>4
  <2>7. \/ Cardinality(in.members) <= Cardinality(old.members)
        \/ Cardinality(in.members) <= crRow[c].cap
        \/ CrCount(q.seen.in, c) # CrCount(crIn, c)
        \/ q.agg.cap # crRow[c].cap
    <3>1. CrCount(q.seen.in, c) < q.agg.cap /\ q.agg.cap \in Nat
      BY <2>2 DEF CrPassed, CrReqOf, CrRowOf
    <3>2. Cardinality(in.members) <= Cardinality(old.members) + 1 /\ Cardinality(in.members) \in Nat
      BY <2>3, <2>4, CrOneMore
    <3> QED BY <2>3, <3>1, <3>2
  <2>8. \/ in.co \in SUBSET old.co
        \/ crRow[c].alive /\ ((q.op = "addCo" /\ q.arg = crRow[c].owner) \/ crRow[c].owner \notin in.co \ old.co)
    BY <2>4
  <2> HIDE DEF in
  <2>9. CrTables(r, in)
    BY <1>3 DEF in
  <2> QED BY ONLY RegisterInv, r \in 1 .. CrSlots, <1>3, <2>1, <2>2, <2>4, <2>5, <2>6, <2>7, <2>8, <2>9, CrTablesSound
<1> QED BY <1>1, <1>2, <1>3 DEF CrAddStudent


LEMMA CrBulkAddSound == ASSUME RegisterInv, NEW r \in 1 .. CrSlots, CrBulkAdd(r) PROVE RegisterInv'

<1>1. ASSUME NEW t \in CrTeachers, NEW c \in CrClasses, CrBegins(r, "bulk", c, CrStudents, CrNone, crRow[c])
      PROVE  RegisterInv'
  <2>1. "bulk" \in CrOps /\ crRow[c] \in CrRowOf
    BY <1>1, CrRowTyped DEF CrOps, CrOfStudent, CrSaveOps
  <2>2. CrAbout([op |-> "bulk", cls |-> c, who |-> CrStudents, arg |-> CrNone, agg |-> crRow[c], stage |-> "check", seen |-> <<>>])
    BY <1>1, <2>1 DEF CrAbout, CrOfStudent, CrSaveOps
  <2>3. c \in CrClasses /\ CrStudents \in CrStudents \cup {CrStudents, CrNone} /\ CrNone \in CrClasses \cup CrTeachers \cup CrGroups \cup {CrNone}
    BY <1>1, CrRowTyped
  <2> QED BY ONLY RegisterInv, r \in 1 .. CrSlots, <1>1, <2>1, <2>2, <2>3, CrBeginsSound
<1>2. ASSUME CrIs(r, "bulk", "check"), CrReads(r, TRUE) PROVE RegisterInv'
  <2>1. "bulk" \in CrOps \ {"add", "join", "move"}
    BY DEF CrOps, CrOfStudent, CrSaveOps
  <2> QED BY <1>2, <2>1, CrReadsSound
<1>3. ASSUME CrIs(r, "bulk", "write"), NEW taken \in SUBSET ((crReqs[r].who \cap crReqs[r].seen.users) \ (crReqs[r].seen.in[crReqs[r].cls].members \cup crIn[crReqs[r].cls].members)),
             Cardinality(taken) <= crReqs[r].agg.cap - CrCount(crReqs[r].seen.in, crReqs[r].cls) \/ taken = {},
             CrTables(r, [CrTaken(crIn[crReqs[r].cls], taken) EXCEPT !.invited = @ \cup (crReqs[r].who \ crReqs[r].seen.users)])
      PROVE  RegisterInv'
  <2> DEFINE q == crReqs[r]
             c == q.cls
             old == crIn[c]
             in == [CrTaken(old, taken) EXCEPT !.invited = @ \cup (q.who \ q.seen.users)]
  <2>1. "bulk" \in CrOps \ {"claim"}
    BY DEF CrOps, CrOfStudent, CrSaveOps
  <2>2. q \in CrReqOf /\ q.op = "bulk" /\ c \in CrClasses /\ CrAbout(q) /\ CrPassed(q) /\ q.stage = "write"
    BY <1>3, <2>1, CrBusy DEF CrReqOf
  <2>3. /\ old \in CrInOf
        /\ old.members \in SUBSET CrStudents /\ old.blocked \in SUBSET CrStudents
        /\ old.invited \in SUBSET CrStudents /\ old.co \in SUBSET CrTeachers
        /\ old.groups \in SUBSET CrGroups /\ old.made \in SUBSET CrGroups
        /\ old.group \in [CrStudents -> CrGroups \cup {CrNone}]
        /\ IsFiniteSet(old.members) /\ Cardinality(old.members) \in Nat
        /\ CrCount(crIn, c) = Cardinality(old.members)
    BY <2>2, CrInTyped
  <2>4. in \in CrInOf /\ in.members = old.members \cup taken /\ in.blocked = old.blocked \ taken
        /\ in.co = old.co /\ in.group = old.group
    BY <2>2, <2>3, <1>3 DEF CrTaken, CrInOf, CrAbout
  <2> HIDE DEF in
  <2>5. \/ \A s \in CrStudents : (old.group[s] # CrNone => s \in old.members) =>
              (in.group[s] # CrNone => s \in in.members)
        \/ q.op = "group" /\ q.who \notin old.members
        \/ q.op = "remove" /\ old.group[q.who] # q.seen.in[c].group[q.who]
    BY <2>4
  <2>6. \/ old.members \cap old.blocked = {} => in.members \cap in.blocked = {}
        \/ q.op = "join" /\ q.who \in in.members \cap old.blocked
    BY <2>4
  <2>7. \/ Cardinality(in.members) <= Cardinality(old.members)
        \/ Cardinality(in.members) <= crRow[c].cap
        \/ CrCount(q.seen.in, c) # CrCount(crIn, c)
        \/ q.agg.cap # crRow[c].cap
    <3>1. taken \cap old.members = {} /\ IsFiniteSet(taken) /\ Cardinality(taken) \in Nat
      <4>1. taken \in SUBSET CrStudents
        BY <1>3, <2>2 DEF CrAbout
      <4>2. IsFiniteSet(taken)
        BY <4>1, FS_Subset, CrAssumption
      <4> QED BY <1>3, <4>2, FS_CardinalityType
    <3>2. Cardinality(in.members) = Cardinality(old.members) + Cardinality(taken)
      BY <2>3, <2>4, <3>1, CrSomeMore
    <3>3. q.agg.cap \in Nat
      BY <2>2 DEF CrReqOf, CrRowOf
    <3>4. CASE taken = {}
      BY <2>4, <2>3, <3>4
    <3>5. CASE Cardinality(taken) <= q.agg.cap - CrCount(q.seen.in, c)
      BY <2>3, <3>1, <3>2, <3>3, <3>5
    <3> QED BY <1>3, <3>4, <3>5
  <2>8. \/ in.co \in SUBSET old.co
        \/ crRow[c].alive /\ ((q.op = "addCo" /\ q.arg = crRow[c].owner) \/ crRow[c].owner \notin in.co \ old.co)
    BY <2>4
  <2> HIDE DEF in
  <2>9. CrTables(r, in)
    BY <1>3 DEF in
  <2> QED BY ONLY RegisterInv, r \in 1 .. CrSlots, <1>3, <2>1, <2>2, <2>4, <2>5, <2>6, <2>7, <2>8, <2>9, CrTablesSound
<1> QED BY <1>1, <1>2, <1>3 DEF CrBulkAdd


\* What a removal leaves.
LEMMA CrRemovedIs ==
  ASSUME NEW in \in CrInOf, NEW s \in CrStudents, NEW g
  PROVE  LET n == CrRemoved(in, s, g) IN
         /\ n \in CrInOf
         /\ n.members = in.members \ {s} /\ n.blocked = in.blocked \cup {s}
         /\ n.co = in.co /\ (\A p \in CrStudents : p # s => n.group[p] = in.group[p])
         /\ (in.group[s] = g => n.group[s] = CrNone)
<1> DEFINE u == CrUngrouped(in, s, g)
           n == [u EXCEPT !.members = @ \ {s}, !.blocked = @ \cup {s}]
<1>1. in.group \in [CrStudents -> CrGroups \cup {CrNone}]
  BY DEF CrInOf
<1>2. /\ u \in CrInOf /\ u.members = in.members /\ u.blocked = in.blocked /\ u.co = in.co
      /\ (\A p \in CrStudents : p # s => u.group[p] = in.group[p])
      /\ (in.group[s] = g => u.group[s] = CrNone)
  <2> DEFINE f == [in.group EXCEPT ![s] = CrNone]
             v == [in EXCEPT !.group = f]
  <2>1. f \in [CrStudents -> CrGroups \cup {CrNone}] /\ f[s] = CrNone /\ \A p \in CrStudents : p # s => f[p] = in.group[p]
    BY <1>1
  <2> HIDE DEF f
  <2>2. v \in CrInOf /\ v.members = in.members /\ v.blocked = in.blocked /\ v.co = in.co /\ v.group = f
    BY <2>1 DEF CrInOf
  <2>3. CASE in.group[s] = g
    <3>1. u = v
      BY <2>3 DEF CrUngrouped, f
    <3> HIDE DEF u, v
    <3> QED BY <2>1, <2>2, <3>1
  <2>4. CASE in.group[s] # g
    <3>1. u = in
      BY <2>4 DEF CrUngrouped
    <3> QED BY <2>4, <3>1
  <2> QED BY <2>3, <2>4
<1> HIDE DEF u
<1>3. n \in CrInOf /\ n.members = u.members \ {s} /\ n.blocked = u.blocked \cup {s} /\ n.co = u.co /\ n.group = u.group
  BY <1>2 DEF CrInOf
<1>4. n = CrRemoved(in, s, g)
  BY DEF CrRemoved, u
<1> HIDE DEF n
<1> QED BY <1>2, <1>3, <1>4


LEMMA CrRemoveStudentSound == ASSUME RegisterInv, NEW r \in 1 .. CrSlots, CrRemoveStudent(r) PROVE RegisterInv'

<1>1. ASSUME NEW t \in CrTeachers, NEW c \in CrClasses, NEW s \in CrStudents, CrBegins(r, "remove", c, s, CrNone, crRow[c])
      PROVE  RegisterInv'
  <2>1. "remove" \in CrOps /\ crRow[c] \in CrRowOf
    BY <1>1, CrRowTyped DEF CrOps, CrOfStudent, CrSaveOps
  <2>2. CrAbout([op |-> "remove", cls |-> c, who |-> s, arg |-> CrNone, agg |-> crRow[c], stage |-> "check", seen |-> <<>>])
    BY <1>1, <2>1 DEF CrAbout, CrOfStudent, CrSaveOps
  <2>3. c \in CrClasses /\ s \in CrStudents \cup {CrStudents, CrNone} /\ CrNone \in CrClasses \cup CrTeachers \cup CrGroups \cup {CrNone}
    BY <1>1, CrRowTyped
  <2> QED BY ONLY RegisterInv, r \in 1 .. CrSlots, <1>1, <2>1, <2>2, <2>3, CrBeginsSound
<1>2. ASSUME CrIs(r, "remove", "check"),
             CrReads(r, crReqs[r].who \in crIn[crReqs[r].cls].members)
      PROVE  RegisterInv'
  <2> DEFINE passes == crReqs[r].who \in crIn[crReqs[r].cls].members
  <2>1. "remove" \in CrOps \ {"add", "join", "move"}
    BY DEF CrOps, CrOfStudent, CrSaveOps
  <2>2. passes \in BOOLEAN
    OBVIOUS
  <2>3. CrReads(r, passes)
    BY <1>2
  <2> HIDE DEF passes
  <2> QED BY ONLY RegisterInv, r \in 1 .. CrSlots, <1>2, <2>1, <2>2, <2>3, CrReadsSound
<1>3. ASSUME CrIs(r, "remove", "write"),
             CrTables(r, CrRemoved(crIn[crReqs[r].cls], crReqs[r].who, crReqs[r].seen.in[crReqs[r].cls].group[crReqs[r].who]))
      PROVE  RegisterInv'
  <2> DEFINE q == crReqs[r]
             c == q.cls
             old == crIn[c]
             in == CrRemoved(old, q.who, q.seen.in[c].group[q.who])
  <2>1. "remove" \in CrOps \ {"claim"}
    BY DEF CrOps, CrOfStudent, CrSaveOps
  <2>2. q \in CrReqOf /\ q.op = "remove" /\ c \in CrClasses /\ CrAbout(q) /\ CrPassed(q) /\ q.stage = "write"
    BY <1>3, <2>1, CrBusy DEF CrReqOf
  <2>3. /\ old \in CrInOf
        /\ old.members \in SUBSET CrStudents /\ old.blocked \in SUBSET CrStudents
        /\ old.invited \in SUBSET CrStudents /\ old.co \in SUBSET CrTeachers
        /\ old.groups \in SUBSET CrGroups /\ old.made \in SUBSET CrGroups
        /\ old.group \in [CrStudents -> CrGroups \cup {CrNone}]
        /\ IsFiniteSet(old.members) /\ Cardinality(old.members) \in Nat
        /\ CrCount(crIn, c) = Cardinality(old.members)
    BY <2>2, CrInTyped
  <2>a. q.who \in CrStudents
    BY <2>2 DEF CrAbout, CrOfStudent
  <2>4. in \in CrInOf /\ in.members = old.members \ {q.who} /\ in.blocked = old.blocked \cup {q.who}
        /\ in.co = old.co /\ (\A s \in CrStudents : s # q.who => in.group[s] = old.group[s])
        /\ (old.group[q.who] = q.seen.in[c].group[q.who] => in.group[q.who] = CrNone)
    <3>1. old \in CrInOf
      BY <2>3
    <3> DEFINE g == q.seen.in[c].group[q.who]
               s0 == q.who
    <3>2. s0 \in CrStudents
      BY <2>a
    <3> HIDE DEF old, g, s0
    <3>3. LET n == CrRemoved(old, s0, g) IN
          /\ n \in CrInOf
          /\ n.members = old.members \ {s0} /\ n.blocked = old.blocked \cup {s0}
          /\ n.co = old.co /\ (\A p \in CrStudents : p # s0 => n.group[p] = old.group[p])
          /\ (old.group[s0] = g => n.group[s0] = CrNone)
      BY <3>1, <3>2, CrRemovedIs
    <3> QED BY <3>3 DEF old, g, s0
  <2> HIDE DEF in
  <2>5. \/ \A s \in CrStudents : (old.group[s] # CrNone => s \in old.members) =>
              (in.group[s] # CrNone => s \in in.members)
        \/ q.op = "group" /\ q.who \notin old.members
        \/ q.op = "remove" /\ old.group[q.who] # q.seen.in[c].group[q.who]
    BY <2>2, <2>4
  <2>6. \/ old.members \cap old.blocked = {} => in.members \cap in.blocked = {}
        \/ q.op = "join" /\ q.who \in in.members \cap old.blocked
    BY <2>4
  <2>7. \/ Cardinality(in.members) <= Cardinality(old.members)
        \/ Cardinality(in.members) <= crRow[c].cap
        \/ CrCount(q.seen.in, c) # CrCount(crIn, c)
        \/ q.agg.cap # crRow[c].cap
    <3>1. Cardinality(in.members) <= Cardinality(old.members)
      BY <2>3, <2>4, FS_Subset
    <3> QED BY <3>1
  <2>8. \/ in.co \in SUBSET old.co
        \/ crRow[c].alive /\ ((q.op = "addCo" /\ q.arg = crRow[c].owner) \/ crRow[c].owner \notin in.co \ old.co)
    BY <2>4
  <2> HIDE DEF in
  <2>9. CrTables(r, in)
    BY <1>3 DEF in
  <2> QED BY ONLY RegisterInv, r \in 1 .. CrSlots, <1>3, <2>1, <2>2, <2>4, <2>5, <2>6, <2>7, <2>8, <2>9, CrTablesSound
<1> QED BY <1>1, <1>2, <1>3 DEF CrRemoveStudent


LEMMA CrJoinSound == ASSUME RegisterInv, NEW r \in 1 .. CrSlots, CrJoin(r) PROVE RegisterInv'

<1>1. ASSUME NEW c \in CrClasses, NEW s \in CrStudents, CrBegins(r, "join", c, s, CrNone, crRow[c])
      PROVE  RegisterInv'
  <2>1. "join" \in CrOps /\ crRow[c] \in CrRowOf
    BY <1>1, CrRowTyped DEF CrOps, CrOfStudent, CrSaveOps
  <2>2. CrAbout([op |-> "join", cls |-> c, who |-> s, arg |-> CrNone, agg |-> crRow[c], stage |-> "check", seen |-> <<>>])
    BY <1>1, <2>1 DEF CrAbout, CrOfStudent, CrSaveOps
  <2>3. c \in CrClasses /\ s \in CrStudents \cup {CrStudents, CrNone} /\ CrNone \in CrClasses \cup CrTeachers \cup CrGroups \cup {CrNone}
    BY <1>1, CrRowTyped
  <2> QED BY ONLY RegisterInv, r \in 1 .. CrSlots, <1>1, <2>1, <2>2, <2>3, CrBeginsSound
<1>2. ASSUME CrIs(r, "join", "check"),
             CrReads(r, /\ crReqs[r].who \notin crIn[crReqs[r].cls].members \cup crIn[crReqs[r].cls].blocked
                   /\ CrCount(crIn, crReqs[r].cls) < crReqs[r].agg.cap)
      PROVE  RegisterInv'
  <2> DEFINE passes == /\ crReqs[r].who \notin crIn[crReqs[r].cls].members \cup crIn[crReqs[r].cls].blocked
                   /\ CrCount(crIn, crReqs[r].cls) < crReqs[r].agg.cap
  <2>1. "join" \in CrOps
    BY DEF CrOps, CrOfStudent, CrSaveOps
  <2>2. passes \in BOOLEAN /\ (passes => CrCount(crIn, crReqs[r].cls) < crReqs[r].agg.cap)
    OBVIOUS
  <2>3. CrReads(r, passes)
    BY <1>2
  <2> HIDE DEF passes
  <2> QED BY ONLY RegisterInv, r \in 1 .. CrSlots, <1>2, <2>1, <2>2, <2>3, CrReadsSound
<1>3. ASSUME CrIs(r, "join", "write"),
             CrTables(r, [crIn[crReqs[r].cls] EXCEPT !.members = @ \cup {crReqs[r].who}])
      PROVE  RegisterInv'
  <2> DEFINE q == crReqs[r]
             c == q.cls
             old == crIn[c]
             in == [old EXCEPT !.members = @ \cup {q.who}]
  <2>1. "join" \in CrOps \ {"claim"}
    BY DEF CrOps, CrOfStudent, CrSaveOps
  <2>2. q \in CrReqOf /\ q.op = "join" /\ c \in CrClasses /\ CrAbout(q) /\ CrPassed(q) /\ q.stage = "write"
    BY <1>3, <2>1, CrBusy DEF CrReqOf
  <2>3. /\ old \in CrInOf
        /\ old.members \in SUBSET CrStudents /\ old.blocked \in SUBSET CrStudents
        /\ old.invited \in SUBSET CrStudents /\ old.co \in SUBSET CrTeachers
        /\ old.groups \in SUBSET CrGroups /\ old.made \in SUBSET CrGroups
        /\ old.group \in [CrStudents -> CrGroups \cup {CrNone}]
        /\ IsFiniteSet(old.members) /\ Cardinality(old.members) \in Nat
        /\ CrCount(crIn, c) = Cardinality(old.members)
    BY <2>2, CrInTyped
  <2>4. in \in CrInOf /\ in.members = old.members \cup {q.who} /\ in.blocked = old.blocked
        /\ in.co = old.co /\ in.group = old.group
    BY <2>2, <2>3 DEF CrInOf, CrAbout, CrOfStudent
  <2> HIDE DEF in
  <2>5. \/ \A s \in CrStudents : (old.group[s] # CrNone => s \in old.members) =>
              (in.group[s] # CrNone => s \in in.members)
        \/ q.op = "group" /\ q.who \notin old.members
        \/ q.op = "remove" /\ old.group[q.who] # q.seen.in[c].group[q.who]
    BY <2>4
  <2>6. \/ old.members \cap old.blocked = {} => in.members \cap in.blocked = {}
        \/ q.op = "join" /\ q.who \in in.members \cap old.blocked
    BY <2>2, <2>4
  <2>7. \/ Cardinality(in.members) <= Cardinality(old.members)
        \/ Cardinality(in.members) <= crRow[c].cap
        \/ CrCount(q.seen.in, c) # CrCount(crIn, c)
        \/ q.agg.cap # crRow[c].cap
    <3>1. CrCount(q.seen.in, c) < q.agg.cap /\ q.agg.cap \in Nat
      BY <2>2 DEF CrPassed, CrReqOf, CrRowOf
    <3>2. Cardinality(in.members) <= Cardinality(old.members) + 1 /\ Cardinality(in.members) \in Nat
      BY <2>3, <2>4, CrOneMore
    <3> QED BY <2>3, <3>1, <3>2
  <2>8. \/ in.co \in SUBSET old.co
        \/ crRow[c].alive /\ ((q.op = "addCo" /\ q.arg = crRow[c].owner) \/ crRow[c].owner \notin in.co \ old.co)
    BY <2>4
  <2> HIDE DEF in
  <2>9. CrTables(r, in)
    BY <1>3 DEF in
  <2> QED BY ONLY RegisterInv, r \in 1 .. CrSlots, <1>3, <2>1, <2>2, <2>4, <2>5, <2>6, <2>7, <2>8, <2>9, CrTablesSound
<1> QED BY CrTyped, <1>1, <1>2, <1>3 DEF CrJoin


LEMMA CrRevokeSound == ASSUME RegisterInv, NEW r \in 1 .. CrSlots, CrRevoke(r) PROVE RegisterInv'

<1>1. ASSUME NEW t \in CrTeachers, NEW c \in CrClasses, NEW s \in CrStudents, CrBegins(r, "revoke", c, s, CrNone, crRow[c])
      PROVE  RegisterInv'
  <2>1. "revoke" \in CrOps /\ crRow[c] \in CrRowOf
    BY <1>1, CrRowTyped DEF CrOps, CrOfStudent, CrSaveOps
  <2>2. CrAbout([op |-> "revoke", cls |-> c, who |-> s, arg |-> CrNone, agg |-> crRow[c], stage |-> "check", seen |-> <<>>])
    BY <1>1, <2>1 DEF CrAbout, CrOfStudent, CrSaveOps
  <2>3. c \in CrClasses /\ s \in CrStudents \cup {CrStudents, CrNone} /\ CrNone \in CrClasses \cup CrTeachers \cup CrGroups \cup {CrNone}
    BY <1>1, CrRowTyped
  <2> QED BY ONLY RegisterInv, r \in 1 .. CrSlots, <1>1, <2>1, <2>2, <2>3, CrBeginsSound
<1>2. ASSUME CrIs(r, "revoke", "check"),
             CrReads(r, crReqs[r].who \in crIn[crReqs[r].cls].invited)
      PROVE  RegisterInv'
  <2> DEFINE passes == crReqs[r].who \in crIn[crReqs[r].cls].invited
  <2>1. "revoke" \in CrOps \ {"add", "join", "move"}
    BY DEF CrOps, CrOfStudent, CrSaveOps
  <2>2. passes \in BOOLEAN
    OBVIOUS
  <2>3. CrReads(r, passes)
    BY <1>2
  <2> HIDE DEF passes
  <2> QED BY ONLY RegisterInv, r \in 1 .. CrSlots, <1>2, <2>1, <2>2, <2>3, CrReadsSound
<1>3. ASSUME CrIs(r, "revoke", "write"),
             CrTables(r, [crIn[crReqs[r].cls] EXCEPT !.invited = @ \ {crReqs[r].who}])
      PROVE  RegisterInv'
  <2> DEFINE q == crReqs[r]
             c == q.cls
             old == crIn[c]
             in == [old EXCEPT !.invited = @ \ {q.who}]
  <2>1. "revoke" \in CrOps \ {"claim"}
    BY DEF CrOps, CrOfStudent, CrSaveOps
  <2>2. q \in CrReqOf /\ q.op = "revoke" /\ c \in CrClasses /\ CrAbout(q) /\ CrPassed(q) /\ q.stage = "write"
    BY <1>3, <2>1, CrBusy DEF CrReqOf
  <2>3. /\ old \in CrInOf
        /\ old.members \in SUBSET CrStudents /\ old.blocked \in SUBSET CrStudents
        /\ old.invited \in SUBSET CrStudents /\ old.co \in SUBSET CrTeachers
        /\ old.groups \in SUBSET CrGroups /\ old.made \in SUBSET CrGroups
        /\ old.group \in [CrStudents -> CrGroups \cup {CrNone}]
        /\ IsFiniteSet(old.members) /\ Cardinality(old.members) \in Nat
        /\ CrCount(crIn, c) = Cardinality(old.members)
    BY <2>2, CrInTyped
  <2>4. in \in CrInOf /\ in.members = old.members /\ in.blocked = old.blocked
        /\ in.co = old.co /\ in.group = old.group
    BY <2>3 DEF CrInOf
  <2> HIDE DEF in
  <2>5. \/ \A s \in CrStudents : (old.group[s] # CrNone => s \in old.members) =>
              (in.group[s] # CrNone => s \in in.members)
        \/ q.op = "group" /\ q.who \notin old.members
        \/ q.op = "remove" /\ old.group[q.who] # q.seen.in[c].group[q.who]
    BY <2>4
  <2>6. \/ old.members \cap old.blocked = {} => in.members \cap in.blocked = {}
        \/ q.op = "join" /\ q.who \in in.members \cap old.blocked
    BY <2>4
  <2>7. \/ Cardinality(in.members) <= Cardinality(old.members)
        \/ Cardinality(in.members) <= crRow[c].cap
        \/ CrCount(q.seen.in, c) # CrCount(crIn, c)
        \/ q.agg.cap # crRow[c].cap
    BY <2>3, <2>4
  <2>8. \/ in.co \in SUBSET old.co
        \/ crRow[c].alive /\ ((q.op = "addCo" /\ q.arg = crRow[c].owner) \/ crRow[c].owner \notin in.co \ old.co)
    BY <2>4
  <2> HIDE DEF in
  <2>9. CrTables(r, in)
    BY <1>3 DEF in
  <2> QED BY ONLY RegisterInv, r \in 1 .. CrSlots, <1>3, <2>1, <2>2, <2>4, <2>5, <2>6, <2>7, <2>8, <2>9, CrTablesSound
<1> QED BY <1>1, <1>2, <1>3 DEF CrRevoke


LEMMA CrNewGroupSound == ASSUME RegisterInv, NEW r \in 1 .. CrSlots, CrNewGroup(r) PROVE RegisterInv'

<1>1. ASSUME NEW t \in CrTeachers, NEW c \in CrClasses, NEW g \in CrGroups, CrBegins(r, "newGroup", c, CrNone, g, crRow[c])
      PROVE  RegisterInv'
  <2>1. "newGroup" \in CrOps /\ crRow[c] \in CrRowOf
    BY <1>1, CrRowTyped DEF CrOps, CrOfStudent, CrSaveOps
  <2>2. CrAbout([op |-> "newGroup", cls |-> c, who |-> CrNone, arg |-> g, agg |-> crRow[c], stage |-> "check", seen |-> <<>>])
    BY <1>1, <2>1 DEF CrAbout, CrOfStudent, CrSaveOps
  <2>3. c \in CrClasses /\ CrNone \in CrStudents \cup {CrStudents, CrNone} /\ g \in CrClasses \cup CrTeachers \cup CrGroups \cup {CrNone}
    BY <1>1, CrRowTyped
  <2> QED BY ONLY RegisterInv, r \in 1 .. CrSlots, <1>1, <2>1, <2>2, <2>3, CrBeginsSound
<1>2. ASSUME CrIs(r, "newGroup", "check"), CrReads(r, TRUE) PROVE RegisterInv'
  <2>1. "newGroup" \in CrOps \ {"add", "join", "move"}
    BY DEF CrOps, CrOfStudent, CrSaveOps
  <2> QED BY <1>2, <2>1, CrReadsSound
<1>3. ASSUME CrIs(r, "newGroup", "write"),
             CrTables(r, [crIn[crReqs[r].cls] EXCEPT !.groups = @ \cup {crReqs[r].arg}, !.made = @ \cup {crReqs[r].arg}])
      PROVE  RegisterInv'
  <2> DEFINE q == crReqs[r]
             c == q.cls
             old == crIn[c]
             in == [old EXCEPT !.groups = @ \cup {q.arg}, !.made = @ \cup {q.arg}]
  <2>1. "newGroup" \in CrOps \ {"claim"}
    BY DEF CrOps, CrOfStudent, CrSaveOps
  <2>2. q \in CrReqOf /\ q.op = "newGroup" /\ c \in CrClasses /\ CrAbout(q) /\ CrPassed(q) /\ q.stage = "write"
    BY <1>3, <2>1, CrBusy DEF CrReqOf
  <2>3. /\ old \in CrInOf
        /\ old.members \in SUBSET CrStudents /\ old.blocked \in SUBSET CrStudents
        /\ old.invited \in SUBSET CrStudents /\ old.co \in SUBSET CrTeachers
        /\ old.groups \in SUBSET CrGroups /\ old.made \in SUBSET CrGroups
        /\ old.group \in [CrStudents -> CrGroups \cup {CrNone}]
        /\ IsFiniteSet(old.members) /\ Cardinality(old.members) \in Nat
        /\ CrCount(crIn, c) = Cardinality(old.members)
    BY <2>2, CrInTyped
  <2>4. in \in CrInOf /\ in.members = old.members /\ in.blocked = old.blocked
        /\ in.co = old.co /\ in.group = old.group
    BY <2>2, <2>3 DEF CrInOf, CrAbout
  <2> HIDE DEF in
  <2>5. \/ \A s \in CrStudents : (old.group[s] # CrNone => s \in old.members) =>
              (in.group[s] # CrNone => s \in in.members)
        \/ q.op = "group" /\ q.who \notin old.members
        \/ q.op = "remove" /\ old.group[q.who] # q.seen.in[c].group[q.who]
    BY <2>4
  <2>6. \/ old.members \cap old.blocked = {} => in.members \cap in.blocked = {}
        \/ q.op = "join" /\ q.who \in in.members \cap old.blocked
    BY <2>4
  <2>7. \/ Cardinality(in.members) <= Cardinality(old.members)
        \/ Cardinality(in.members) <= crRow[c].cap
        \/ CrCount(q.seen.in, c) # CrCount(crIn, c)
        \/ q.agg.cap # crRow[c].cap
    BY <2>3, <2>4
  <2>8. \/ in.co \in SUBSET old.co
        \/ crRow[c].alive /\ ((q.op = "addCo" /\ q.arg = crRow[c].owner) \/ crRow[c].owner \notin in.co \ old.co)
    BY <2>4
  <2> HIDE DEF in
  <2>9. CrTables(r, in)
    BY <1>3 DEF in
  <2> QED BY ONLY RegisterInv, r \in 1 .. CrSlots, <1>3, <2>1, <2>2, <2>4, <2>5, <2>6, <2>7, <2>8, <2>9, CrTablesSound
<1> QED BY <1>1, <1>2, <1>3 DEF CrNewGroup


LEMMA CrDropGroupSound == ASSUME RegisterInv, NEW r \in 1 .. CrSlots, CrDropGroup(r) PROVE RegisterInv'

<1>1. ASSUME NEW t \in CrTeachers, NEW c \in CrClasses, NEW g \in CrGroups, CrBegins(r, "dropGroup", c, CrNone, g, crRow[c])
      PROVE  RegisterInv'
  <2>1. "dropGroup" \in CrOps /\ crRow[c] \in CrRowOf
    BY <1>1, CrRowTyped DEF CrOps, CrOfStudent, CrSaveOps
  <2>2. CrAbout([op |-> "dropGroup", cls |-> c, who |-> CrNone, arg |-> g, agg |-> crRow[c], stage |-> "check", seen |-> <<>>])
    BY <1>1, <2>1 DEF CrAbout, CrOfStudent, CrSaveOps
  <2>3. c \in CrClasses /\ CrNone \in CrStudents \cup {CrStudents, CrNone} /\ g \in CrClasses \cup CrTeachers \cup CrGroups \cup {CrNone}
    BY <1>1, CrRowTyped
  <2> QED BY ONLY RegisterInv, r \in 1 .. CrSlots, <1>1, <2>1, <2>2, <2>3, CrBeginsSound
<1>2. ASSUME CrIs(r, "dropGroup", "check"),
             CrReads(r, crReqs[r].arg \in crIn[crReqs[r].cls].groups)
      PROVE  RegisterInv'
  <2> DEFINE passes == crReqs[r].arg \in crIn[crReqs[r].cls].groups
  <2>1. "dropGroup" \in CrOps \ {"add", "join", "move"}
    BY DEF CrOps, CrOfStudent, CrSaveOps
  <2>2. passes \in BOOLEAN
    OBVIOUS
  <2>3. CrReads(r, passes)
    BY <1>2
  <2> HIDE DEF passes
  <2> QED BY ONLY RegisterInv, r \in 1 .. CrSlots, <1>2, <2>1, <2>2, <2>3, CrReadsSound
<1>3. ASSUME CrIs(r, "dropGroup", "write"),
             CrTables(r, [crIn[crReqs[r].cls] EXCEPT !.groups = @ \ {crReqs[r].arg},
               !.group = [s \in CrStudents |-> IF @[s] = crReqs[r].arg THEN CrNone ELSE @[s]]])
      PROVE  RegisterInv'
  <2> DEFINE q == crReqs[r]
             c == q.cls
             old == crIn[c]
             in == [old EXCEPT !.groups = @ \ {q.arg}, !.group = [s \in CrStudents |-> IF @[s] = q.arg THEN CrNone ELSE @[s]]]
  <2>1. "dropGroup" \in CrOps \ {"claim"}
    BY DEF CrOps, CrOfStudent, CrSaveOps
  <2>2. q \in CrReqOf /\ q.op = "dropGroup" /\ c \in CrClasses /\ CrAbout(q) /\ CrPassed(q) /\ q.stage = "write"
    BY <1>3, <2>1, CrBusy DEF CrReqOf
  <2>3. /\ old \in CrInOf
        /\ old.members \in SUBSET CrStudents /\ old.blocked \in SUBSET CrStudents
        /\ old.invited \in SUBSET CrStudents /\ old.co \in SUBSET CrTeachers
        /\ old.groups \in SUBSET CrGroups /\ old.made \in SUBSET CrGroups
        /\ old.group \in [CrStudents -> CrGroups \cup {CrNone}]
        /\ IsFiniteSet(old.members) /\ Cardinality(old.members) \in Nat
        /\ CrCount(crIn, c) = Cardinality(old.members)
    BY <2>2, CrInTyped
  <2>4. in \in CrInOf /\ in.members = old.members /\ in.blocked = old.blocked
        /\ in.co = old.co /\ (\A s \in CrStudents : in.group[s] \in {old.group[s], CrNone})
    <3> DEFINE f == [s \in CrStudents |-> IF old.group[s] = q.arg THEN CrNone ELSE old.group[s]]
               k == old.groups \ {q.arg}
    <3>1. f \in [CrStudents -> CrGroups \cup {CrNone}] /\ k \in SUBSET CrGroups /\ \A s \in CrStudents : f[s] \in {old.group[s], CrNone}
      BY <2>3
    <3> HIDE DEF f, k
    <3>2. in = [old EXCEPT !.groups = k, !.group = f]
      BY DEF f, k
    <3> HIDE DEF in
    <3>3. /\ in \in CrInOf /\ in.members = old.members /\ in.blocked = old.blocked
          /\ in.co = old.co /\ in.group = f
      BY <2>3, <3>1, <3>2 DEF CrInOf
    <3> QED BY <3>1, <3>3
  <2> HIDE DEF in
  <2>5. \/ \A s \in CrStudents : (old.group[s] # CrNone => s \in old.members) =>
              (in.group[s] # CrNone => s \in in.members)
        \/ q.op = "group" /\ q.who \notin old.members
        \/ q.op = "remove" /\ old.group[q.who] # q.seen.in[c].group[q.who]
    BY <2>4
  <2>6. \/ old.members \cap old.blocked = {} => in.members \cap in.blocked = {}
        \/ q.op = "join" /\ q.who \in in.members \cap old.blocked
    BY <2>4
  <2>7. \/ Cardinality(in.members) <= Cardinality(old.members)
        \/ Cardinality(in.members) <= crRow[c].cap
        \/ CrCount(q.seen.in, c) # CrCount(crIn, c)
        \/ q.agg.cap # crRow[c].cap
    BY <2>3, <2>4
  <2>8. \/ in.co \in SUBSET old.co
        \/ crRow[c].alive /\ ((q.op = "addCo" /\ q.arg = crRow[c].owner) \/ crRow[c].owner \notin in.co \ old.co)
    BY <2>4
  <2> HIDE DEF in
  <2>9. CrTables(r, in)
    BY <1>3 DEF in
  <2> QED BY ONLY RegisterInv, r \in 1 .. CrSlots, <1>3, <2>1, <2>2, <2>4, <2>5, <2>6, <2>7, <2>8, <2>9, CrTablesSound
<1> QED BY <1>1, <1>2, <1>3 DEF CrDropGroup


LEMMA CrAddGroupMemberSound == ASSUME RegisterInv, NEW r \in 1 .. CrSlots, CrAddGroupMember(r) PROVE RegisterInv'

<1>1. ASSUME NEW t \in CrTeachers, NEW c \in CrClasses, NEW s \in CrStudents, NEW g \in CrGroups, CrBegins(r, "group", c, s, g, crRow[c])
      PROVE  RegisterInv'
  <2>1. "group" \in CrOps /\ crRow[c] \in CrRowOf
    BY <1>1, CrRowTyped DEF CrOps, CrOfStudent, CrSaveOps
  <2>2. CrAbout([op |-> "group", cls |-> c, who |-> s, arg |-> g, agg |-> crRow[c], stage |-> "check", seen |-> <<>>])
    BY <1>1, <2>1 DEF CrAbout, CrOfStudent, CrSaveOps
  <2>3. c \in CrClasses /\ s \in CrStudents \cup {CrStudents, CrNone} /\ g \in CrClasses \cup CrTeachers \cup CrGroups \cup {CrNone}
    BY <1>1, CrRowTyped
  <2> QED BY ONLY RegisterInv, r \in 1 .. CrSlots, <1>1, <2>1, <2>2, <2>3, CrBeginsSound
<1>2. ASSUME CrIs(r, "group", "check"),
             CrReads(r, LET in == crIn[crReqs[r].cls] IN
               crReqs[r].arg \in in.groups /\ crReqs[r].who \in in.members /\ in.group[crReqs[r].who] # crReqs[r].arg)
      PROVE  RegisterInv'
  <2> DEFINE passes == LET in == crIn[crReqs[r].cls] IN
               crReqs[r].arg \in in.groups /\ crReqs[r].who \in in.members /\ in.group[crReqs[r].who] # crReqs[r].arg
  <2>1. "group" \in CrOps \ {"add", "join", "move"}
    BY DEF CrOps, CrOfStudent, CrSaveOps
  <2>2. passes \in BOOLEAN
    OBVIOUS
  <2>3. CrReads(r, passes)
    BY <1>2
  <2> HIDE DEF passes
  <2> QED BY ONLY RegisterInv, r \in 1 .. CrSlots, <1>2, <2>1, <2>2, <2>3, CrReadsSound
<1>3. ASSUME CrIs(r, "group", "write"),
             CrTables(r, [crIn[crReqs[r].cls] EXCEPT !.group[crReqs[r].who] = crReqs[r].arg])
      PROVE  RegisterInv'
  <2> DEFINE q == crReqs[r]
             c == q.cls
             old == crIn[c]
             in == [old EXCEPT !.group[q.who] = q.arg]
  <2>1. "group" \in CrOps \ {"claim"}
    BY DEF CrOps, CrOfStudent, CrSaveOps
  <2>2. q \in CrReqOf /\ q.op = "group" /\ c \in CrClasses /\ CrAbout(q) /\ CrPassed(q) /\ q.stage = "write"
    BY <1>3, <2>1, CrBusy DEF CrReqOf
  <2>3. /\ old \in CrInOf
        /\ old.members \in SUBSET CrStudents /\ old.blocked \in SUBSET CrStudents
        /\ old.invited \in SUBSET CrStudents /\ old.co \in SUBSET CrTeachers
        /\ old.groups \in SUBSET CrGroups /\ old.made \in SUBSET CrGroups
        /\ old.group \in [CrStudents -> CrGroups \cup {CrNone}]
        /\ IsFiniteSet(old.members) /\ Cardinality(old.members) \in Nat
        /\ CrCount(crIn, c) = Cardinality(old.members)
    BY <2>2, CrInTyped
  <2>4. in \in CrInOf /\ in.members = old.members /\ in.blocked = old.blocked
        /\ in.co = old.co /\ (\A s \in CrStudents : s # q.who => in.group[s] = old.group[s])
    <3> DEFINE f == [old.group EXCEPT ![q.who] = q.arg]
    <3>1. f \in [CrStudents -> CrGroups \cup {CrNone}] /\ \A s \in CrStudents : s # q.who => f[s] = old.group[s]
      BY <2>2, <2>3 DEF CrAbout, CrOfStudent
    <3>2. in = [old EXCEPT !.group = f]
      BY DEF f
    <3> HIDE DEF f, in
    <3>3. /\ in \in CrInOf /\ in.members = old.members /\ in.blocked = old.blocked
          /\ in.co = old.co /\ in.group = f
      BY <2>3, <3>1, <3>2 DEF CrInOf
    <3> QED BY <3>1, <3>3
  <2> HIDE DEF in
  <2>5. \/ \A s \in CrStudents : (old.group[s] # CrNone => s \in old.members) =>
              (in.group[s] # CrNone => s \in in.members)
        \/ q.op = "group" /\ q.who \notin old.members
        \/ q.op = "remove" /\ old.group[q.who] # q.seen.in[c].group[q.who]
    BY <2>2, <2>4
  <2>6. \/ old.members \cap old.blocked = {} => in.members \cap in.blocked = {}
        \/ q.op = "join" /\ q.who \in in.members \cap old.blocked
    BY <2>4
  <2>7. \/ Cardinality(in.members) <= Cardinality(old.members)
        \/ Cardinality(in.members) <= crRow[c].cap
        \/ CrCount(q.seen.in, c) # CrCount(crIn, c)
        \/ q.agg.cap # crRow[c].cap
    BY <2>3, <2>4
  <2>8. \/ in.co \in SUBSET old.co
        \/ crRow[c].alive /\ ((q.op = "addCo" /\ q.arg = crRow[c].owner) \/ crRow[c].owner \notin in.co \ old.co)
    BY <2>4
  <2> HIDE DEF in
  <2>9. CrTables(r, in)
    BY <1>3 DEF in
  <2> QED BY ONLY RegisterInv, r \in 1 .. CrSlots, <1>3, <2>1, <2>2, <2>4, <2>5, <2>6, <2>7, <2>8, <2>9, CrTablesSound
<1> QED BY <1>1, <1>2, <1>3 DEF CrAddGroupMember


LEMMA CrRemoveGroupMemberSound == ASSUME RegisterInv, NEW r \in 1 .. CrSlots, CrRemoveGroupMember(r) PROVE RegisterInv'

<1>1. ASSUME NEW t \in CrTeachers, NEW c \in CrClasses, NEW s \in CrStudents, NEW g \in CrGroups, CrBegins(r, "ungroup", c, s, g, crRow[c])
      PROVE  RegisterInv'
  <2>1. "ungroup" \in CrOps /\ crRow[c] \in CrRowOf
    BY <1>1, CrRowTyped DEF CrOps, CrOfStudent, CrSaveOps
  <2>2. CrAbout([op |-> "ungroup", cls |-> c, who |-> s, arg |-> g, agg |-> crRow[c], stage |-> "check", seen |-> <<>>])
    BY <1>1, <2>1 DEF CrAbout, CrOfStudent, CrSaveOps
  <2>3. c \in CrClasses /\ s \in CrStudents \cup {CrStudents, CrNone} /\ g \in CrClasses \cup CrTeachers \cup CrGroups \cup {CrNone}
    BY <1>1, CrRowTyped
  <2> QED BY ONLY RegisterInv, r \in 1 .. CrSlots, <1>1, <2>1, <2>2, <2>3, CrBeginsSound
<1>2. ASSUME CrIs(r, "ungroup", "check"),
             CrReads(r, crIn[crReqs[r].cls].group[crReqs[r].who] = crReqs[r].arg)
      PROVE  RegisterInv'
  <2> DEFINE passes == crIn[crReqs[r].cls].group[crReqs[r].who] = crReqs[r].arg
  <2>1. "ungroup" \in CrOps \ {"add", "join", "move"}
    BY DEF CrOps, CrOfStudent, CrSaveOps
  <2>2. passes \in BOOLEAN
    OBVIOUS
  <2>3. CrReads(r, passes)
    BY <1>2
  <2> HIDE DEF passes
  <2> QED BY ONLY RegisterInv, r \in 1 .. CrSlots, <1>2, <2>1, <2>2, <2>3, CrReadsSound
<1>3. ASSUME CrIs(r, "ungroup", "write"),
             CrTables(r, CrUngrouped(crIn[crReqs[r].cls], crReqs[r].who, crReqs[r].arg))
      PROVE  RegisterInv'
  <2> DEFINE q == crReqs[r]
             c == q.cls
             old == crIn[c]
             in == CrUngrouped(old, q.who, q.arg)
  <2>1. "ungroup" \in CrOps \ {"claim"}
    BY DEF CrOps, CrOfStudent, CrSaveOps
  <2>2. q \in CrReqOf /\ q.op = "ungroup" /\ c \in CrClasses /\ CrAbout(q) /\ CrPassed(q) /\ q.stage = "write"
    BY <1>3, <2>1, CrBusy DEF CrReqOf
  <2>3. /\ old \in CrInOf
        /\ old.members \in SUBSET CrStudents /\ old.blocked \in SUBSET CrStudents
        /\ old.invited \in SUBSET CrStudents /\ old.co \in SUBSET CrTeachers
        /\ old.groups \in SUBSET CrGroups /\ old.made \in SUBSET CrGroups
        /\ old.group \in [CrStudents -> CrGroups \cup {CrNone}]
        /\ IsFiniteSet(old.members) /\ Cardinality(old.members) \in Nat
        /\ CrCount(crIn, c) = Cardinality(old.members)
    BY <2>2, CrInTyped
  <2>4. in \in CrInOf /\ in.members = old.members /\ in.blocked = old.blocked
        /\ in.co = old.co /\ (\A s \in CrStudents : in.group[s] \in {old.group[s], CrNone})
    <3> DEFINE f == [old.group EXCEPT ![q.who] = CrNone]
               v == [old EXCEPT !.group = f]
    <3>1. f \in [CrStudents -> CrGroups \cup {CrNone}] /\ \A s \in CrStudents : f[s] \in {old.group[s], CrNone}
      BY <2>2, <2>3 DEF CrAbout, CrOfStudent
    <3>2. in = v \/ in = old
      BY DEF CrUngrouped
    <3> HIDE DEF f, in
    <3>3. v \in CrInOf /\ v.members = old.members /\ v.blocked = old.blocked /\ v.co = old.co /\ v.group = f
      BY <2>3, <3>1 DEF CrInOf
    <3>4. CASE in = old
      BY <2>3, <3>4
    <3>5. CASE in = v
      BY <3>1, <3>3, <3>5
    <3> QED BY <3>2, <3>4, <3>5
  <2> HIDE DEF in
  <2>5. \/ \A s \in CrStudents : (old.group[s] # CrNone => s \in old.members) =>
              (in.group[s] # CrNone => s \in in.members)
        \/ q.op = "group" /\ q.who \notin old.members
        \/ q.op = "remove" /\ old.group[q.who] # q.seen.in[c].group[q.who]
    BY <2>4
  <2>6. \/ old.members \cap old.blocked = {} => in.members \cap in.blocked = {}
        \/ q.op = "join" /\ q.who \in in.members \cap old.blocked
    BY <2>4
  <2>7. \/ Cardinality(in.members) <= Cardinality(old.members)
        \/ Cardinality(in.members) <= crRow[c].cap
        \/ CrCount(q.seen.in, c) # CrCount(crIn, c)
        \/ q.agg.cap # crRow[c].cap
    BY <2>3, <2>4
  <2>8. \/ in.co \in SUBSET old.co
        \/ crRow[c].alive /\ ((q.op = "addCo" /\ q.arg = crRow[c].owner) \/ crRow[c].owner \notin in.co \ old.co)
    BY <2>4
  <2> HIDE DEF in
  <2>9. CrTables(r, in)
    BY <1>3 DEF in
  <2> QED BY ONLY RegisterInv, r \in 1 .. CrSlots, <1>3, <2>1, <2>2, <2>4, <2>5, <2>6, <2>7, <2>8, <2>9, CrTablesSound
<1> QED BY <1>1, <1>2, <1>3 DEF CrRemoveGroupMember


LEMMA CrAddCoTeacherSound == ASSUME RegisterInv, NEW r \in 1 .. CrSlots, CrAddCoTeacher(r) PROVE RegisterInv'

<1>1. ASSUME NEW t \in CrTeachers, NEW c \in CrClasses, NEW u \in CrTeachers, CrBegins(r, "addCo", c, CrNone, u, crRow[c])
      PROVE  RegisterInv'
  <2>1. "addCo" \in CrOps /\ crRow[c] \in CrRowOf
    BY <1>1, CrRowTyped DEF CrOps, CrOfStudent, CrSaveOps
  <2>2. CrAbout([op |-> "addCo", cls |-> c, who |-> CrNone, arg |-> u, agg |-> crRow[c], stage |-> "check", seen |-> <<>>])
    BY <1>1, <2>1 DEF CrAbout, CrOfStudent, CrSaveOps
  <2>3. c \in CrClasses /\ CrNone \in CrStudents \cup {CrStudents, CrNone} /\ u \in CrClasses \cup CrTeachers \cup CrGroups \cup {CrNone}
    BY <1>1, CrRowTyped
  <2> QED BY ONLY RegisterInv, r \in 1 .. CrSlots, <1>1, <2>1, <2>2, <2>3, CrBeginsSound
<1>2. ASSUME CrIs(r, "addCo", "check"),
             CrReads(r, crReqs[r].arg \notin crIn[crReqs[r].cls].co)
      PROVE  RegisterInv'
  <2> DEFINE passes == crReqs[r].arg \notin crIn[crReqs[r].cls].co
  <2>1. "addCo" \in CrOps \ {"add", "join", "move"}
    BY DEF CrOps, CrOfStudent, CrSaveOps
  <2>2. passes \in BOOLEAN
    OBVIOUS
  <2>3. CrReads(r, passes)
    BY <1>2
  <2> HIDE DEF passes
  <2> QED BY ONLY RegisterInv, r \in 1 .. CrSlots, <1>2, <2>1, <2>2, <2>3, CrReadsSound
<1>3. ASSUME CrIs(r, "addCo", "write"), crRow[crReqs[r].cls].alive,
             CrTables(r, [crIn[crReqs[r].cls] EXCEPT !.co = @ \cup {crReqs[r].arg}])
      PROVE  RegisterInv'
  <2> DEFINE q == crReqs[r]
             c == q.cls
             old == crIn[c]
             in == [old EXCEPT !.co = @ \cup {q.arg}]
  <2>1. "addCo" \in CrOps \ {"claim"}
    BY DEF CrOps, CrOfStudent, CrSaveOps
  <2>2. q \in CrReqOf /\ q.op = "addCo" /\ c \in CrClasses /\ CrAbout(q) /\ CrPassed(q) /\ q.stage = "write"
    BY <1>3, <2>1, CrBusy DEF CrReqOf
  <2>3. /\ old \in CrInOf
        /\ old.members \in SUBSET CrStudents /\ old.blocked \in SUBSET CrStudents
        /\ old.invited \in SUBSET CrStudents /\ old.co \in SUBSET CrTeachers
        /\ old.groups \in SUBSET CrGroups /\ old.made \in SUBSET CrGroups
        /\ old.group \in [CrStudents -> CrGroups \cup {CrNone}]
        /\ IsFiniteSet(old.members) /\ Cardinality(old.members) \in Nat
        /\ CrCount(crIn, c) = Cardinality(old.members)
    BY <2>2, CrInTyped
  <2>4. in \in CrInOf /\ in.members = old.members /\ in.blocked = old.blocked
        /\ in.co = old.co \cup {q.arg} /\ in.group = old.group
    BY <2>2, <2>3 DEF CrInOf, CrAbout
  <2> HIDE DEF in
  <2>5. \/ \A s \in CrStudents : (old.group[s] # CrNone => s \in old.members) =>
              (in.group[s] # CrNone => s \in in.members)
        \/ q.op = "group" /\ q.who \notin old.members
        \/ q.op = "remove" /\ old.group[q.who] # q.seen.in[c].group[q.who]
    BY <2>4
  <2>6. \/ old.members \cap old.blocked = {} => in.members \cap in.blocked = {}
        \/ q.op = "join" /\ q.who \in in.members \cap old.blocked
    BY <2>4
  <2>7. \/ Cardinality(in.members) <= Cardinality(old.members)
        \/ Cardinality(in.members) <= crRow[c].cap
        \/ CrCount(q.seen.in, c) # CrCount(crIn, c)
        \/ q.agg.cap # crRow[c].cap
    BY <2>3, <2>4
  <2>8. \/ in.co \in SUBSET old.co
        \/ crRow[c].alive /\ ((q.op = "addCo" /\ q.arg = crRow[c].owner) \/ crRow[c].owner \notin in.co \ old.co)
    BY <1>3, <2>2, <2>4
  <2> HIDE DEF in
  <2>9. CrTables(r, in)
    BY <1>3 DEF in
  <2> QED BY ONLY RegisterInv, r \in 1 .. CrSlots, <1>3, <2>1, <2>2, <2>4, <2>5, <2>6, <2>7, <2>8, <2>9, CrTablesSound
<1> QED BY <1>1, <1>2, <1>3 DEF CrAddCoTeacher


LEMMA CrRemoveCoTeacherSound == ASSUME RegisterInv, NEW r \in 1 .. CrSlots, CrRemoveCoTeacher(r) PROVE RegisterInv'

<1>1. ASSUME NEW t \in CrTeachers, NEW c \in CrClasses, NEW u \in CrTeachers, CrBegins(r, "dropCo", c, CrNone, u, crRow[c])
      PROVE  RegisterInv'
  <2>1. "dropCo" \in CrOps /\ crRow[c] \in CrRowOf
    BY <1>1, CrRowTyped DEF CrOps, CrOfStudent, CrSaveOps
  <2>2. CrAbout([op |-> "dropCo", cls |-> c, who |-> CrNone, arg |-> u, agg |-> crRow[c], stage |-> "check", seen |-> <<>>])
    BY <1>1, <2>1 DEF CrAbout, CrOfStudent, CrSaveOps
  <2>3. c \in CrClasses /\ CrNone \in CrStudents \cup {CrStudents, CrNone} /\ u \in CrClasses \cup CrTeachers \cup CrGroups \cup {CrNone}
    BY <1>1, CrRowTyped
  <2> QED BY ONLY RegisterInv, r \in 1 .. CrSlots, <1>1, <2>1, <2>2, <2>3, CrBeginsSound
<1>2. ASSUME CrIs(r, "dropCo", "check"),
             CrReads(r, crReqs[r].arg \in crIn[crReqs[r].cls].co)
      PROVE  RegisterInv'
  <2> DEFINE passes == crReqs[r].arg \in crIn[crReqs[r].cls].co
  <2>1. "dropCo" \in CrOps \ {"add", "join", "move"}
    BY DEF CrOps, CrOfStudent, CrSaveOps
  <2>2. passes \in BOOLEAN
    OBVIOUS
  <2>3. CrReads(r, passes)
    BY <1>2
  <2> HIDE DEF passes
  <2> QED BY ONLY RegisterInv, r \in 1 .. CrSlots, <1>2, <2>1, <2>2, <2>3, CrReadsSound
<1>3. ASSUME CrIs(r, "dropCo", "write"),
             CrTables(r, [crIn[crReqs[r].cls] EXCEPT !.co = @ \ {crReqs[r].arg}])
      PROVE  RegisterInv'
  <2> DEFINE q == crReqs[r]
             c == q.cls
             old == crIn[c]
             in == [old EXCEPT !.co = @ \ {q.arg}]
  <2>1. "dropCo" \in CrOps \ {"claim"}
    BY DEF CrOps, CrOfStudent, CrSaveOps
  <2>2. q \in CrReqOf /\ q.op = "dropCo" /\ c \in CrClasses /\ CrAbout(q) /\ CrPassed(q) /\ q.stage = "write"
    BY <1>3, <2>1, CrBusy DEF CrReqOf
  <2>3. /\ old \in CrInOf
        /\ old.members \in SUBSET CrStudents /\ old.blocked \in SUBSET CrStudents
        /\ old.invited \in SUBSET CrStudents /\ old.co \in SUBSET CrTeachers
        /\ old.groups \in SUBSET CrGroups /\ old.made \in SUBSET CrGroups
        /\ old.group \in [CrStudents -> CrGroups \cup {CrNone}]
        /\ IsFiniteSet(old.members) /\ Cardinality(old.members) \in Nat
        /\ CrCount(crIn, c) = Cardinality(old.members)
    BY <2>2, CrInTyped
  <2>4. in \in CrInOf /\ in.members = old.members /\ in.blocked = old.blocked
        /\ in.co \in SUBSET old.co /\ in.group = old.group
    BY <2>3 DEF CrInOf
  <2> HIDE DEF in
  <2>5. \/ \A s \in CrStudents : (old.group[s] # CrNone => s \in old.members) =>
              (in.group[s] # CrNone => s \in in.members)
        \/ q.op = "group" /\ q.who \notin old.members
        \/ q.op = "remove" /\ old.group[q.who] # q.seen.in[c].group[q.who]
    BY <2>4
  <2>6. \/ old.members \cap old.blocked = {} => in.members \cap in.blocked = {}
        \/ q.op = "join" /\ q.who \in in.members \cap old.blocked
    BY <2>4
  <2>7. \/ Cardinality(in.members) <= Cardinality(old.members)
        \/ Cardinality(in.members) <= crRow[c].cap
        \/ CrCount(q.seen.in, c) # CrCount(crIn, c)
        \/ q.agg.cap # crRow[c].cap
    BY <2>3, <2>4
  <2>8. \/ in.co \in SUBSET old.co
        \/ crRow[c].alive /\ ((q.op = "addCo" /\ q.arg = crRow[c].owner) \/ crRow[c].owner \notin in.co \ old.co)
    BY <2>4
  <2> HIDE DEF in
  <2>9. CrTables(r, in)
    BY <1>3 DEF in
  <2> QED BY ONLY RegisterInv, r \in 1 .. CrSlots, <1>3, <2>1, <2>2, <2>4, <2>5, <2>6, <2>7, <2>8, <2>9, CrTablesSound
<1> QED BY <1>1, <1>2, <1>3 DEF CrRemoveCoTeacher

LEMMA CrRegisterSound == ASSUME RegisterInv, NEW r \in 1 .. CrSlots, CrRegister(r) PROVE RegisterInv'

<1>1. ASSUME NEW s \in CrStudents, CrBegins(r, "register", CrAnyClass, s, CrNone, crRow[CrAnyClass])
      PROVE  RegisterInv'
  <2>1. "register" \in CrOps /\ crRow[CrAnyClass] \in CrRowOf
    BY CrRowTyped DEF CrOps, CrOfStudent, CrSaveOps
  <2>2. CrAbout([op |-> "register", cls |-> CrAnyClass, who |-> s, arg |-> CrNone, agg |-> crRow[CrAnyClass], stage |-> "check", seen |-> <<>>])
    BY <1>1, <2>1 DEF CrAbout, CrOfStudent, CrSaveOps
  <2>3. CrAnyClass \in CrClasses /\ s \in CrStudents \cup {CrStudents, CrNone} /\ CrNone \in CrClasses \cup CrTeachers \cup CrGroups \cup {CrNone}
    BY <1>1, CrRowTyped
  <2> QED BY ONLY RegisterInv, r \in 1 .. CrSlots, <1>1, <2>1, <2>2, <2>3, CrBeginsSound
<1>2. ASSUME CrIs(r, "register", "check"), crUsers' = crUsers \cup {crReqs[r].who},
             crReqs' = [crReqs EXCEPT ![r].op = "claim"], UNCHANGED <<crRow, crIn, crHist>>
      PROVE  RegisterInv'
  <2> DEFINE o == crReqs[r]
             q == [o EXCEPT !.op = "claim"]
  <2>1. "register" \in CrOps /\ "claim" \in CrOps
    BY DEF CrOps, CrOfStudent
  <2>2. o \in CrReqOf /\ o.op = "register" /\ o.stage = "check" /\ CrAbout(o)
    BY <1>2, <2>1, CrBusy
  <2>3. o.who \in CrStudents
    BY <2>2 DEF CrAbout, CrOfStudent
  <2>4. q \in CrReqOf /\ q.op = "claim" /\ q.stage = "check" /\ q.who = o.who
    BY <2>1, <2>2 DEF CrReqOf
  <2>5. crReqs' = [crReqs EXCEPT ![r] = q]
    BY <1>2
  <2>6. crUsers' \in SUBSET CrStudents
    BY <1>2, <2>3, CrTyped
  <2> HIDE DEF q
  <2>7. CrAbout(q) /\ CrPassed(q)
    BY <2>3, <2>4 DEF CrAbout, CrPassed, CrSaveOps
  <2>8. UNCHANGED <<crRow, crIn, crHist>>
    BY <1>2
  <2> QED BY ONLY RegisterInv, r \in 1 .. CrSlots, <2>4, <2>5, <2>6, <2>7, <2>8, CrQuietly
<1> QED BY <1>1, <1>2 DEF CrRegister


LEMMA CrMoveStudentSound == ASSUME RegisterInv, NEW r \in 1 .. CrSlots, CrMoveStudent(r) PROVE RegisterInv'

<1>1. ASSUME NEW t \in CrTeachers, NEW c \in CrClasses, NEW d \in CrClasses, NEW s \in CrStudents, d # c, CrBegins(r, "move", c, s, d, crRow[d])
      PROVE  RegisterInv'
  <2>1. "move" \in CrOps /\ crRow[d] \in CrRowOf
    BY <1>1, CrRowTyped DEF CrOps, CrOfStudent, CrSaveOps
  <2>2. CrAbout([op |-> "move", cls |-> c, who |-> s, arg |-> d, agg |-> crRow[d], stage |-> "check", seen |-> <<>>])
    BY <1>1, <2>1 DEF CrAbout, CrOfStudent, CrSaveOps
  <2>3. c \in CrClasses /\ s \in CrStudents \cup {CrStudents, CrNone} /\ d \in CrClasses \cup CrTeachers \cup CrGroups \cup {CrNone}
    BY <1>1, CrRowTyped
  <2> QED BY ONLY RegisterInv, r \in 1 .. CrSlots, <1>1, <2>1, <2>2, <2>3, CrBeginsSound
<1>2. ASSUME CrIs(r, "move", "check"),
             CrReads(r, crReqs[r].who \in crIn[crReqs[r].cls].members \ crIn[crReqs[r].arg].members /\ CrCount(crIn, crReqs[r].arg) < crReqs[r].agg.cap)
      PROVE  RegisterInv'
  <2> DEFINE passes == crReqs[r].who \in crIn[crReqs[r].cls].members \ crIn[crReqs[r].arg].members /\ CrCount(crIn, crReqs[r].arg) < crReqs[r].agg.cap
  <2>1. "move" \in CrOps
    BY DEF CrOps, CrOfStudent, CrSaveOps
  <2>2. passes \in BOOLEAN /\ (passes => CrCount(crIn, crReqs[r].arg) < crReqs[r].agg.cap)
    OBVIOUS
  <2>3. CrReads(r, passes)
    BY <1>2
  <2> HIDE DEF passes
  <2> QED BY ONLY RegisterInv, r \in 1 .. CrSlots, <1>2, <2>1, <2>2, <2>3, CrReadsSound
<1>3. ASSUME CrIs(r, "move", "write"),
             CrCommits(r, [crIn EXCEPT
               ![crReqs[r].cls] = CrRemoved(@, crReqs[r].who, crReqs[r].seen.in[crReqs[r].cls].group[crReqs[r].who]),
               ![crReqs[r].arg] = CrEntered(@, crReqs[r].who)], crRow[crReqs[r].cls], {})
      PROVE  RegisterInv'
  <2> DEFINE q == crReqs[r]
             c == q.cls
             d == q.arg
             s == q.who
             g == q.seen.in[c].group[s]
             from == CrRemoved(crIn[c], s, g)
             to == CrEntered(crIn[d], s)
             tables == [crIn EXCEPT ![c] = from, ![d] = to]
             row == crRow[c]
             o == CrOvertaken(q, tables, {})
  <2>1. "move" \in CrOps /\ q # CrIdle
    <3>1. "move" \in CrOps
      BY DEF CrOps, CrOfStudent
    <3> QED BY <1>3, <3>1, CrBusy
  <2>4. q \in CrReqOf /\ q.op = "move" /\ c \in CrClasses /\ CrAbout(q) /\ CrPassed(q) /\ q.stage = "write"
    BY <1>3, <2>1, CrBusy DEF CrReqOf
  <2>5. s \in CrStudents /\ d \in CrClasses /\ d # c
    BY <2>4 DEF CrAbout, CrOfStudent
  <2>6. /\ from \in CrInOf
        /\ from.members = crIn[c].members \ {s} /\ from.blocked = crIn[c].blocked \cup {s}
        /\ from.co = crIn[c].co /\ (\A p \in CrStudents : p # s => from.group[p] = crIn[c].group[p])
        /\ (crIn[c].group[s] = g => from.group[s] = CrNone)
    <3> DEFINE old == crIn[c]
    <3>1. s \in CrStudents /\ old \in CrInOf
      BY <2>4, <2>5, CrInTyped
    <3> HIDE DEF g, s, old
    <3>2. LET n == CrRemoved(old, s, g) IN
          /\ n \in CrInOf
          /\ n.members = old.members \ {s} /\ n.blocked = old.blocked \cup {s}
          /\ n.co = old.co /\ (\A p \in CrStudents : p # s => n.group[p] = old.group[p])
          /\ (old.group[s] = g => n.group[s] = CrNone)
      BY <3>1, CrRemovedIs
    <3> QED BY <3>2 DEF old
  <2>7. /\ to \in CrInOf /\ to.members = crIn[d].members \cup {s} /\ to.blocked = crIn[d].blocked \ {s}
        /\ to.co = crIn[d].co /\ to.group = crIn[d].group
    <3>1. crIn[d] \in CrInOf
      BY <2>5, CrTyped
    <3> QED BY <2>5, <3>1 DEF CrInOf, CrEntered
  <2>2. CrCommits(r, tables, row, {})
    <3> HIDE DEF g
    <3>1. tables = [crIn EXCEPT ![c] = CrRemoved(@, s, g), ![d] = CrEntered(@, s)]
      <4>1. [crIn EXCEPT ![c] = CrRemoved(crIn[c], s, g)][d] = crIn[d]
        BY <2>4, <2>5, CrTyped
      <4> QED BY <4>1
    <3> QED BY <1>3, <3>1 DEF g
  <2> HIDE DEF from, to
  <2>8. /\ tables \in [CrClasses -> CrInOf] /\ tables[c] = from /\ tables[d] = to
        /\ \A e \in CrClasses : e # c /\ e # d => tables[e] = crIn[e]
    BY <2>4, <2>5, <2>6, <2>7, CrTyped
  <2>3. tables \in [CrClasses -> CrInOf] /\ row \in CrRowOf
    BY <2>4, <2>8, CrTyped
  <2>9. /\ q.op \in {"remove", "move"} /\ crIn[c].group[s] # g => "group" \in o
        /\ \A e \in CrGrown(tables) : CrCount(q.seen.in, e) # CrCount(crIn, e) \/ CrCapRead(q, e) # crRow[e].cap
             => "capacity" \in o
    BY CrOvertakenKinds
  <2> HIDE DEF tables, o, g
  <2>11. "group" \in o \/ CrGroupKept(tables)
    <3>1. ASSUME NEW e \in CrClasses, NEW p \in CrStudents, "group" \notin o,
                 crIn[e].group[p] # CrNone => p \in crIn[e].members, tables[e].group[p] # CrNone
          PROVE  p \in tables[e].members
      <4>1. CASE e = c
        <5>1. from.group[s] = CrNone
          BY <2>4, <2>6, <2>9, <3>1
        <5> QED BY <2>6, <2>8, <3>1, <4>1, <5>1
      <4>2. CASE e = d
        BY <2>7, <2>8, <3>1, <4>2
      <4>3. CASE e # c /\ e # d
        BY <2>8, <3>1, <4>3
      <4> QED BY <4>1, <4>2, <4>3
    <3> QED BY <3>1 DEF CrGroupKept
  <2>12. "block" \in o \/ CrBlockKept(tables)
    <3>1. ASSUME NEW e \in CrClasses, crIn[e].members \cap crIn[e].blocked = {}
          PROVE  tables[e].members \cap tables[e].blocked = {}
      <4>1. CASE e = c
        BY <2>6, <2>8, <3>1, <4>1
      <4>2. CASE e = d
        BY <2>7, <2>8, <3>1, <4>2
      <4>3. CASE e # c /\ e # d
        BY <2>8, <3>1, <4>3
      <4> QED BY <4>1, <4>2, <4>3
    <3> QED BY <3>1 DEF CrBlockKept
  <2>13. "capacity" \in o \/ CrCapKept(tables)
    <3>1. ASSUME NEW e \in CrGrown(tables), "capacity" \notin o PROVE CrCount(tables, e) <= crRow[e].cap
      <4>1. e \in CrClasses /\ CrCount(tables, e) > CrCount(crIn, e)
        BY <3>1 DEF CrGrown
      <4>2. /\ CrCount(tables, e) \in Nat /\ CrCount(tables, e) = Cardinality(tables[e].members)
            /\ CrCount(crIn, e) \in Nat /\ CrCount(crIn, e) = Cardinality(crIn[e].members)
            /\ IsFiniteSet(crIn[e].members)
        BY <2>8, <4>1, CrFinite, CrTyped
      <4>3. e = d
        <5>1. ASSUME e # d PROVE CrCount(tables, e) <= CrCount(crIn, e)
          <6>1. tables[e].members \in SUBSET crIn[e].members
            <7>1. CASE e = c
              BY <2>6, <2>8, <7>1
            <7>2. CASE e # c
              BY <2>8, <4>1, <5>1, <7>2
            <7> QED BY <7>1, <7>2
          <6> QED BY <4>2, <6>1, FS_Subset
        <5> QED BY <4>1, <4>2, <5>1
      <4>4. CrCount(tables, e) <= CrCount(crIn, e) + 1
        <5>1. tables[e].members = crIn[e].members \cup {s}
          BY <2>7, <2>8, <4>3
        <5>2. Cardinality(crIn[e].members \cup {s}) <= Cardinality(crIn[e].members) + 1
          BY <4>2, CrOneMore
        <5> QED BY <4>2, <5>1, <5>2
      <4>5. CrCapRead(q, e) = q.agg.cap
        BY <2>4 DEF CrCapRead
      <4>6. CrCount(q.seen.in, e) = CrCount(crIn, e) /\ q.agg.cap = crRow[e].cap
        BY <2>9, <3>1, <4>5
      <4>7. CrCount(q.seen.in, e) < q.agg.cap
        BY <2>4, <4>3 DEF CrPassed
      <4>8. crRow[e].cap \in Nat
        BY <4>1, CrRowTyped
      <4> QED BY <4>2, <4>4, <4>6, <4>7, <4>8
    <3> QED BY <3>1 DEF CrCapKept
  <2>14. CrCodesSound => "row" \in o \/ CrRowKept(r, row)
    BY DEF CrRowKept
  <2>17. \A e \in CrClasses : tables[e].co = crIn[e].co
    BY <2>6, <2>7, <2>8
  <2>18. \A e \in CrClasses : (IF e = crReqs[r].cls THEN row ELSE crRow[e]) = crRow[e]
    OBVIOUS
  <2> HIDE DEF row
  <2>15. CrCodesSound => "row" \in o \/ \A e \in CrClasses :
           tables[e].co # {} => (IF e = crReqs[r].cls THEN row ELSE crRow[e]).code # 0
    BY <2>17, <2>18 DEF CrCodesSound
  <2>16. CrCodesSound => "row" \in o \/ "role" \in o \/ CrRoleKept(r, tables, row)
    BY <2>17, <2>18 DEF CrRoleKept
  <2>20. /\ "group" \in o \/ CrGroupKept(tables)
         /\ "block" \in o \/ CrBlockKept(tables)
         /\ "capacity" \in o \/ CrCapKept(tables)
         /\ CrCodesSound => "row" \in o \/ CrRowKept(r, row)
         /\ CrCodesSound => "row" \in o \/ \A e \in CrClasses :
              tables[e].co # {} => (IF e = crReqs[r].cls THEN row ELSE crRow[e]).code # 0
         /\ CrCodesSound => "row" \in o \/ "role" \in o \/ CrRoleKept(r, tables, row)
    BY <2>11, <2>12, <2>13, <2>14, <2>15, <2>16
  <2> QED BY ONLY RegisterInv, r \in 1 .. CrSlots, <2>1, <2>2, <2>3, <2>20, CrCommitsSound DEF o
<1> QED BY <1>1, <1>2, <1>3 DEF CrMoveStudent


LEMMA CrClaimSound == ASSUME RegisterInv, NEW r \in 1 .. CrSlots, CrClaim(r) PROVE RegisterInv'

<1>1. ASSUME NEW s \in CrStudents, CrBegins(r, "claim", CrAnyClass, s, CrNone, crRow[CrAnyClass])
      PROVE  RegisterInv'
  <2>1. "claim" \in CrOps /\ crRow[CrAnyClass] \in CrRowOf
    BY CrRowTyped DEF CrOps, CrOfStudent, CrSaveOps
  <2>2. CrAbout([op |-> "claim", cls |-> CrAnyClass, who |-> s, arg |-> CrNone, agg |-> crRow[CrAnyClass], stage |-> "check", seen |-> <<>>])
    BY <1>1, <2>1 DEF CrAbout, CrOfStudent, CrSaveOps
  <2>3. CrAnyClass \in CrClasses /\ s \in CrStudents \cup {CrStudents, CrNone} /\ CrNone \in CrClasses \cup CrTeachers \cup CrGroups \cup {CrNone}
    BY <1>1, CrRowTyped
  <2> QED BY ONLY RegisterInv, r \in 1 .. CrSlots, <1>1, <2>1, <2>2, <2>3, CrBeginsSound
<1>2. ASSUME CrIs(r, "claim", "check"), CrReads(r, TRUE) PROVE RegisterInv'
  <2>1. "claim" \in CrOps \ {"add", "join", "move"}
    BY DEF CrOps, CrOfStudent, CrSaveOps
  <2> QED BY <1>2, <2>1, CrReadsSound
<1>3. ASSUME CrIs(r, "claim", "write"),
             CrCommits(r, [c \in CrClasses |-> CrClaimed(crReqs[r], c)], crRow[crReqs[r].cls], {})
      PROVE  RegisterInv'
  <2> DEFINE q == crReqs[r]
             s == q.who
             tables == [c \in CrClasses |-> CrClaimed(q, c)]
             row == crRow[q.cls]
             o == CrOvertaken(q, tables, {})
  <2>1. "claim" \in CrOps /\ q # CrIdle
    <3>1. "claim" \in CrOps
      BY DEF CrOps, CrOfStudent
    <3> QED BY <1>3, <3>1, CrBusy
  <2>4. q \in CrReqOf /\ q.op = "claim" /\ q.cls \in CrClasses /\ CrAbout(q) /\ CrPassed(q) /\ q.stage = "write"
    BY <1>3, <2>1, CrBusy DEF CrReqOf
  <2>5. s \in CrStudents /\ q.seen \in CrSeenOf
    BY <2>4 DEF CrAbout, CrOfStudent, CrPassed
  <2>2. CrCommits(r, tables, row, {})
    BY <1>3
  <2>6. ASSUME NEW c \in CrClasses
        PROVE  LET n == CrClaimed(q, c)  old == crIn[c] IN
               /\ n \in CrInOf /\ n.blocked = old.blocked /\ n.co = old.co /\ n.group = old.group
               /\ \/ n.members = old.members
                  \/ n.members = old.members \cup {s} /\ CrCount(q.seen.in, c) < q.seen.row[c].cap
    <3>1. CrCount(q.seen.in, c) \in Nat /\ q.seen.row[c].cap \in Nat
      <4>1. q.seen.in \in [CrClasses -> CrInOf] /\ q.seen.row \in [CrClasses -> CrRowOf]
        BY <2>5 DEF CrSeenOf
      <4>2. q.seen.row[c].cap \in Nat
        BY <4>1 DEF CrRowOf
      <4> QED BY <4>1, <4>2, CrFinite
    <3> DEFINE old == crIn[c]
               keep == [old EXCEPT !.invited = @ \ {s}]
               take == [old EXCEPT !.members = @ \cup {s}, !.invited = @ \ {s}]
    <3>2. old \in CrInOf
      BY CrTyped
    <3>3. keep \in CrInOf /\ keep.members = old.members /\ keep.blocked = old.blocked /\ keep.co = old.co /\ keep.group = old.group
      BY <3>2 DEF CrInOf
    <3>4. /\ take \in CrInOf /\ take.members = old.members \cup {s} /\ take.blocked = old.blocked
          /\ take.co = old.co /\ take.group = old.group
      BY <2>5, <3>2 DEF CrInOf
    <3>5. CrClaimed(q, c) \in {old, keep} \/ (CrClaimed(q, c) = take /\ CrCount(q.seen.in, c) < q.seen.row[c].cap)
      BY <3>1 DEF CrClaimed
    <3> HIDE DEF keep, take
    <3>6. CASE CrClaimed(q, c) = old
      BY <3>2, <3>6
    <3>7. CASE CrClaimed(q, c) = keep
      BY <3>3, <3>7
    <3>8. CASE CrClaimed(q, c) = take /\ CrCount(q.seen.in, c) < q.seen.row[c].cap
      BY <3>4, <3>8
    <3> QED BY <3>5, <3>6, <3>7, <3>8
  <2>7. ASSUME NEW c \in CrClasses
        PROVE  /\ tables[c] \in CrInOf /\ tables[c].blocked = crIn[c].blocked /\ tables[c].co = crIn[c].co
               /\ tables[c].group = crIn[c].group
               /\ \/ tables[c].members = crIn[c].members
                  \/ tables[c].members = crIn[c].members \cup {s} /\ CrCount(q.seen.in, c) < q.seen.row[c].cap
    <3>1. tables[c] = CrClaimed(q, c)
      OBVIOUS
    <3> HIDE DEF tables, q
    <3> QED BY <2>6, <3>1
  <2>3. tables \in [CrClasses -> CrInOf] /\ row \in CrRowOf
    <3>1. \A c \in CrClasses : CrClaimed(q, c) \in CrInOf
      BY <2>6
    <3>2. row \in CrRowOf
      BY <2>4, CrTyped
    <3> QED BY <3>1, <3>2
  <2>9. /\ \A c \in CrClasses : q.op \in {"join", "claim"} /\ q.who \in tables[c].members \cap crIn[c].blocked
             => "block" \in o
        /\ \A c \in CrGrown(tables) : CrCount(q.seen.in, c) # CrCount(crIn, c) \/ CrCapRead(q, c) # crRow[c].cap
             => "capacity" \in o
    BY CrOvertakenKinds
  <2> HIDE DEF tables, o
  <2>11. "group" \in o \/ CrGroupKept(tables)
    <3>1. ASSUME NEW c \in CrClasses PROVE tables[c].group = crIn[c].group /\ crIn[c].members \subseteq tables[c].members
      BY <2>7
    <3> QED BY <3>1 DEF CrGroupKept
  <2>12. "block" \in o \/ CrBlockKept(tables)
    <3>1. ASSUME NEW c \in CrClasses, "block" \notin o, crIn[c].members \cap crIn[c].blocked = {}
          PROVE  tables[c].members \cap tables[c].blocked = {}
      <4>1. s \notin tables[c].members \cap crIn[c].blocked
        BY <2>4, <2>9, <3>1
      <4> QED BY <2>7, <3>1, <4>1
    <3> QED BY <3>1 DEF CrBlockKept
  <2>13. "capacity" \in o \/ CrCapKept(tables)
    <3>1. ASSUME NEW c \in CrGrown(tables), "capacity" \notin o PROVE CrCount(tables, c) <= crRow[c].cap
      <4>1. c \in CrClasses /\ CrCount(tables, c) > CrCount(crIn, c)
        BY <3>1 DEF CrGrown
      <4>2. /\ CrCount(tables, c) \in Nat /\ CrCount(tables, c) = Cardinality(tables[c].members)
            /\ CrCount(crIn, c) \in Nat /\ CrCount(crIn, c) = Cardinality(crIn[c].members)
            /\ IsFiniteSet(crIn[c].members)
        BY <2>3, <4>1, CrFinite, CrTyped
      <4>3. tables[c].members # crIn[c].members
        BY <4>1, <4>2
      <4>4. tables[c].members = crIn[c].members \cup {s} /\ CrCount(q.seen.in, c) < q.seen.row[c].cap
        BY <2>7, <4>1, <4>3
      <4>5. Cardinality(crIn[c].members \cup {s}) <= Cardinality(crIn[c].members) + 1
        BY <4>2, CrOneMore
      <4>6. CrCapRead(q, c) = q.seen.row[c].cap
        BY <2>4 DEF CrCapRead
      <4>7. CrCount(q.seen.in, c) = CrCount(crIn, c) /\ q.seen.row[c].cap = crRow[c].cap
        BY <2>9, <3>1, <4>6
      <4>8. crRow[c].cap \in Nat
        BY <4>1, CrRowTyped
      <4> QED BY <4>2, <4>4, <4>5, <4>7, <4>8
    <3> QED BY <3>1 DEF CrCapKept
  <2>14. CrCodesSound => "row" \in o \/ CrRowKept(r, row)
    BY DEF CrRowKept
  <2>17. \A c \in CrClasses : tables[c].co = crIn[c].co
    BY <2>7
  <2>18. \A c \in CrClasses : (IF c = crReqs[r].cls THEN row ELSE crRow[c]) = crRow[c]
    OBVIOUS
  <2> HIDE DEF row
  <2>15. CrCodesSound => "row" \in o \/ \A c \in CrClasses :
           tables[c].co # {} => (IF c = crReqs[r].cls THEN row ELSE crRow[c]).code # 0
    BY <2>17, <2>18 DEF CrCodesSound
  <2>16. CrCodesSound => "row" \in o \/ "role" \in o \/ CrRoleKept(r, tables, row)
    BY <2>17, <2>18 DEF CrRoleKept
  <2>20. /\ "group" \in o \/ CrGroupKept(tables)
         /\ "block" \in o \/ CrBlockKept(tables)
         /\ "capacity" \in o \/ CrCapKept(tables)
         /\ CrCodesSound => "row" \in o \/ CrRowKept(r, row)
         /\ CrCodesSound => "row" \in o \/ \A c \in CrClasses :
              tables[c].co # {} => (IF c = crReqs[r].cls THEN row ELSE crRow[c]).code # 0
         /\ CrCodesSound => "row" \in o \/ "role" \in o \/ CrRoleKept(r, tables, row)
    BY <2>11, <2>12, <2>13, <2>14, <2>15, <2>16
  <2> QED BY ONLY RegisterInv, r \in 1 .. CrSlots, <2>1, <2>2, <2>3, <2>20, CrCommitsSound DEF o
<1> QED BY CrTyped, <1>1, <1>2, <1>3 DEF CrClaim

LEMMA CrCreateSound == ASSUME RegisterInv, NEW r \in 1 .. CrSlots, CrCreate(r) PROVE RegisterInv'

<1>1. ASSUME NEW t \in CrTeachers, NEW c \in CrClasses, NEW cap \in CrCaps, 
             CrBegins(r, "create", c, CrNone, CrNone, [alive |-> TRUE, owner |-> t, code |-> crHist.codes + 1, archived |-> FALSE, cap |-> cap])
      PROVE  RegisterInv'
  <2> DEFINE agg == [alive |-> TRUE, owner |-> t, code |-> crHist.codes + 1, archived |-> FALSE, cap |-> cap]
  <2>1. "create" \in CrOps /\ agg \in CrRowOf /\ agg.alive /\ agg.code = crHist.codes + 1
    <3>1. crRow[c] \in CrRowOf /\ crHist.codes + 1 \in Nat
      BY <1>1, CrRowTyped
    <3>2. "create" \in CrOps
      BY DEF CrOps, CrSaveOps
    <3>3. agg \in CrRowOf /\ agg.alive /\ agg.code = crHist.codes + 1
      <4>1. cap \in Nat
        <5>1. Cardinality(CrStudents) \in Nat
          BY CrAssumption, FS_CardinalityType
        <5> QED BY <1>1, <5>1 DEF CrCaps
      <4> QED BY <1>1, <3>1, <4>1 DEF CrRowOf
    <3> QED BY <3>2, <3>3
  <2>2. CrBegins(r, "create", c, CrNone, CrNone, agg)
    BY <1>1
  <2> HIDE DEF agg
  <2>3. CrAbout([op |-> "create", cls |-> c, who |-> CrNone, arg |-> CrNone, agg |-> agg, stage |-> "check", seen |-> <<>>])
    BY <1>1, <2>1 DEF CrAbout, CrOfStudent, CrSaveOps
  <2>4. c \in CrClasses /\ CrNone \in CrStudents \cup {CrStudents, CrNone} /\ CrNone \in CrClasses \cup CrTeachers \cup CrGroups \cup {CrNone}
    BY <1>1
  <2> QED BY ONLY RegisterInv, r \in 1 .. CrSlots, <1>1, <2>1, <2>2, <2>3, <2>4, CrBeginsSound
<1>2. ASSUME CrIs(r, "create", "check"), CrReads(r, TRUE) PROVE RegisterInv'
  <2>1. "create" \in CrOps \ {"add", "join", "move"}
    BY DEF CrOps, CrOfStudent, CrSaveOps
  <2> QED BY <1>2, <2>1, CrReadsSound
<1>3. ASSUME CrIs(r, "create", "write"), crRow[crReqs[r].cls].code = 0, CrCommits(r, crIn, crReqs[r].agg, {})
      PROVE  RegisterInv'
  <2> DEFINE q == crReqs[r]
             tables == crIn
             row == q.agg
             o == CrOvertaken(q, tables, {})
  <2>1. q # CrIdle /\ q \in CrReqOf /\ q.op = "create" /\ q.cls \in CrClasses
    <3>1. "create" \in CrOps
      BY DEF CrOps
    <3> QED BY <1>3, <3>1, CrBusy DEF CrReqOf
  <2>2. CrCommits(r, tables, row, {}) /\ CrIssues(r)
    BY <1>3, <2>1 DEF CrIssues
  <2>3. tables \in [CrClasses -> CrInOf] /\ row \in CrRowOf
    BY <2>1, CrTyped DEF CrReqOf
  <2>11. "group" \in o \/ CrGroupKept(tables)
    BY DEF CrGroupKept
  <2>12. "block" \in o \/ CrBlockKept(tables)
    BY DEF CrBlockKept
  <2>13. "capacity" \in o \/ CrCapKept(tables)
    <3>1. ASSUME NEW c \in CrGrown(tables) PROVE FALSE
      <4>1. c \in CrClasses /\ CrCount(crIn, c) > CrCount(crIn, c)
        BY <3>1 DEF CrGrown
      <4>2. CrCount(crIn, c) \in Nat
        BY <4>1, CrFinite, CrTyped
      <4> QED BY <4>1, <4>2
    <3> QED BY <3>1 DEF CrCapKept
  <2> HIDE DEF o
  <2>14. CrCodesSound => "row" \in o \/ CrRowKept(r, row)
    BY <2>2 DEF CrRowKept
  <2>15. CrCodesSound => "row" \in o \/ \A c \in CrClasses :
           tables[c].co # {} => (IF c = crReqs[r].cls THEN row ELSE crRow[c]).code # 0
    BY <1>3, <2>1 DEF CrCodesSound
  <2>16. CrCodesSound => "row" \in o \/ "role" \in o \/ CrRoleKept(r, tables, row)
    <3>1. ASSUME CrCodesSound, NEW c \in CrClasses, crRow[c].alive => crRow[c].owner \notin crIn[c].co,
                 (IF c = q.cls THEN row ELSE crRow[c]).alive
          PROVE  (IF c = q.cls THEN row ELSE crRow[c]).owner \notin crIn[c].co
      <4>1. CASE c = q.cls
        BY <1>3, <3>1, <4>1 DEF CrCodesSound
      <4>2. CASE c # q.cls
        BY <3>1, <4>2
      <4> QED BY <4>1, <4>2
    <3> QED BY <3>1 DEF CrRoleKept
  <2>20. /\ "group" \in o \/ CrGroupKept(tables)
         /\ "block" \in o \/ CrBlockKept(tables)
         /\ "capacity" \in o \/ CrCapKept(tables)
         /\ CrCodesSound => "row" \in o \/ CrRowKept(r, row)
         /\ CrCodesSound => "row" \in o \/ \A c \in CrClasses :
              tables[c].co # {} => (IF c = crReqs[r].cls THEN row ELSE crRow[c]).code # 0
         /\ CrCodesSound => "row" \in o \/ "role" \in o \/ CrRoleKept(r, tables, row)
    BY <2>11, <2>12, <2>13, <2>14, <2>15, <2>16
  <2> QED BY ONLY RegisterInv, r \in 1 .. CrSlots, <2>1, <2>2, <2>3, <2>20, CrCommitsSound DEF o
<1> QED BY <1>1, <1>2, <1>3 DEF CrCreate


\* What a save writes, as long as the row that it was loaded from is there: the field that
\* is meant, and another only if the aggregate differs there, which is overtaken.
LEMMA CrSavedIs ==
  ASSUME NEW q \in CrReqOf, q.seen \in CrSeenOf, q.seen.row[q.cls].alive, RegisterInv
  PROVE  /\ CrSaved(q) \in CrRowOf /\ DOMAIN q.agg = {"alive", "owner", "code", "archived", "cap"}
         /\ CrSaved(q).alive \in {q.agg.alive, crRow[q.cls].alive}
         /\ CrSaved(q).alive = (IF q.agg.alive # q.seen.row[q.cls].alive THEN q.agg.alive ELSE crRow[q.cls].alive)
         /\ CrSaved(q).owner = (IF q.agg.owner # q.seen.row[q.cls].owner THEN q.agg.owner ELSE crRow[q.cls].owner)
         /\ CrSaved(q).code = (IF q.agg.code # q.seen.row[q.cls].code THEN q.agg.code ELSE crRow[q.cls].code)
<1> DEFINE was == q.seen.row[q.cls]
           now == crRow[q.cls]
           g == q.agg
           n == [f \in DOMAIN g |-> IF g[f] # was[f] THEN g[f] ELSE now[f]]
<1>1. g \in CrRowOf /\ was \in CrRowOf /\ now \in CrRowOf
  <2>1. q.cls \in CrClasses /\ q.agg \in CrRowOf
    BY DEF CrReqOf
  <2> QED BY <2>1, CrTyped DEF CrSeenOf
<1>2. CrSaved(q) = n
  BY DEF CrSaved
<1> HIDE DEF g, was, now
<1>3. DOMAIN g = {"alive", "owner", "code", "archived", "cap"}
  BY <1>1 DEF CrRowOf
<1>4. n = [alive |-> n.alive, owner |-> n.owner, code |-> n.code, archived |-> n.archived, cap |-> n.cap]
  BY <1>3
<1>5. /\ n.alive = (IF g.alive # was.alive THEN g.alive ELSE now.alive)
      /\ n.owner = (IF g.owner # was.owner THEN g.owner ELSE now.owner)
      /\ n.code = (IF g.code # was.code THEN g.code ELSE now.code)
      /\ n.archived = (IF g.archived # was.archived THEN g.archived ELSE now.archived)
      /\ n.cap = (IF g.cap # was.cap THEN g.cap ELSE now.cap)
  BY <1>3
<1> HIDE DEF n
<1>6. n.alive \in {g.alive, now.alive}
  BY <1>5
<1>7. /\ n.alive \in BOOLEAN /\ n.owner \in CrTeachers \cup {CrNone} /\ n.code \in Nat
      /\ n.archived \in BOOLEAN /\ n.cap \in Nat
  BY <1>1, <1>5 DEF CrRowOf
<1>8. n \in CrRowOf
  BY <1>4, <1>7 DEF CrRowOf
<1> QED BY <1>2, <1>3, <1>5, <1>6, <1>8 DEF g, was, now


LEMMA CrSavesSound ==
  ASSUME RegisterInv, NEW r \in 1 .. CrSlots, NEW op \in CrSaveOps, NEW field \in {"owner", "code", "archived", "cap"},
         field = "owner" <=> op = "transfer", field = "code" <=> op = "regenerate", CrSaves(r, op, field)
  PROVE  RegisterInv'
<1>0. op \in CrOps \ {"add", "join", "move"} /\ op \notin {"group", "remove", "join", "claim", "addCo"}
  BY DEF CrOps, CrSaveOps
<1>1. ASSUME CrIs(r, op, "check"), CrReads(r, TRUE) PROVE RegisterInv'
  BY <1>0, <1>1, CrReadsSound
<1>2. ASSUME CrIs(r, op, "write"), crRow[crReqs[r].cls].alive = crReqs[r].seen.row[crReqs[r].cls].alive,
             CrCommits(r, [crIn EXCEPT ![crReqs[r].cls].co =
               IF op = "transfer" /\ crReqs[r].arg \in crReqs[r].seen.in[crReqs[r].cls].co THEN @ \ {crReqs[r].arg} ELSE @],
               CrSaved(crReqs[r]), DOMAIN crReqs[r].agg \ {field})
      PROVE  RegisterInv'
  <2> DEFINE q == crReqs[r]
             k == q.cls
             was == q.seen.row[k]
             now == crRow[k]
             co == IF op = "transfer" /\ q.arg \in q.seen.in[k].co THEN crIn[k].co \ {q.arg} ELSE crIn[k].co
             in == [crIn[k] EXCEPT !.co = co]
             tables == [crIn EXCEPT ![k] = in]
             row == CrSaved(q)
             own == DOMAIN q.agg \ {field}
             o == CrOvertaken(q, tables, own)
  <2>1. q # CrIdle /\ q \in CrReqOf /\ q.op = op /\ k \in CrClasses /\ CrAbout(q) /\ CrPassed(q) /\ q.stage = "write"
    BY <1>0, <1>2, CrBusy DEF CrReqOf
  <2>4. q.seen \in CrSeenOf /\ q.agg.alive /\ (op = "transfer" => q.arg = q.agg.owner)
    BY <2>1 DEF CrPassed, CrAbout
  <2>2. CrCommits(r, tables, row, own)
    <3>1. tables = [crIn EXCEPT ![k].co =
               IF op = "transfer" /\ q.arg \in q.seen.in[k].co THEN @ \ {q.arg} ELSE @]
      OBVIOUS
    <3> QED BY <1>2, <3>1
  <2>5. /\ q.op = "transfer" /\ q.arg \in crIn[k].co \ q.seen.in[k].co => "role" \in o
        /\ \A f \in own : q.agg[f] # q.seen.row[q.cls][f] => "row" \in o
    BY CrOvertakenKinds
  <2>6. crIn[k] \in CrInOf /\ co \in SUBSET crIn[k].co
    BY <2>1, CrTyped
  <2> HIDE DEF co
  <2>7. /\ in \in CrInOf /\ in.members = crIn[k].members /\ in.blocked = crIn[k].blocked
        /\ in.group = crIn[k].group /\ in.co = co
    BY <2>6 DEF CrInOf
  <2> HIDE DEF in
  <2>8. /\ tables \in [CrClasses -> CrInOf]
        /\ tables[k] = in /\ \A c \in CrClasses : c # k => tables[c] = crIn[c]
    BY <2>1, <2>7, CrTyped
  <2>9. ASSUME NEW c \in CrClasses
        PROVE  /\ tables[c].members = crIn[c].members /\ tables[c].blocked = crIn[c].blocked
               /\ tables[c].group = crIn[c].group /\ tables[c].co \in SUBSET crIn[c].co
    <3>1. CASE c = k
      BY <2>6, <2>7, <2>8, <3>1
    <3>2. CASE c # k
      BY <2>8, <3>2
    <3> QED BY <3>1, <3>2
  <2> HIDE DEF tables
  <2>11. "group" \in o \/ CrGroupKept(tables)
    BY <2>9 DEF CrGroupKept
  <2>12. "block" \in o \/ CrBlockKept(tables)
    BY <2>9 DEF CrBlockKept
  <2>13. "capacity" \in o \/ CrCapKept(tables)
    <3>1. ASSUME NEW c \in CrGrown(tables) PROVE FALSE
      <4>1. c \in CrClasses /\ CrCount(tables, c) > CrCount(crIn, c)
        BY <3>1 DEF CrGrown
      <4>2. CrCount(crIn, c) \in Nat /\ CrCount(tables, c) = CrCount(crIn, c)
        BY <2>9, <4>1, CrFinite, CrTyped DEF CrCount
      <4> QED BY <4>1, <4>2
    <3> QED BY <3>1 DEF CrCapKept
  <2>10. DOMAIN q.agg = {"alive", "owner", "code", "archived", "cap"}
    <3>1. q.agg \in CrRowOf
      BY <2>1 DEF CrReqOf
    <3> QED BY <3>1 DEF CrRowOf
  <2>21. "row" \in o \/ was.alive
    <3>1. "alive" \in own /\ was \in CrRowOf
      BY <2>1, <2>4, <2>10 DEF CrSeenOf
    <3>2. was.alive \in BOOLEAN
      BY <3>1 DEF CrRowOf
    <3>3. q.agg["alive"] # q.seen.row[q.cls]["alive"] => "row" \in o
      BY <2>5, <3>1
    <3> QED BY <2>4, <3>2, <3>3
  <2>3. tables \in [CrClasses -> CrInOf] /\ row \in CrRowOf
    <3>1. CASE was.alive
      BY <2>1, <2>4, <2>8, <3>1, CrSavedIs
    <3>2. CASE ~was.alive
      <4>1. row = q.agg
        BY <3>2 DEF CrSaved
      <4> QED BY <2>1, <2>8, <4>1 DEF CrReqOf
    <3> QED BY <3>1, <3>2
  <2> HIDE DEF o
  <2>22. ASSUME CrCodesSound, "row" \notin o
         PROVE  /\ now.alive /\ row.alive
                /\ row.code = now.code \/ (row.code = q.agg.code /\ CrIssues(r))
                /\ op # "transfer" => row.owner = now.owner
                /\ op = "transfer" => row.owner = now.owner \/ row.owner = q.arg
    <3>1. was.alive /\ now.alive
      BY <1>2, <2>21, <2>22
    <3>2. /\ row.alive \in {q.agg.alive, now.alive}
          /\ row.owner = (IF q.agg.owner # was.owner THEN q.agg.owner ELSE now.owner)
          /\ row.code = (IF q.agg.code # was.code THEN q.agg.code ELSE now.code)
      BY <2>1, <2>4, <3>1, CrSavedIs
    <3> HIDE DEF row
    <3>3. row.alive
      BY <2>4, <3>1, <3>2
    <3>4. row.code = now.code \/ (row.code = q.agg.code /\ CrIssues(r))
      <4>1. CASE op = "regenerate"
        BY <2>1, <3>2, <4>1 DEF CrIssues
      <4>2. CASE op # "regenerate"
        <5>1. "code" \in own
          BY <2>10, <4>2
        <5>2. q.agg["code"] = q.seen.row[q.cls]["code"]
          BY <2>5, <2>22, <5>1
        <5> QED BY <3>2, <5>2
      <4> QED BY <4>1, <4>2
    <3>5. op # "transfer" => row.owner = now.owner
      <4>1. ASSUME op # "transfer" PROVE q.agg["owner"] = q.seen.row[q.cls]["owner"]
        <5>1. "owner" \in own
          BY <2>10, <4>1
        <5> QED BY <2>5, <2>22, <5>1
      <4> QED BY <3>2, <4>1
    <3>6. op = "transfer" => row.owner = now.owner \/ row.owner = q.arg
      BY <2>4, <3>2
    <3> QED BY <3>1, <3>3, <3>4, <3>5, <3>6
  <2> HIDE DEF row, own
  <2>14. CrCodesSound => "row" \in o \/ CrRowKept(r, row)
    BY <2>22 DEF CrRowKept
  <2>23. CrCodesSound => "row" \in o \/ row.code # 0
    <3>1. ASSUME CrCodesSound, "row" \notin o PROVE row.code # 0
      <4>1. now.code # 0
        BY <2>1, <2>22, <3>1 DEF CrCodesSound
      <4>2. CrIssues(r) => 0 < q.agg.code /\ q.agg.code \in Nat
        <5>1. CrIssues(r) => 0 < q.agg.code
          BY <3>1 DEF CrCodesSound
        <5> QED BY <2>1, <5>1 DEF CrReqOf, CrRowOf
      <4> QED BY <2>22, <3>1, <4>1, <4>2
    <3> QED BY <3>1
  <2>15. CrCodesSound => "row" \in o \/ \A c \in CrClasses :
           tables[c].co # {} => (IF c = crReqs[r].cls THEN row ELSE crRow[c]).code # 0
    <3>1. ASSUME CrCodesSound, "row" \notin o, NEW c \in CrClasses, tables[c].co # {}
          PROVE  (IF c = crReqs[r].cls THEN row ELSE crRow[c]).code # 0
      <4>1. CASE c = k
        BY <2>23, <3>1, <4>1
      <4>2. CASE c # k
        <5>1. crIn[c].co # {}
          BY <2>9, <3>1
        <5> QED BY <3>1, <4>2, <5>1 DEF CrCodesSound
      <4> QED BY <4>1, <4>2
    <3> QED BY <3>1
  <2>16. CrCodesSound => "row" \in o \/ "role" \in o \/ CrRoleKept(r, tables, row)
    <3>1. ASSUME CrCodesSound, "row" \notin o, "role" \notin o, NEW c \in CrClasses,
                 crRow[c].alive => crRow[c].owner \notin crIn[c].co,
                 (IF c = crReqs[r].cls THEN row ELSE crRow[c]).alive
          PROVE  (IF c = crReqs[r].cls THEN row ELSE crRow[c]).owner \notin tables[c].co
      <4>1. CASE c = k
        <5>1. now.owner \notin co
          BY <2>6, <2>22, <3>1, <4>1
        <5>2. tables[c].co = co
          BY <2>7, <2>8, <4>1
        <5>3. CASE row.owner = now.owner
          BY <4>1, <5>1, <5>2, <5>3
        <5>4. CASE op = "transfer" /\ row.owner = q.arg
          <6>1. q.arg \notin co
            BY <2>1, <2>5, <3>1, <5>4 DEF co
          <6> QED BY <4>1, <5>2, <5>4, <6>1
        <5> QED BY <2>22, <3>1, <5>3, <5>4
      <4>2. CASE c # k
        BY <2>9, <3>1, <4>2
      <4> QED BY <4>1, <4>2
    <3> QED BY <3>1 DEF CrRoleKept
  <2>20. /\ "group" \in o \/ CrGroupKept(tables)
         /\ "block" \in o \/ CrBlockKept(tables)
         /\ "capacity" \in o \/ CrCapKept(tables)
         /\ CrCodesSound => "row" \in o \/ CrRowKept(r, row)
         /\ CrCodesSound => "row" \in o \/ \A c \in CrClasses :
              tables[c].co # {} => (IF c = crReqs[r].cls THEN row ELSE crRow[c]).code # 0
         /\ CrCodesSound => "row" \in o \/ "role" \in o \/ CrRoleKept(r, tables, row)
    BY <2>11, <2>12, <2>13, <2>14, <2>15, <2>16
  <2> QED BY ONLY RegisterInv, r \in 1 .. CrSlots, <2>1, <2>2, <2>3, <2>20, CrCommitsSound DEF o
<1> QED BY <1>1, <1>2 DEF CrSaves


LEMMA CrUpdateMetadataSound == ASSUME RegisterInv, NEW r \in 1 .. CrSlots, CrUpdateMetadata(r) PROVE RegisterInv'

<1>1. ASSUME NEW t \in CrTeachers, NEW c \in CrClasses, NEW cap \in CrCaps, crRow[c].alive,
             CrBegins(r, "metadata", c, CrNone, CrNone, [crRow[c] EXCEPT !.cap = cap])
      PROVE  RegisterInv'
  <2> DEFINE agg == [crRow[c] EXCEPT !.cap = cap]
  <2>1. "metadata" \in CrOps /\ agg \in CrRowOf /\ agg.alive
    <3>1. crRow[c] \in CrRowOf /\ crHist.codes + 1 \in Nat
      BY <1>1, CrRowTyped
    <3>2. "metadata" \in CrOps
      BY DEF CrOps, CrSaveOps
    <3>3. agg \in CrRowOf /\ agg.alive
      <4>1. cap \in Nat
        <5>1. Cardinality(CrStudents) \in Nat
          BY CrAssumption, FS_CardinalityType
        <5> QED BY <1>1, <5>1 DEF CrCaps
      <4> QED BY <1>1, <3>1, <4>1 DEF CrRowOf
    <3> QED BY <3>2, <3>3
  <2>2. CrBegins(r, "metadata", c, CrNone, CrNone, agg)
    BY <1>1
  <2> HIDE DEF agg
  <2>3. CrAbout([op |-> "metadata", cls |-> c, who |-> CrNone, arg |-> CrNone, agg |-> agg, stage |-> "check", seen |-> <<>>])
    BY <1>1, <2>1 DEF CrAbout, CrOfStudent, CrSaveOps
  <2>4. c \in CrClasses /\ CrNone \in CrStudents \cup {CrStudents, CrNone} /\ CrNone \in CrClasses \cup CrTeachers \cup CrGroups \cup {CrNone}
    BY <1>1
  <2> QED BY ONLY RegisterInv, r \in 1 .. CrSlots, <1>1, <2>1, <2>2, <2>3, <2>4, CrBeginsSound
<1>2. ASSUME CrSaves(r, "metadata", "cap") PROVE RegisterInv'
  <2>1. "metadata" \in CrSaveOps
    BY DEF CrSaveOps
  <2> QED BY <1>2, <2>1, CrSavesSound
<1> QED BY <1>1, <1>2 DEF CrUpdateMetadata, CrOwner, CrWriter, CrOpen


LEMMA CrRegenerateSound == ASSUME RegisterInv, NEW r \in 1 .. CrSlots, CrRegenerate(r) PROVE RegisterInv'

<1>1. ASSUME NEW t \in CrTeachers, NEW c \in CrClasses, crRow[c].alive,
             CrBegins(r, "regenerate", c, CrNone, CrNone, [crRow[c] EXCEPT !.code = crHist.codes + 1])
      PROVE  RegisterInv'
  <2> DEFINE agg == [crRow[c] EXCEPT !.code = crHist.codes + 1]
  <2>1. "regenerate" \in CrOps /\ agg \in CrRowOf /\ agg.alive /\ agg.code = crHist.codes + 1
    <3>1. crRow[c] \in CrRowOf /\ crHist.codes + 1 \in Nat
      BY <1>1, CrRowTyped
    <3>2. "regenerate" \in CrOps
      BY DEF CrOps, CrSaveOps
    <3>3. agg \in CrRowOf /\ agg.alive /\ agg.code = crHist.codes + 1
      BY <1>1, <3>1 DEF CrRowOf
    <3> QED BY <3>2, <3>3
  <2>2. CrBegins(r, "regenerate", c, CrNone, CrNone, agg)
    BY <1>1
  <2> HIDE DEF agg
  <2>3. CrAbout([op |-> "regenerate", cls |-> c, who |-> CrNone, arg |-> CrNone, agg |-> agg, stage |-> "check", seen |-> <<>>])
    BY <1>1, <2>1 DEF CrAbout, CrOfStudent, CrSaveOps
  <2>4. c \in CrClasses /\ CrNone \in CrStudents \cup {CrStudents, CrNone} /\ CrNone \in CrClasses \cup CrTeachers \cup CrGroups \cup {CrNone}
    BY <1>1
  <2> QED BY ONLY RegisterInv, r \in 1 .. CrSlots, <1>1, <2>1, <2>2, <2>3, <2>4, CrBeginsSound
<1>2. ASSUME CrSaves(r, "regenerate", "code") PROVE RegisterInv'
  <2>1. "regenerate" \in CrSaveOps
    BY DEF CrSaveOps
  <2> QED BY <1>2, <2>1, CrSavesSound
<1> QED BY <1>1, <1>2 DEF CrRegenerate, CrOwner, CrWriter, CrOpen


LEMMA CrArchiveSound == ASSUME RegisterInv, NEW r \in 1 .. CrSlots, CrArchive(r) PROVE RegisterInv'

<1>1. ASSUME NEW t \in CrTeachers, NEW c \in CrClasses, crRow[c].alive,
             CrBegins(r, "archive", c, CrNone, CrNone, [crRow[c] EXCEPT !.archived = TRUE])
      PROVE  RegisterInv'
  <2> DEFINE agg == [crRow[c] EXCEPT !.archived = TRUE]
  <2>1. "archive" \in CrOps /\ agg \in CrRowOf /\ agg.alive
    <3>1. crRow[c] \in CrRowOf /\ crHist.codes + 1 \in Nat
      BY <1>1, CrRowTyped
    <3>2. "archive" \in CrOps
      BY DEF CrOps, CrSaveOps
    <3>3. agg \in CrRowOf /\ agg.alive
      BY <1>1, <3>1 DEF CrRowOf
    <3> QED BY <3>2, <3>3
  <2>2. CrBegins(r, "archive", c, CrNone, CrNone, agg)
    BY <1>1
  <2> HIDE DEF agg
  <2>3. CrAbout([op |-> "archive", cls |-> c, who |-> CrNone, arg |-> CrNone, agg |-> agg, stage |-> "check", seen |-> <<>>])
    BY <1>1, <2>1 DEF CrAbout, CrOfStudent, CrSaveOps
  <2>4. c \in CrClasses /\ CrNone \in CrStudents \cup {CrStudents, CrNone} /\ CrNone \in CrClasses \cup CrTeachers \cup CrGroups \cup {CrNone}
    BY <1>1
  <2> QED BY ONLY RegisterInv, r \in 1 .. CrSlots, <1>1, <2>1, <2>2, <2>3, <2>4, CrBeginsSound
<1>2. ASSUME CrSaves(r, "archive", "archived") PROVE RegisterInv'
  <2>1. "archive" \in CrSaveOps
    BY DEF CrSaveOps
  <2> QED BY <1>2, <2>1, CrSavesSound
<1> QED BY <1>1, <1>2 DEF CrArchive, CrOwner, CrWriter, CrOpen


LEMMA CrUnarchiveSound == ASSUME RegisterInv, NEW r \in 1 .. CrSlots, CrUnarchive(r) PROVE RegisterInv'

<1>1. ASSUME NEW t \in CrTeachers, NEW c \in CrClasses, crRow[c].alive,
             CrBegins(r, "unarchive", c, CrNone, CrNone, [crRow[c] EXCEPT !.archived = FALSE])
      PROVE  RegisterInv'
  <2> DEFINE agg == [crRow[c] EXCEPT !.archived = FALSE]
  <2>1. "unarchive" \in CrOps /\ agg \in CrRowOf /\ agg.alive
    <3>1. crRow[c] \in CrRowOf /\ crHist.codes + 1 \in Nat
      BY <1>1, CrRowTyped
    <3>2. "unarchive" \in CrOps
      BY DEF CrOps, CrSaveOps
    <3>3. agg \in CrRowOf /\ agg.alive
      BY <1>1, <3>1 DEF CrRowOf
    <3> QED BY <3>2, <3>3
  <2>2. CrBegins(r, "unarchive", c, CrNone, CrNone, agg)
    BY <1>1
  <2> HIDE DEF agg
  <2>3. CrAbout([op |-> "unarchive", cls |-> c, who |-> CrNone, arg |-> CrNone, agg |-> agg, stage |-> "check", seen |-> <<>>])
    BY <1>1, <2>1 DEF CrAbout, CrOfStudent, CrSaveOps
  <2>4. c \in CrClasses /\ CrNone \in CrStudents \cup {CrStudents, CrNone} /\ CrNone \in CrClasses \cup CrTeachers \cup CrGroups \cup {CrNone}
    BY <1>1
  <2> QED BY ONLY RegisterInv, r \in 1 .. CrSlots, <1>1, <2>1, <2>2, <2>3, <2>4, CrBeginsSound
<1>2. ASSUME CrSaves(r, "unarchive", "archived") PROVE RegisterInv'
  <2>1. "unarchive" \in CrSaveOps
    BY DEF CrSaveOps
  <2> QED BY <1>2, <2>1, CrSavesSound
<1> QED BY <1>1, <1>2 DEF CrUnarchive, CrOwner, CrWriter, CrOpen


LEMMA CrTransferSound == ASSUME RegisterInv, NEW r \in 1 .. CrSlots, CrTransfer(r) PROVE RegisterInv'

<1>1. ASSUME NEW t \in CrTeachers, NEW c \in CrClasses, NEW u \in CrTeachers, crRow[c].alive,
             CrBegins(r, "transfer", c, CrNone, u, [crRow[c] EXCEPT !.owner = u])
      PROVE  RegisterInv'
  <2> DEFINE agg == [crRow[c] EXCEPT !.owner = u]
  <2>1. "transfer" \in CrOps /\ agg \in CrRowOf /\ agg.alive /\ agg.owner = u
    <3>1. crRow[c] \in CrRowOf /\ crHist.codes + 1 \in Nat
      BY <1>1, CrRowTyped
    <3>2. "transfer" \in CrOps
      BY DEF CrOps, CrSaveOps
    <3>3. agg \in CrRowOf /\ agg.alive /\ agg.owner = u
      BY <1>1, <3>1 DEF CrRowOf
    <3> QED BY <3>2, <3>3
  <2>2. CrBegins(r, "transfer", c, CrNone, u, agg)
    BY <1>1
  <2> HIDE DEF agg
  <2>3. CrAbout([op |-> "transfer", cls |-> c, who |-> CrNone, arg |-> u, agg |-> agg, stage |-> "check", seen |-> <<>>])
    BY <1>1, <2>1 DEF CrAbout, CrOfStudent, CrSaveOps
  <2>4. c \in CrClasses /\ CrNone \in CrStudents \cup {CrStudents, CrNone} /\ u \in CrClasses \cup CrTeachers \cup CrGroups \cup {CrNone}
    BY <1>1
  <2> QED BY ONLY RegisterInv, r \in 1 .. CrSlots, <1>1, <2>1, <2>2, <2>3, <2>4, CrBeginsSound
<1>2. ASSUME CrSaves(r, "transfer", "owner") PROVE RegisterInv'
  <2>1. "transfer" \in CrSaveOps
    BY DEF CrSaveOps
  <2> QED BY <1>2, <2>1, CrSavesSound
<1> QED BY <1>1, <1>2 DEF CrTransfer, CrOwner, CrWriter, CrOpen


LEMMA CrDeleteSound == ASSUME RegisterInv, NEW r \in 1 .. CrSlots, CrDelete(r) PROVE RegisterInv'

<1>1. ASSUME NEW t \in CrTeachers, NEW c \in CrClasses, CrBegins(r, "delete", c, CrNone, CrNone, crRow[c])
      PROVE  RegisterInv'
  <2>1. "delete" \in CrOps /\ crRow[c] \in CrRowOf
    BY <1>1, CrRowTyped DEF CrOps, CrOfStudent, CrSaveOps
  <2>2. CrAbout([op |-> "delete", cls |-> c, who |-> CrNone, arg |-> CrNone, agg |-> crRow[c], stage |-> "check", seen |-> <<>>])
    BY <1>1, <2>1 DEF CrAbout, CrOfStudent, CrSaveOps
  <2>3. c \in CrClasses /\ CrNone \in CrStudents \cup {CrStudents, CrNone} /\ CrNone \in CrClasses \cup CrTeachers \cup CrGroups \cup {CrNone}
    BY <1>1, CrRowTyped
  <2> QED BY ONLY RegisterInv, r \in 1 .. CrSlots, <1>1, <2>1, <2>2, <2>3, CrBeginsSound
<1>2. ASSUME CrIs(r, "delete", "check"), CrReads(r, TRUE) PROVE RegisterInv'
  <2>1. "delete" \in CrOps \ {"add", "join", "move"}
    BY DEF CrOps, CrOfStudent, CrSaveOps
  <2> QED BY <1>2, <2>1, CrReadsSound
<1>3. ASSUME CrIs(r, "delete", "write"),
             CrCommits(r, [crIn EXCEPT ![crReqs[r].cls] = [CrEmpty EXCEPT !.made = crIn[crReqs[r].cls].made]],
               [crRow[crReqs[r].cls] EXCEPT !.alive = FALSE], {})
      PROVE  RegisterInv'
  <2> DEFINE q == crReqs[r]
             k == q.cls
             in == [CrEmpty EXCEPT !.made = crIn[k].made]
             tables == [crIn EXCEPT ![k] = in]
             row == [crRow[k] EXCEPT !.alive = FALSE]
             o == CrOvertaken(q, tables, {})
  <2>1. q # CrIdle /\ q \in CrReqOf /\ q.op = "delete" /\ k \in CrClasses
    <3>1. "delete" \in CrOps
      BY DEF CrOps
    <3> QED BY <1>3, <3>1, CrBusy DEF CrReqOf
  <2>2. CrCommits(r, tables, row, {})
    BY <1>3
  <2>4. crIn[k].made \in SUBSET CrGroups
    BY <2>1, CrInTyped
  <2>5. /\ in \in CrInOf /\ in.members = {} /\ in.co = {} /\ \A s \in CrStudents : in.group[s] = CrNone
    BY <2>4 DEF CrInOf, CrEmpty
  <2>6. row \in CrRowOf /\ ~row.alive /\ row.code = crRow[k].code
    BY <2>1, CrTyped DEF CrRowOf
  <2> HIDE DEF in
  <2>7. tables \in [CrClasses -> CrInOf] /\ tables[k] = in /\ \A c \in CrClasses : c # k => tables[c] = crIn[c]
    BY <2>1, <2>5, CrTyped
  <2> HIDE DEF tables, row, o
  <2>3. tables \in [CrClasses -> CrInOf] /\ row \in CrRowOf
    BY <2>6, <2>7
  <2>11. "group" \in o \/ CrGroupKept(tables)
    BY <2>5, <2>7 DEF CrGroupKept
  <2>12. "block" \in o \/ CrBlockKept(tables)
    BY <2>5, <2>7 DEF CrBlockKept
  <2>13. "capacity" \in o \/ CrCapKept(tables)
    <3>1. ASSUME NEW c \in CrGrown(tables) PROVE FALSE
      <4>1. c \in CrClasses /\ CrCount(tables, c) > CrCount(crIn, c)
        BY <3>1 DEF CrGrown
      <4>2. CrCount(crIn, c) \in Nat /\ CrCount(tables, c) \in Nat
        BY <2>3, <4>1, CrFinite, CrTyped
      <4>3. CASE c = k
        <5>1. CrCount(tables, c) = 0
          BY <2>5, <2>7, <4>3, FS_EmptySet DEF CrCount
        <5> QED BY <4>1, <4>2, <5>1
      <4>4. CASE c # k
        BY <2>7, <4>1, <4>2, <4>4 DEF CrCount
      <4> QED BY <4>3, <4>4
    <3> QED BY <3>1 DEF CrCapKept
  <2>14. CrCodesSound => "row" \in o \/ CrRowKept(r, row)
    BY <2>6 DEF CrRowKept
  <2>15. CrCodesSound => "row" \in o \/ \A c \in CrClasses :
           tables[c].co # {} => (IF c = crReqs[r].cls THEN row ELSE crRow[c]).code # 0
    BY <2>5, <2>7 DEF CrCodesSound
  <2>16. CrCodesSound => "row" \in o \/ "role" \in o \/ CrRoleKept(r, tables, row)
    BY <2>6, <2>7 DEF CrRoleKept
  <2>20. /\ "group" \in o \/ CrGroupKept(tables)
         /\ "block" \in o \/ CrBlockKept(tables)
         /\ "capacity" \in o \/ CrCapKept(tables)
         /\ CrCodesSound => "row" \in o \/ CrRowKept(r, row)
         /\ CrCodesSound => "row" \in o \/ \A c \in CrClasses :
              tables[c].co # {} => (IF c = crReqs[r].cls THEN row ELSE crRow[c]).code # 0
         /\ CrCodesSound => "row" \in o \/ "role" \in o \/ CrRoleKept(r, tables, row)
    BY <2>11, <2>12, <2>13, <2>14, <2>15, <2>16
  <2> QED BY ONLY RegisterInv, r \in 1 .. CrSlots, <2>1, <2>2, <2>3, <2>20, CrCommitsSound DEF o
<1> QED BY <1>1, <1>2, <1>3 DEF CrDelete


(***************************************************************************)
(* The register's promises hold                                            *)
(***************************************************************************)
LEMMA CrInitial == CrInit => RegisterInv
<1> SUFFICES ASSUME CrInit PROVE RegisterInv
  OBVIOUS
<1> DEFINE s0 == CHOOSE p \in CrStudents : TRUE
           g0 == CHOOSE p \in CrGroups : TRUE
           t0 == CHOOSE t \in CrTeachers : TRUE
           n0 == Cardinality(CrStudents)
           owned(code, cap) == [alive |-> TRUE, owner |-> t0, code |-> code, archived |-> FALSE, cap |-> cap]
           absent == [alive |-> FALSE, owner |-> CrNone, code |-> 0, archived |-> FALSE, cap |-> 0]
           peopled == [CrEmpty EXCEPT !.members = {s0}, !.groups = {g0}, !.made = {g0}, !.group[s0] = g0]
<1>1. s0 \in CrStudents /\ g0 \in CrGroups /\ t0 \in CrTeachers /\ CrAnyClass \in CrClasses /\ n0 \in Nat
  BY CrAssumption, FS_CardinalityType DEF CrAnyClass
<1>2. PICK small \in CrClasses :
        /\ crRow = [c \in CrClasses |-> IF c = CrAnyClass THEN owned(1, n0)
                                      ELSE IF c = small THEN owned(2, 1) ELSE absent]
        /\ crUsers = IF small = CrAnyClass THEN {s0} ELSE CrStudents
  BY DEF CrInit
<1>3. crIn = [c \in CrClasses |-> IF c = CrAnyClass THEN peopled ELSE CrEmpty]
  BY DEF CrInit
<1>4. crReqs = [r \in 1 .. CrSlots |-> CrIdle] /\ crHist = [n |-> 0, codes |-> 2, revoked |-> {}, over |-> {}, overtaken |-> {}]
  BY DEF CrInit
<1> HIDE DEF s0, g0, t0, n0
<1>5. /\ owned(1, n0) \in CrRowOf /\ owned(1, n0).code = 1
      /\ owned(2, 1) \in CrRowOf /\ owned(2, 1).code = 2
      /\ absent \in CrRowOf /\ absent.code = 0 /\ ~absent.alive
  BY <1>1 DEF CrRowOf
<1> DEFINE first == owned(1, n0)
           second == owned(2, 1)
<1>11. \A c \in CrClasses : crRow[c] = IF c = CrAnyClass THEN first ELSE IF c = small THEN second ELSE absent
  BY <1>2
<1>14. first \in CrRowOf /\ first.code = 1 /\ second \in CrRowOf /\ second.code = 2
  BY <1>5
<1> HIDE DEF first, second, absent
<1>6. CrEmpty \in CrInOf /\ CrEmpty.members = {} /\ CrEmpty.blocked = {} /\ CrEmpty.co = {} /\ \A s \in CrStudents : CrEmpty.group[s] = CrNone
  BY DEF CrEmpty, CrInOf
<1>7. peopled \in CrInOf /\ peopled.members = {s0} /\ peopled.blocked = {} /\ peopled.co = {} /\ \A s \in CrStudents \ {s0} : peopled.group[s] = CrNone
  <2> DEFINE f == [CrEmpty.group EXCEPT ![s0] = g0]
  <2>1. f \in [CrStudents -> CrGroups \cup {CrNone}] /\ \A s \in CrStudents \ {s0} : f[s] = CrNone
    BY <1>1, <1>6 DEF CrInOf
  <2>2. peopled = [CrEmpty EXCEPT !.members = {s0}, !.groups = {g0}, !.made = {g0}, !.group = f]
    OBVIOUS
  <2> HIDE DEF f, peopled
  <2> QED BY <1>1, <1>6, <2>1, <2>2 DEF CrInOf
<1> HIDE DEF peopled
<1>8. \A c \in CrClasses :
        /\ crRow[c] \in CrRowOf /\ crIn[c] \in CrInOf /\ crIn[c] \in {peopled, CrEmpty}
        /\ crRow[c].code = (IF c = CrAnyClass THEN 1 ELSE IF c = small THEN 2 ELSE 0)
        /\ (crRow[c].code = 0 => ~crRow[c].alive)
  <2>1. ASSUME NEW c \in CrClasses
        PROVE  /\ crRow[c] \in CrRowOf /\ crRow[c].code = (IF c = CrAnyClass THEN 1 ELSE IF c = small THEN 2 ELSE 0)
               /\ (crRow[c].code = 0 => ~crRow[c].alive)
    <3>1. CASE c = CrAnyClass
      BY <1>11, <1>14, <3>1
    <3>2. CASE c # CrAnyClass /\ c = small
      BY <1>11, <1>14, <3>2
    <3>3. CASE c # CrAnyClass /\ c # small
      BY <1>5, <1>11, <3>3
    <3> QED BY <3>1, <3>2, <3>3
  <2>2. \A c \in CrClasses : crIn[c] \in CrInOf /\ crIn[c] \in {peopled, CrEmpty}
    BY <1>3, <1>6, <1>7
  <2> QED BY <2>1, <2>2
<1>9. CrTypeOK
  <2>1. crRow \in [CrClasses -> CrRowOf] /\ crIn \in [CrClasses -> CrInOf]
    <3>1. DOMAIN crRow = CrClasses /\ DOMAIN crIn = CrClasses /\ crRow = [c \in CrClasses |-> crRow[c]] /\ crIn = [c \in CrClasses |-> crIn[c]]
      BY <1>2, <1>3
    <3> QED BY <1>8, <3>1
  <2>2. crUsers \in SUBSET CrStudents
    BY <1>1, <1>2
  <2> QED BY <1>4, <2>1, <2>2 DEF CrTypeOK
<1>10. CrReqsSound
  BY <1>4 DEF CrReqsSound
<1>12. RegisterHolds
  <2>1. GroupedAreMembers
    BY <1>6, <1>7, <1>8 DEF GroupedAreMembers
  <2>2. BlockedStayOut
    BY <1>6, <1>7, <1>8 DEF BlockedStayOut
  <2>3. WithinCapacity /\ RevokedCodes
    BY <1>4 DEF WithinCapacity, RevokedCodes
  <2>4. OneRole
    BY <1>6, <1>7, <1>8 DEF OneRole
  <2> QED BY <2>1, <2>2, <2>3, <2>4 DEF RegisterHolds

<1>13. CrCodesSound
  <2>1. \A r \in 1 .. CrSlots : ~CrIssues(r)
    BY <1>4 DEF CrIssues
  <2>2. /\ \A c \in CrClasses : crRow[c].code <= crHist.codes
        /\ \A k \in crHist.revoked : k <= crHist.codes
    BY <1>4, <1>8
  <2>3. /\ \A c \in CrClasses : crRow[c].code = 0 => ~crRow[c].alive /\ crIn[c].co = {}
        /\ \A c, d \in CrClasses : c # d /\ crRow[c].code = crRow[d].code => crRow[c].code = 0
    BY <1>6, <1>7, <1>8
  <2> QED BY <2>1, <2>2, <2>3 DEF CrCodesSound
<1> QED BY <1>9, <1>10, <1>12, <1>13 DEF RegisterInv, CrRowsSound

LEMMA CrInductive == ASSUME RegisterInv, [CrNext]_crVars PROVE RegisterInv'
<1>1. ASSUME UNCHANGED crVars PROVE RegisterInv'
  BY <1>1 DEF crVars, RegisterInv, CrTypeOK, CrReqsSound, CrRowsSound, CrCodesSound, CrIssues, RegisterHolds,
       GroupedAreMembers, BlockedStayOut, WithinCapacity, OneRole, RevokedCodes
<1>2. ASSUME NEW r \in 1 .. CrSlots,
             CrAddStudent(r) \/ CrBulkAdd(r) \/ CrRemoveStudent(r) \/ CrMoveStudent(r) \/ CrJoin(r) \/ CrRevoke(r) \/ CrClaim(r) \/ CrRegister(r)
             \/ CrNewGroup(r) \/ CrDropGroup(r) \/ CrAddGroupMember(r) \/ CrRemoveGroupMember(r) \/ CrCreate(r) \/ CrUpdateMetadata(r) \/ CrRegenerate(r)
             \/ CrArchive(r) \/ CrUnarchive(r) \/ CrTransfer(r) \/ CrDelete(r) \/ CrAddCoTeacher(r) \/ CrRemoveCoTeacher(r) \/ CrFails(r)
      PROVE  RegisterInv'
  <2>1. CASE CrAddStudent(r)
    BY <2>1, CrAddStudentSound
  <2>2. CASE CrBulkAdd(r)
    BY <2>2, CrBulkAddSound
  <2>3. CASE CrRemoveStudent(r)
    BY <2>3, CrRemoveStudentSound
  <2>4. CASE CrMoveStudent(r)
    BY <2>4, CrMoveStudentSound
  <2>5. CASE CrJoin(r)
    BY <2>5, CrJoinSound
  <2>6. CASE CrRevoke(r)
    BY <2>6, CrRevokeSound
  <2>7. CASE CrClaim(r)
    BY <2>7, CrClaimSound
  <2>8. CASE CrRegister(r)
    BY <2>8, CrRegisterSound
  <2>9. CASE CrNewGroup(r)
    BY <2>9, CrNewGroupSound
  <2>10. CASE CrDropGroup(r)
    BY <2>10, CrDropGroupSound
  <2>11. CASE CrAddGroupMember(r)
    BY <2>11, CrAddGroupMemberSound
  <2>12. CASE CrRemoveGroupMember(r)
    BY <2>12, CrRemoveGroupMemberSound
  <2>13. CASE CrCreate(r)
    BY <2>13, CrCreateSound
  <2>14. CASE CrUpdateMetadata(r)
    BY <2>14, CrUpdateMetadataSound
  <2>15. CASE CrRegenerate(r)
    BY <2>15, CrRegenerateSound
  <2>16. CASE CrArchive(r)
    BY <2>16, CrArchiveSound
  <2>17. CASE CrUnarchive(r)
    BY <2>17, CrUnarchiveSound
  <2>18. CASE CrTransfer(r)
    BY <2>18, CrTransferSound
  <2>19. CASE CrDelete(r)
    BY <2>19, CrDeleteSound
  <2>20. CASE CrAddCoTeacher(r)
    BY <2>20, CrAddCoTeacherSound
  <2>21. CASE CrRemoveCoTeacher(r)
    BY <2>21, CrRemoveCoTeacherSound
  <2>22. CASE CrFails(r)
    BY <2>22, CrFailsSound
  <2> QED BY <1>2, <2>1, <2>2, <2>3, <2>4, <2>5, <2>6, <2>7, <2>8, <2>9, <2>10, <2>11, <2>12, <2>13, <2>14, <2>15, <2>16, <2>17, <2>18, <2>19, <2>20, <2>21, <2>22
<1> QED BY <1>1, <1>2 DEF CrNext

\* What a request relies on, and with it every promise of the register, holds in every
\* state that overlapping requests reach.
THEOREM RegisterInvHolds == CrSpec => []RegisterInv
BY CrInitial, CrInductive, PTL DEF CrSpec

(***************************************************************************)
(* The class as a whole                                                    *)
(***************************************************************************)
\* A behaviour of the class is one of each of its parts.
THEOREM RoomParts == RoomSpec => Spec /\ CrSpec
<1>1. RoomInit => Init /\ CrInit
  BY DEF RoomInit
<1>2. [RoomNext]_roomVars => [Next]_vars /\ [CrNext]_crVars
  BY DEF RoomNext, roomVars
<1> QED BY <1>1, <1>2, PTL DEF RoomSpec, Spec, CrSpec

\* Who is in a group is in its class; who was removed stays out until a teacher takes them
\* back; no request fills a class beyond its capacity; nobody is owner and co-teacher; and
\* a code that was replaced opens no class: unless a write relied on a check that had been
\* overtaken, in which case the one promise behind that check is given up.
THEOREM RegisterHoldsAlways == RoomSpec => []RegisterHolds
<1>1. RegisterInv => RegisterHolds
  BY DEF RegisterInv
<1> QED BY <1>1, RoomParts, RegisterInvHolds, PTL
=============================================================================
