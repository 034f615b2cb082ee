--------------------------- MODULE ClassRegister ---------------------------
(***************************************************************************)
(* class_service on the server: classes with their owner, co-teachers,     *)
(* students, groups, invites and removals, under requests that overlap.  A *)
(* handler loads its class and asks whether the requester may, reads what  *)
(* it checks, and writes and commits: three steps.  Nothing that was read  *)
(* is locked (READ COMMITTED), only unique and foreign keys hold at the    *)
(* write.  A request that its class does not let in changes nothing and is *)
(* left out.  The occupations that a removal deletes are in Territory.     *)
(* Names start with Cr, this module being composed with others in Classroom. *)
(***************************************************************************)
EXTENDS Integers, FiniteSets

CONSTANTS
  CrClasses,
  CrStudents,   \* students, each with one email
  CrTeachers,
  CrGroups,     \* groups that a class may get
  CrNone,       \* no group, no teacher
  CrSlots,      \* bound on requests handled at a time
  CrMax         \* bound on requests

ASSUME CrAssumption ==
  /\ CrSlots \in Nat /\ CrMax \in Nat /\ CrNone \notin CrGroups /\ IsFiniteSet(CrStudents)
  /\ CrClasses # {} /\ CrStudents # {} /\ CrTeachers # {} /\ CrGroups # {}

VARIABLES
  crRow,    \* classes: owner, join code, archived, capacity
  crIn,     \* the tables that name a class: memberships, removals, invites, co-teachers,
            \* groups (made: with those deleted since)
  crUsers,  \* the students who have an account
  crReqs,   \* requests under way
  crHist    \* requests so far, codes issued and revoked, classes overfilled, checks overtaken
crVars == <<crRow, crIn, crUsers, crReqs, crHist>>

CrIdle == [op |-> "idle"]
CrEmpty ==
  [members |-> {}, blocked |-> {}, invited |-> {}, co |-> {}, groups |-> {}, made |-> {},
   group |-> [s \in CrStudents |-> CrNone]]
\* A capacity that nobody exceeds stands for none.
CrCaps == 1 .. Cardinality(CrStudents)
CrCount(in, c) == Cardinality(in[c].members)

(* ---- who may ------------------------------------------------------------------------ *)
CrOwner(t, c) == crRow[c].alive /\ crRow[c].owner = t
CrWriter(t, c) == crRow[c].alive /\ t \in {crRow[c].owner} \cup crIn[c].co
CrOpen(c) == crRow[c].alive /\ ~crRow[c].archived

(* ---- a handler's three steps ---------------------------------------------------------- *)
\* A request takes the first slot that is idle.
CrFree(r) == crHist.n < CrMax /\ crReqs[r] = CrIdle /\ \A p \in 1 .. r - 1 : crReqs[p] # CrIdle
CrIs(r, op, stage) == crReqs[r].op = op /\ crReqs[r].stage = stage

\* The class is loaded: agg is the aggregate, as the handler may have changed it in memory.
CrBegins(r, op, c, who, arg, agg) ==
  /\ crReqs' = [crReqs EXCEPT ![r] =
       [op |-> op, cls |-> c, who |-> who, arg |-> arg, agg |-> agg, stage |-> "check", seen |-> <<>>]]
  /\ crHist' = [crHist EXCEPT !.n = @ + 1, !.codes = IF agg.code > @ THEN agg.code ELSE @]
  /\ UNCHANGED <<crRow, crIn, crUsers>>

\* The checks pass, and what was read is remembered; or the request is refused.
CrReads(r, passes) ==
  /\ crReqs' = [crReqs EXCEPT ![r] =
       IF passes THEN [@ EXCEPT !.stage = "write", !.seen = [in |-> crIn, row |-> crRow, users |-> crUsers]]
       ELSE CrIdle]
  /\ UNCHANGED <<crRow, crIn, crUsers, crHist>>

\* A key that does not hold at the write, a name that is taken, a crash: rolled back.
CrFails(r) ==
  /\ crReqs[r] # CrIdle
  /\ crReqs' = [crReqs EXCEPT ![r] = CrIdle]
  /\ UNCHANGED <<crRow, crIn, crUsers, crHist>>

(* ---- bookkeeping for the properties: which checks no longer held at the write ---------- *)
CrGrown(tables) == {c \in CrClasses : CrCount(tables, c) > CrCount(crIn, c)}
CrCapRead(q, c) == IF q.op = "claim" THEN q.seen.row[c].cap ELSE q.agg.cap

CrOvertaken(q, tables, own) ==
  LET in == crIn[q.cls]  was == q.seen.in[q.cls] IN
  {k \in {"group", "block", "capacity", "role", "row"} :
     CASE k = "group" ->
            \/ q.op = "group" /\ q.who \notin in.members
            \/ q.op \in {"remove", "move"} /\ in.group[q.who] # was.group[q.who]
       [] k = "block" ->
            /\ q.op \in {"join", "claim"}
            /\ \E c \in CrClasses : q.who \in tables[c].members \cap crIn[c].blocked
       [] k = "capacity" ->
            \E c \in CrGrown(tables) :
              CrCount(q.seen.in, c) # CrCount(crIn, c) \/ CrCapRead(q, c) # crRow[c].cap
       [] k = "role" ->
            \/ q.op = "addCo" /\ q.arg = crRow[q.cls].owner
            \/ q.op = "transfer" /\ q.arg \in in.co \ was.co
       [] k = "row" -> \E f \in own : q.agg[f] # q.seen.row[q.cls][f]}

\* Writes and commit; others are the fields of the row that the handler did not mean to change.
CrCommits(r, tables, row, others) ==
  LET q == crReqs[r] IN
  /\ crIn' = tables /\ crRow' = [crRow EXCEPT ![q.cls] = row]
  /\ crReqs' = [crReqs EXCEPT ![r] = CrIdle]
  /\ crHist' = [crHist EXCEPT
       !.revoked = IF row.code # crRow[q.cls].code \/ ~row.alive THEN @ \cup {crRow[q.cls].code} ELSE @,
       !.over = @ \cup {c \in CrGrown(tables) : CrCount(tables, c) > crRow[c].cap},
       !.overtaken = @ \cup CrOvertaken(q, tables, others)]
  /\ UNCHANGED crUsers

\* A write that leaves the row of the class alone.
CrTables(r, in) ==
  CrCommits(r, [crIn EXCEPT ![crReqs[r].cls] = in], crRow[crReqs[r].cls], {})

(* ---- students ------------------------------------------------------------------------- *)
\* add_student and bulk_add_students: membership in, removal and invite out.
CrTaken(in, who) ==
  [in EXCEPT !.members = @ \cup who, !.blocked = @ \ who, !.invited = @ \ who]

CrAddStudent(r) ==
  LET q == crReqs[r] IN
  \/ CrFree(r) /\ \E t \in CrTeachers, c \in CrClasses, s \in CrStudents :
       CrWriter(t, c) /\ CrOpen(c) /\ CrBegins(r, "add", c, s, CrNone, crRow[c])
  \/ /\ CrIs(r, "add", "check")
     /\ CrReads(r, q.who \in crUsers \ crIn[q.cls].members /\ CrCount(crIn, q.cls) < q.agg.cap)
  \/ /\ CrIs(r, "add", "write") /\ crRow[q.cls].alive /\ q.who \notin crIn[q.cls].members
     /\ CrTables(r, CrTaken(crIn[q.cls], {q.who}))

\* Students are taken while there is room, whoever comes first in the list; an email
\* without an account is invited.  A row that a key refuses is skipped.
CrBulkAdd(r) ==
  LET q == crReqs[r]
      fit == (q.who \cap q.seen.users) \ (q.seen.in[q.cls].members \cup crIn[q.cls].members)
      room == q.agg.cap - CrCount(q.seen.in, q.cls)
  IN
  \/ CrFree(r) /\ \E t \in CrTeachers, c \in CrClasses :
       CrWriter(t, c) /\ CrOpen(c) /\ CrBegins(r, "bulk", c, CrStudents, CrNone, crRow[c])
  \/ CrIs(r, "bulk", "check") /\ CrReads(r, TRUE)
  \/ /\ CrIs(r, "bulk", "write") /\ crRow[q.cls].alive
     /\ \E taken \in SUBSET fit :
          /\ Cardinality(taken) <= room \/ taken = {}
          /\ taken = fit \/ Cardinality(taken) >= room
          /\ CrTables(r, [CrTaken(crIn[q.cls], taken) EXCEPT !.invited = @ \cup (q.who \ q.seen.users)])

\* Mutant: who is removed stays in the group.
CrRemovedOnly(in, s, g) == [in EXCEPT !.members = @ \ {s}, !.blocked = @ \cup {s}]
\* The group is left that was found, whatever the group is by now.
CrUngrouped(in, s, g) == IF in.group[s] = g THEN [in EXCEPT !.group[s] = CrNone] ELSE in
CrRemoved(in, s, g) ==
  [CrUngrouped(in, s, g) EXCEPT !.members = @ \ {s}, !.blocked = @ \cup {s}]

CrRemoveStudent(r) ==
  LET q == crReqs[r] IN
  \/ CrFree(r) /\ \E t \in CrTeachers, c \in CrClasses, s \in CrStudents :
       CrWriter(t, c) /\ CrBegins(r, "remove", c, s, CrNone, crRow[c])
  \/ CrIs(r, "remove", "check") /\ CrReads(r, q.who \in crIn[q.cls].members)
  \/ /\ CrIs(r, "remove", "write") /\ crRow[q.cls].alive
     /\ CrTables(r, CrRemoved(crIn[q.cls], q.who, q.seen.in[q.cls].group[q.who]))

\* To the class arg, whose capacity counts; an invite to it stays.
CrEntered(in, s) == [in EXCEPT !.members = @ \cup {s}, !.blocked = @ \ {s}]

CrMoveStudent(r) ==
  LET q == crReqs[r] IN
  \/ CrFree(r) /\ \E t \in CrTeachers, c \in CrClasses, d \in CrClasses, s \in CrStudents :
       /\ d # c /\ CrWriter(t, c) /\ CrWriter(t, d) /\ CrOpen(d)
       /\ CrBegins(r, "move", c, s, d, crRow[d])
  \/ /\ CrIs(r, "move", "check")
     /\ CrReads(r, q.who \in crIn[q.cls].members \ crIn[q.arg].members /\ CrCount(crIn, q.arg) < q.agg.cap)
  \/ /\ CrIs(r, "move", "write") /\ crRow[q.cls].alive /\ crRow[q.arg].alive
     /\ q.who \notin crIn[q.arg].members
     /\ CrCommits(r, [crIn EXCEPT
          ![q.cls] = CrRemoved(@, q.who, q.seen.in[q.cls].group[q.who]),
          ![q.arg] = CrEntered(@, q.who)], crRow[q.cls], {})

\* By a code, and never past a removal; an invite stays.
CrJoin(r) ==
  LET q == crReqs[r] IN
  \/ CrFree(r) /\ \E c \in CrClasses, s \in crUsers :
       CrOpen(c) /\ CrBegins(r, "join", c, s, CrNone, crRow[c])
  \/ /\ CrIs(r, "join", "check")
     /\ CrReads(r, /\ q.who \notin crIn[q.cls].members \cup crIn[q.cls].blocked
                   /\ CrCount(crIn, q.cls) < q.agg.cap)
  \/ /\ CrIs(r, "join", "write") /\ crRow[q.cls].alive /\ q.who \notin crIn[q.cls].members
     /\ CrTables(r, [crIn[q.cls] EXCEPT !.members = @ \cup {q.who}])

(* ---- invites -------------------------------------------------------------------------- *)
CrRevoke(r) ==
  LET q == crReqs[r] IN
  \/ CrFree(r) /\ \E t \in CrTeachers, c \in CrClasses, s \in CrStudents :
       CrWriter(t, c) /\ CrBegins(r, "revoke", c, s, CrNone, crRow[c])
  \/ CrIs(r, "revoke", "check") /\ CrReads(r, q.who \in crIn[q.cls].invited)
  \/ CrIs(r, "revoke", "write") /\ CrTables(r, [crIn[q.cls] EXCEPT !.invited = @ \ {q.who}])

\* An invite of a full class waits, any other is used up.
CrClaimed(q, c) ==
  LET was == q.seen.in[c]  row == q.seen.row[c]  s == q.who  in == crIn[c]
      out == ~row.alive \/ row.archived \/ s \in was.members \cup was.blocked
  IN CASE s \notin was.invited \/ (~out /\ CrCount(q.seen.in, c) >= row.cap) -> in
       [] out \/ ~crRow[c].alive -> [in EXCEPT !.invited = @ \ {s}]
       [] OTHER -> [in EXCEPT !.members = @ \cup {s}, !.invited = @ \ {s}]

CrAnyClass == CHOOSE c \in CrClasses : TRUE
CrClaim(r) ==
  LET q == crReqs[r] IN
  \/ CrFree(r) /\ \E s \in crUsers : CrBegins(r, "claim", CrAnyClass, s, CrNone, crRow[CrAnyClass])
  \/ CrIs(r, "claim", "check") /\ CrReads(r, TRUE)
  \/ /\ CrIs(r, "claim", "write")
     /\ CrCommits(r, [c \in CrClasses |-> CrClaimed(q, c)], crRow[q.cls], {})

\* An account; its invites are claimed at once, as far as that succeeds.
CrRegister(r) ==
  LET q == crReqs[r] IN
  \/ CrFree(r) /\ \E s \in CrStudents \ crUsers :
       CrBegins(r, "register", CrAnyClass, s, CrNone, crRow[CrAnyClass])
  \/ /\ CrIs(r, "register", "check") /\ q.who \notin crUsers
     /\ crUsers' = crUsers \cup {q.who}
     /\ crReqs' = [crReqs EXCEPT ![r].op = "claim"]
     /\ UNCHANGED <<crRow, crIn, crHist>>

(* ---- groups --------------------------------------------------------------------------- *)
CrNewGroup(r) ==
  LET q == crReqs[r] IN
  \/ CrFree(r) /\ \E t \in CrTeachers, c \in CrClasses, g \in CrGroups :
       CrWriter(t, c) /\ CrOpen(c) /\ CrBegins(r, "newGroup", c, CrNone, g, crRow[c])
  \/ CrIs(r, "newGroup", "check") /\ CrReads(r, TRUE)
  \/ /\ CrIs(r, "newGroup", "write") /\ crRow[q.cls].alive /\ q.arg \notin crIn[q.cls].made
     /\ CrTables(r, [crIn[q.cls] EXCEPT !.groups = @ \cup {q.arg}, !.made = @ \cup {q.arg}])

CrDropGroup(r) ==
  LET q == crReqs[r] IN
  \/ CrFree(r) /\ \E t \in CrTeachers, c \in CrClasses, g \in CrGroups :
       CrWriter(t, c) /\ CrBegins(r, "dropGroup", c, CrNone, g, crRow[c])
  \/ CrIs(r, "dropGroup", "check") /\ CrReads(r, q.arg \in crIn[q.cls].groups)
  \/ /\ CrIs(r, "dropGroup", "write")
     /\ CrTables(r, [crIn[q.cls] EXCEPT !.groups = @ \ {q.arg},
          !.group = [s \in CrStudents |-> IF @[s] = q.arg THEN CrNone ELSE @[s]]])

\* Into the group arg; a row of the group that was found is deleted first, a row of any
\* other group refuses the insert.
CrAddGroupMember(r) ==
  LET q == crReqs[r] IN
  \/ CrFree(r) /\ \E t \in CrTeachers, c \in CrClasses, s \in CrStudents, g \in CrGroups :
       CrWriter(t, c) /\ CrBegins(r, "group", c, s, g, crRow[c])
  \/ /\ CrIs(r, "group", "check")
     /\ CrReads(r, LET in == crIn[q.cls] IN
          q.arg \in in.groups /\ q.who \in in.members /\ in.group[q.who] # q.arg)
  \/ /\ CrIs(r, "group", "write") /\ q.arg \in crIn[q.cls].groups
     /\ crIn[q.cls].group[q.who] \in {CrNone, q.seen.in[q.cls].group[q.who]}
     /\ CrTables(r, [crIn[q.cls] EXCEPT !.group[q.who] = q.arg])

CrRemoveGroupMember(r) ==
  LET q == crReqs[r] IN
  \/ CrFree(r) /\ \E t \in CrTeachers, c \in CrClasses, s \in CrStudents, g \in CrGroups :
       CrWriter(t, c) /\ CrBegins(r, "ungroup", c, s, g, crRow[c])
  \/ CrIs(r, "ungroup", "check") /\ CrReads(r, crIn[q.cls].group[q.who] = q.arg)
  \/ CrIs(r, "ungroup", "write") /\ CrTables(r, CrUngrouped(crIn[q.cls], q.who, q.arg))

(* ---- the row of a class ------------------------------------------------------------------ *)
CrCreate(r) ==
  LET q == crReqs[r] IN
  \/ CrFree(r) /\ \E t \in CrTeachers, c \in CrClasses, cap \in CrCaps :
       /\ crRow[c].code = 0
       /\ CrBegins(r, "create", c, CrNone, CrNone,
            [alive |-> TRUE, owner |-> t, code |-> crHist.codes + 1, archived |-> FALSE, cap |-> cap])
  \/ CrIs(r, "create", "check") /\ CrReads(r, TRUE)
  \/ CrIs(r, "create", "write") /\ crRow[q.cls].code = 0 /\ CrCommits(r, crIn, q.agg, {})

\* repository.save selects the row anew, and assigns every field of the aggregate: what
\* differs from that row is written.  Without a row it inserts one.
CrSaved(q) ==
  LET was == q.seen.row[q.cls] IN
  IF ~was.alive THEN q.agg
  ELSE [f \in DOMAIN q.agg |-> IF q.agg[f] # was[f] THEN q.agg[f] ELSE crRow[q.cls][f]]
CrSaves(r, op, field) ==
  LET q == crReqs[r] IN
  \/ CrIs(r, op, "check") /\ CrReads(r, TRUE)
  \/ /\ CrIs(r, op, "write") /\ crRow[q.cls].alive = q.seen.row[q.cls].alive
     /\ CrCommits(r, [crIn EXCEPT ![q.cls].co =
          IF op = "transfer" /\ q.arg \in q.seen.in[q.cls].co THEN @ \ {q.arg} ELSE @],
          CrSaved(q), DOMAIN q.agg \ {field})

CrUpdateMetadata(r) ==
  \/ CrFree(r) /\ \E t \in CrTeachers, c \in CrClasses, cap \in CrCaps :
       /\ CrWriter(t, c) /\ CrOpen(c)
       /\ CrBegins(r, "metadata", c, CrNone, CrNone, [crRow[c] EXCEPT !.cap = cap])
  \/ CrSaves(r, "metadata", "cap")
CrRegenerate(r) ==
  \/ CrFree(r) /\ \E t \in CrTeachers, c \in CrClasses :
       /\ CrWriter(t, c) /\ CrOpen(c)
       /\ CrBegins(r, "regenerate", c, CrNone, CrNone, [crRow[c] EXCEPT !.code = crHist.codes + 1])
  \/ CrSaves(r, "regenerate", "code")
CrArchive(r) ==
  \/ CrFree(r) /\ \E t \in CrTeachers, c \in CrClasses :
       /\ CrOwner(t, c) /\ CrOpen(c)
       /\ CrBegins(r, "archive", c, CrNone, CrNone, [crRow[c] EXCEPT !.archived = TRUE])
  \/ CrSaves(r, "archive", "archived")
CrUnarchive(r) ==
  \/ CrFree(r) /\ \E t \in CrTeachers, c \in CrClasses :
       /\ CrOwner(t, c) /\ ~CrOpen(c)
       /\ CrBegins(r, "unarchive", c, CrNone, CrNone, [crRow[c] EXCEPT !.archived = FALSE])
  \/ CrSaves(r, "unarchive", "archived")
\* A co-teacher who becomes the owner is no co-teacher any more.
CrTransfer(r) ==
  \/ CrFree(r) /\ \E t \in CrTeachers, c \in CrClasses, u \in CrTeachers :
       u # t /\ CrOwner(t, c) /\ CrBegins(r, "transfer", c, CrNone, u, [crRow[c] EXCEPT !.owner = u])
  \/ CrSaves(r, "transfer", "owner")

CrDelete(r) ==
  LET q == crReqs[r] IN
  \/ CrFree(r) /\ \E t \in CrTeachers, c \in CrClasses :
       CrOwner(t, c) /\ CrBegins(r, "delete", c, CrNone, CrNone, crRow[c])
  \/ CrIs(r, "delete", "check") /\ CrReads(r, TRUE)
  \/ /\ CrIs(r, "delete", "write")
     /\ CrCommits(r, [crIn EXCEPT ![q.cls] = [CrEmpty EXCEPT !.made = crIn[q.cls].made]],
          [crRow[q.cls] EXCEPT !.alive = FALSE], {})

(* ---- co-teachers --------------------------------------------------------------------------- *)
CrAddCoTeacher(r) ==
  LET q == crReqs[r] IN
  \/ CrFree(r) /\ \E t \in CrTeachers, c \in CrClasses, u \in CrTeachers :
       u # t /\ CrOwner(t, c) /\ CrBegins(r, "addCo", c, CrNone, u, crRow[c])
  \/ CrIs(r, "addCo", "check") /\ CrReads(r, q.arg \notin crIn[q.cls].co)
  \/ /\ CrIs(r, "addCo", "write") /\ crRow[q.cls].alive /\ q.arg \notin crIn[q.cls].co
     /\ CrTables(r, [crIn[q.cls] EXCEPT !.co = @ \cup {q.arg}])
CrRemoveCoTeacher(r) ==
  LET q == crReqs[r] IN
  \/ CrFree(r) /\ \E t \in CrTeachers, c \in CrClasses, u \in CrTeachers :
       CrOwner(t, c) /\ CrBegins(r, "dropCo", c, CrNone, u, crRow[c])
  \/ CrIs(r, "dropCo", "check") /\ CrReads(r, q.arg \in crIn[q.cls].co)
  \/ CrIs(r, "dropCo", "write") /\ CrTables(r, [crIn[q.cls] EXCEPT !.co = @ \ {q.arg}])

(* ---- specification --------------------------------------------------------------------------- *)
\* The classes of one teacher: one in use, with a student in a group, and a small one; or the
\* small one has still to be created, and the other students have no account yet.
CrInit ==
  LET s == CHOOSE p \in CrStudents : TRUE
      g == CHOOSE p \in CrGroups : TRUE
      owned(code, cap) == [alive |-> TRUE, owner |-> CHOOSE t \in CrTeachers : TRUE, code |-> code,
                           archived |-> FALSE, cap |-> cap]
      absent == [alive |-> FALSE, owner |-> CrNone, code |-> 0, archived |-> FALSE, cap |-> 0]
      inUse(c) == c = CrAnyClass
  IN /\ \E small \in CrClasses :
          /\ crRow = [c \in CrClasses |-> IF inUse(c) THEN owned(1, Cardinality(CrStudents))
               ELSE IF c = small THEN owned(2, 1) ELSE absent]
          /\ crUsers = IF inUse(small) THEN {s} ELSE CrStudents
     /\ crIn = [c \in CrClasses |-> IF inUse(c)
          THEN [CrEmpty EXCEPT !.members = {s}, !.groups = {g}, !.made = {g}, !.group[s] = g] ELSE CrEmpty]
     /\ crReqs = [r \in 1 .. CrSlots |-> CrIdle]
     /\ crHist = [n |-> 0, codes |-> 2, revoked |-> {}, over |-> {}, overtaken |-> {}]

CrNext ==
  \E r \in 1 .. CrSlots :
    \/ CrAddStudent(r) \/ CrBulkAdd(r) \/ CrRemoveStudent(r) \/ CrMoveStudent(r) \/ CrJoin(r)
    \/ CrRevoke(r) \/ CrClaim(r) \/ CrRegister(r)
    \/ CrNewGroup(r) \/ CrDropGroup(r) \/ CrAddGroupMember(r) \/ CrRemoveGroupMember(r)
    \/ CrCreate(r) \/ CrUpdateMetadata(r) \/ CrRegenerate(r) \/ CrArchive(r) \/ CrUnarchive(r)
    \/ CrTransfer(r) \/ CrDelete(r) \/ CrAddCoTeacher(r) \/ CrRemoveCoTeacher(r)
    \/ CrFails(r)
CrSpec == CrInit /\ [][CrNext]_crVars

(* ---- properties -------------------------------------------------------------------------------- *)
\* Whoever is in a group is in its class.
GroupedAreMembers ==
  "group" \in crHist.overtaken \/
  \A c \in CrClasses, s \in CrStudents : crIn[c].group[s] # CrNone => s \in crIn[c].members
\* Who was removed comes back by the teacher alone, and is then no longer listed as removed.
BlockedStayOut ==
  "block" \in crHist.overtaken \/ \A c \in CrClasses : crIn[c].members \cap crIn[c].blocked = {}
\* No request fills a class beyond its capacity.
WithinCapacity == "capacity" \in crHist.overtaken \/ crHist.over = {}
\* Nobody is owner and co-teacher of a class.
OneRole ==
  crHist.overtaken \cap {"role", "row"} # {} \/
  \A c \in CrClasses : crRow[c].alive => crRow[c].owner \notin crIn[c].co
\* A code that was replaced, or whose class was deleted, opens no class any more.
RevokedCodes ==
  "row" \in crHist.overtaken \/ \A c \in CrClasses : crRow[c].alive => crRow[c].code \notin crHist.revoked

\* What the requests check one by one holds of the tables together, through any sequence
\* of requests that overlap, as long as no write relied on a check behind it that had been
\* overtaken; what each kind of overtaken check breaks is that one promise.
RegisterHolds == GroupedAreMembers /\ BlockedStayOut /\ WithinCapacity /\ OneRole /\ RevokedCodes

(* ---- the inductive invariant -------------------------------------------------------------------- *)
CrRowOf == [alive : BOOLEAN, owner : CrTeachers \cup {CrNone}, code : Nat, archived : BOOLEAN, cap : Nat]
CrInOf ==
  [members : SUBSET CrStudents, blocked : SUBSET CrStudents, invited : SUBSET CrStudents,
   co : SUBSET CrTeachers, groups : SUBSET CrGroups, made : SUBSET CrGroups,
   group : [CrStudents -> CrGroups \cup {CrNone}]]
CrSeenOf == [in : [CrClasses -> CrInOf], row : [CrClasses -> CrRowOf], users : SUBSET CrStudents]
CrKinds == {"group", "block", "capacity", "role", "row"}
CrSaveOps == {"metadata", "regenerate", "archive", "unarchive", "transfer"}
CrOfStudent == {"add", "remove", "move", "join", "revoke", "claim", "register", "group", "ungroup"}
CrOps == CrSaveOps \cup CrOfStudent \cup {"bulk", "newGroup", "dropGroup", "create", "delete", "addCo", "dropCo"}
CrReqOf ==
  [op : CrOps, cls : CrClasses, who : CrStudents \cup {CrStudents, CrNone},
   arg : CrClasses \cup CrTeachers \cup CrGroups \cup {CrNone}, agg : CrRowOf, stage : {"check", "write"},
   seen : CrSeenOf \cup {<<>>}]

CrTypeOK ==
  /\ crRow \in [CrClasses -> CrRowOf] /\ crIn \in [CrClasses -> CrInOf] /\ crUsers \in SUBSET CrStudents
  /\ crReqs \in [1 .. CrSlots -> CrReqOf \cup {CrIdle}]
  /\ crHist \in [n : Nat, codes : Nat, revoked : SUBSET Nat, over : SUBSET CrClasses, overtaken : SUBSET CrKinds]

\* What a request is about, and what it was let through for.
CrAbout(q) ==
  /\ q.op \in CrOfStudent => q.who \in CrStudents
  /\ q.op = "bulk" => q.who = CrStudents
  /\ q.op = "move" => q.arg \in CrClasses \ {q.cls}
  /\ q.op \in {"newGroup", "dropGroup", "group"} => q.arg \in CrGroups
  /\ q.op \in {"addCo", "transfer"} => q.arg \in CrTeachers
  /\ q.op \in CrSaveOps => q.agg.alive
  /\ q.op = "transfer" => q.agg.owner = q.arg
CrPassed(q) ==
  q.stage = "write" =>
    /\ q.seen \in CrSeenOf
    /\ q.op \in {"add", "join"} => CrCount(q.seen.in, q.cls) < q.agg.cap
    /\ q.op = "move" => CrCount(q.seen.in, q.arg) < q.agg.cap
CrReqsSound == \A r \in 1 .. CrSlots : crReqs[r] # CrIdle => CrAbout(crReqs[r]) /\ CrPassed(crReqs[r])

\* A code is one class's, of now or of before; a code that is issued and not yet written is
\* one request's.  A class that was never created has no co-teacher.
CrIssues(r) == crReqs[r] # CrIdle /\ crReqs[r].op \in {"create", "regenerate"}
CrCodesSound ==
  /\ \A c \in CrClasses : crRow[c].code <= crHist.codes
  /\ \A k \in crHist.revoked : k <= crHist.codes
  /\ \A c \in CrClasses : crRow[c].code = 0 => ~crRow[c].alive /\ crIn[c].co = {}
  /\ \A c, d \in CrClasses : c # d /\ crRow[c].code = crRow[d].code => crRow[c].code = 0
  /\ \A r \in 1 .. CrSlots : CrIssues(r) =>
       LET k == crReqs[r].agg.code IN
       /\ 0 < k /\ k <= crHist.codes /\ k \notin crHist.revoked
       /\ \A c \in CrClasses : crRow[c].code # k
       /\ \A p \in 1 .. CrSlots : p # r /\ CrIssues(p) => crReqs[p].agg.code # k
CrRowsSound == "row" \in crHist.overtaken \/ CrCodesSound

RegisterInv == CrTypeOK /\ CrReqsSound /\ CrRowsSound /\ RegisterHolds
=============================================================================
