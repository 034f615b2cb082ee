------------------------------ MODULE ClassDesk ------------------------------
(***************************************************************************)
(* ClassView, the desk of a teacher: the list of classes, the selected     *)
(* class with its roster and panels, the open QR code.  Every button sends *)
(* a request, most of them load something again when it is answered, and   *)
(* nothing on the page says which request an answer belongs to.  Names     *)
(* start with Cl, this module being composed with others in Pages.         *)
(***************************************************************************)
EXTENDS Integers, FiniteSets

CONSTANTS
  ClClasses,   \* classes
  ClStudent,   \* the student who is added, removed and grouped
  ClCalls,     \* bound on requests
  ClFlight,    \* bound on requests under way at a time
  ClFaults     \* bound on requests the network loses

ASSUME ClAssumption == {ClCalls, ClFlight, ClFaults} \subseteq Nat

VARIABLES
  clRow,     \* the server's classes
  clList,    \* the join codes of the listed classes
  clSel,     \* the selected class and group
  clShown,   \* roster, panels, group members: the class each is of, and who is in it
  clQr,      \* the QR panel
  clCalls,   \* requests under way
  clHist     \* number of the last request, losses, whether two rosters were under way
clVars == <<clRow, clList, clSel, clShown, clQr, clCalls, clHist>>

ClUnlisted == 0
ClNowhere == [of |-> "none", who |-> {}]
ClRoster(c) == [of |-> c, who |-> clRow[c].members]

(* ---- requests ---------------------------------------------------------------- *)
\* A request op for class c; flag is the button that waits for it.
ClRequest(op, c, flag) ==
  [n |-> clHist.n + 1, op |-> op, cls |-> c, flag |-> flag, stage |-> "sent", res |-> "none"]

ClSend(calls, op, c, flag) ==
  /\ clHist.n < ClCalls /\ Cardinality(calls) < ClFlight
  /\ clCalls' = calls \cup {ClRequest(op, c, flag)}
  /\ clHist' = [clHist EXCEPT !.n = @ + 1,
                  !.crossed = @ \/ (op = "roster" /\ \E d \in calls : d.op = "roster")]

\* regeneratingId, addingStudent and their like.
ClBusy(flag) == \E d \in clCalls : d.flag = flag

\* What the class service makes of a request.
ClRefused(d) ==
  LET row == clRow[d.cls] IN
  \/ d.op \notin {"create", "list"} /\ ~row.alive
  \/ d.op \in {"add", "regen"} /\ row.archived
  \/ d.op = "add" /\ ClStudent \in row.members
  \/ d.op = "remove" /\ ClStudent \notin row.members

ClAfter(d) ==
  CASE d.op = "create" -> [clRow[d.cls] EXCEPT !.alive = TRUE]
    [] d.op = "add" -> [clRow[d.cls] EXCEPT !.members = @ \cup {ClStudent}]
    [] d.op = "remove" -> [clRow[d.cls] EXCEPT !.members = @ \ {ClStudent}, !.group = @ \ {ClStudent}]
    [] d.op = "regen" -> [clRow[d.cls] EXCEPT !.code = @ + 1]
    [] d.op = "archive" -> [clRow[d.cls] EXCEPT !.archived = ~@]
    [] d.op = "delete" -> [clRow[d.cls] EXCEPT !.alive = FALSE, !.members = {}, !.group = {}]
    [] d.op = "assign" -> [clRow[d.cls] EXCEPT !.group = @ \cup (clRow[d.cls].members \cap {ClStudent})]
    [] d.op = "unassign" -> [clRow[d.cls] EXCEPT !.group = @ \ {ClStudent}]
    [] OTHER -> clRow[d.cls]

ClHandled(d) ==
  /\ d.stage = "sent" /\ d.cls # "none" /\ ~ClRefused(d)
  /\ clRow' = [clRow EXCEPT ![d.cls] = ClAfter(d)]
  /\ clCalls' = (clCalls \ {d}) \cup
       {[d EXCEPT !.stage = "done",
           !.res = CASE d.op = "roster" -> clRow[d.cls].members
                     [] d.op = "group" -> clRow[d.cls].group
                     [] d.op = "qr" -> clRow[d.cls].code
                     [] d.op = "regen" -> clRow[d.cls].code + 1
                     [] d.op = "list" -> [c \in ClClasses |-> IF clRow[c].alive THEN clRow[c].code ELSE ClUnlisted]
                     [] OTHER -> "none"]}
  /\ UNCHANGED <<clList, clSel, clShown, clQr, clHist>>

\* The network loses a request, or its answer, or the service refuses it.
ClFails(d) ==
  /\ IF d.stage = "sent" /\ (d.cls = "none" \/ ClRefused(d)) THEN UNCHANGED clHist
     ELSE /\ clHist.faults < ClFaults
          /\ clHist' = [clHist EXCEPT !.faults = @ + 1, !.lost = @ \/ d.op \notin {"roster", "group", "qr"}]
  /\ clCalls' = clCalls \ {d}
  /\ clShown' = IF d.op = "roster" THEN [clShown EXCEPT !.roster = ClNowhere] ELSE clShown
  /\ UNCHANGED <<clRow, clList, clSel, clQr>>

(* ---- what an answer does --------------------------------------------------------- *)
ClIs(d, op) == d.stage = "done" /\ d.op = op

\* loadClasses
ClListed(d) ==
  /\ ClIs(d, "list")
  /\ clList' = d.res /\ clCalls' = clCalls \ {d}
  /\ UNCHANGED <<clRow, clSel, clShown, clQr, clHist>>

\* create, join, rename, archive and transfer end with the list.
ClChanged(d) ==
  /\ d.stage = "done" /\ d.op \in {"create", "archive"}
  /\ ClSend(clCalls \ {d}, "list", d.cls, d.flag)
  /\ UNCHANGED <<clRow, clList, clSel, clShown, clQr>>

\* selectClass, once its four requests have been answered.
ClLoaded(d) ==
  /\ ClIs(d, "roster")
  /\ clShown' = [clShown EXCEPT !.roster = [of |-> d.cls, who |-> d.res], !.panels = d.cls]
  /\ clCalls' = clCalls \ {d}
  /\ UNCHANGED <<clRow, clList, clSel, clQr, clHist>>

\* The selection is cleared, the panel is closed, and the roster is asked for.
ClSelecting(c) ==
  /\ clSel' = [cls |-> c, group |-> FALSE]
  /\ clQr' = [clQr EXCEPT !.open = FALSE]

\* Mutant: a change of the roster is not read back.
ClMembersChangedOnly(d) ==
  /\ d.stage = "done" /\ d.op \in {"add", "remove"}
  /\ clCalls' = clCalls \ {d}
  /\ UNCHANGED <<clRow, clList, clSel, clShown, clQr, clHist>>

\* addStudent, bulkAddStudents, removeStudent: the class that is selected by now is
\* loaded again.
ClMembersChanged(d) ==
  /\ d.stage = "done" /\ d.op \in {"add", "remove"}
  /\ ClSend(clCalls \ {d}, "roster", clSel.cls, d.flag)
  /\ ClSelecting(clSel.cls)
  /\ UNCHANGED <<clRow, clList, clShown>>

ClDeleted(d) ==
  /\ ClIs(d, "delete")
  /\ IF clSel.cls = d.cls
     THEN clSel' = [clSel EXCEPT !.cls = "none"] /\ clShown' = [clShown EXCEPT !.roster = ClNowhere]
     ELSE UNCHANGED <<clSel, clShown>>
  /\ ClSend(clCalls \ {d}, "list", d.cls, d.flag)
  /\ UNCHANGED <<clRow, clList, clQr>>

\* The row of the class gets its new code, and so does an open panel of it.
ClRegenerated(d) ==
  /\ ClIs(d, "regen")
  /\ clList' = [clList EXCEPT ![d.cls] = IF @ = ClUnlisted THEN @ ELSE d.res]
  /\ IF clQr.open /\ clQr.of = d.cls THEN ClSend(clCalls \ {d}, "qr", d.cls, d.flag)
     ELSE clCalls' = clCalls \ {d} /\ UNCHANGED clHist
  /\ UNCHANGED <<clRow, clSel, clShown, clQr>>

ClQrLoaded(d) ==
  /\ ClIs(d, "qr")
  /\ clQr' = [open |-> TRUE, of |-> d.cls, code |-> d.res]
  /\ clCalls' = clCalls \ {d}
  /\ UNCHANGED <<clRow, clList, clSel, clShown, clHist>>

\* The members of the group, for whatever group is open by now.
ClGrouped(d) ==
  /\ d.stage = "done" /\ d.op \in {"assign", "unassign"}
  /\ ClSend(clCalls \ {d}, "group", clSel.cls, "none")
  /\ UNCHANGED <<clRow, clList, clSel, clShown, clQr>>

ClGroupLoaded(d) ==
  /\ ClIs(d, "group")
  /\ clShown' = [clShown EXCEPT !.group = [of |-> d.cls, who |-> d.res]]
  /\ clCalls' = clCalls \ {d}
  /\ UNCHANGED <<clRow, clList, clSel, clQr, clHist>>

(* ---- the buttons -------------------------------------------------------------------- *)
ClSelect(c) ==
  /\ clList[c] # ClUnlisted
  /\ ClSend(clCalls, "roster", c, "none") /\ ClSelecting(c)
  /\ UNCHANGED <<clRow, clList, clShown>>

ClPress(op, c, flag) ==
  /\ flag = "none" \/ ~ClBusy(flag)
  /\ ClSend(clCalls, op, c, flag)
  /\ UNCHANGED <<clRow, clList, clSel, clShown, clQr>>

ClCreate(c) == clList[c] = ClUnlisted /\ ~clRow[c].alive /\ clRow[c].code = 1 /\ ClPress("create", c, "creating")
ClReload == ClPress("list", CHOOSE c \in ClClasses : TRUE, "none")
ClArchive(c) == clList[c] # ClUnlisted /\ ClPress("archive", c, "archiving")
ClDelete(c) == clList[c] # ClUnlisted /\ ClPress("delete", c, "deleting")
ClRegenerate(c) == clList[c] # ClUnlisted /\ ClPress("regen", c, "regenerating")
ClOpenQr(c) == clList[c] # ClUnlisted /\ ClPress("qr", c, "none")

ClCloseQr ==
  /\ clQr.open /\ clQr' = [clQr EXCEPT !.open = FALSE]
  /\ UNCHANGED <<clRow, clList, clSel, clShown, clCalls, clHist>>

\* The section of the selected class is there while the class is in the list.
ClSection == clSel.cls # "none" /\ clList[clSel.cls] # ClUnlisted
ClAdd == ClSection /\ ClPress("add", clSel.cls, "adding")

\* The button of a student stands in the roster, the request names the selected class.
ClRemove == ClSection /\ ClStudent \in clShown.roster.who /\ ClPress("remove", clSel.cls, "none")

ClOpenGroup ==
  /\ ClSection /\ clShown.panels # "none"
  /\ ClSend(clCalls, "group", clSel.cls, "none")
  /\ clSel' = [clSel EXCEPT !.group = TRUE]
  /\ UNCHANGED <<clRow, clList, clShown, clQr>>
ClAssign ==
  ClSection /\ clSel.group /\ ClStudent \in clShown.roster.who /\ ClPress("assign", clSel.cls, "none")
ClUnassign ==
  ClSection /\ clSel.group /\ ClStudent \in clShown.group.who /\ ClPress("unassign", clSel.cls, "none")

(* ---- specification --------------------------------------------------------------------- *)
\* onMounted loads the list; the second class may still have to be created.
ClInit ==
  /\ \E have \in (SUBSET ClClasses) \ {{}}, members \in SUBSET {ClStudent} :
       clRow = [c \in ClClasses |-> [alive |-> c \in have, archived |-> FALSE, code |-> 1,
         members |-> IF c \in have THEN members ELSE {}, group |-> IF c \in have THEN members ELSE {}]]
  /\ clList = [c \in ClClasses |-> ClUnlisted]
  /\ clSel = [cls |-> "none", group |-> FALSE]
  /\ clShown = [roster |-> ClNowhere, panels |-> "none", group |-> ClNowhere]
  /\ clQr = [open |-> FALSE, of |-> "none", code |-> 0]
  /\ clHist = [n |-> 1, faults |-> 0, crossed |-> FALSE, lost |-> FALSE]
  /\ clCalls = {[n |-> 1, op |-> "list", cls |-> CHOOSE c \in ClClasses : TRUE, flag |-> "none",
                 stage |-> "sent", res |-> "none"]}

ClNext ==
  \/ \E d \in clCalls :
       \/ ClHandled(d) \/ ClFails(d)
       \/ ClListed(d) \/ ClChanged(d) \/ ClLoaded(d) \/ ClMembersChanged(d) \/ ClDeleted(d)
       \/ ClRegenerated(d) \/ ClQrLoaded(d) \/ ClGrouped(d) \/ ClGroupLoaded(d)
  \/ \E c \in ClClasses :
       ClSelect(c) \/ ClCreate(c) \/ ClArchive(c) \/ ClDelete(c) \/ ClRegenerate(c) \/ ClOpenQr(c)
  \/ ClReload \/ ClCloseQr \/ ClAdd \/ ClRemove \/ ClOpenGroup \/ ClAssign \/ ClUnassign

(* ---- properties --------------------------------------------------------------------------- *)
\* When nothing is under way and no two loads of a roster have crossed, the roster on
\* the page is the one the server keeps of the selected class.
RosterOfSelected ==
  clCalls = {} /\ ~clHist.crossed /\ ~clHist.lost /\ ClSection /\ clShown.roster # ClNowhere =>
    clShown.roster = ClRoster(clSel.cls)

(* ---- the inductive invariant behind RosterOfSelected ----------------------------------------- *)
ClOps == {"list", "roster", "create", "archive", "add", "remove", "delete", "regen", "qr", "assign", "unassign", "group"}
ClRowType ==
  [alive : BOOLEAN, archived : BOOLEAN, code : Nat, members : SUBSET {ClStudent}, group : SUBSET {ClStudent}]
ClHistType == [n : Nat, faults : Nat, crossed : BOOLEAN, lost : BOOLEAN]
ClCallType(d) ==
  /\ d = [n |-> d.n, op |-> d.op, cls |-> d.cls, flag |-> d.flag, stage |-> d.stage, res |-> d.res]
  /\ d.op \in ClOps /\ d.cls \in ClClasses \cup {"none"} /\ d.stage \in {"sent", "done"}

\* What the invariant needs of the variables' types.
ClTypeOK ==
  /\ ClClasses # {} /\ clRow \in [ClClasses -> ClRowType]
  /\ clSel \in [cls : ClClasses \cup {"none"}, group : BOOLEAN]
  /\ clShown = [roster |-> clShown.roster, panels |-> clShown.panels, group |-> clShown.group]
  /\ clHist \in ClHistType
  /\ \A d \in clCalls : ClCallType(d)

\* A change of the selected roster was made that the page has not read back.
RosterDue ==
  \E d \in clCalls : d.stage = "done" /\ (d.op \in {"add", "remove"} \/ (d.op = "delete" /\ d.cls = clSel.cls))

\* One roster at a time is asked for, and it is the one of the selected class.
OneRoster ==
  ~clHist.crossed =>
    /\ \A d, e \in clCalls : d.op = "roster" /\ e.op = "roster" => d = e
    /\ clSel.cls # "none" => \A d \in clCalls : d.op = "roster" => d.cls = clSel.cls

\* An answered roster, and one on the page while none is asked for, is what the server
\* keeps, or is due to be read again.
RosterFollows ==
  ~clHist.crossed /\ ~clHist.lost /\ clSel.cls # "none" /\ ~RosterDue =>
    /\ \A d \in clCalls : d.op = "roster" /\ d.stage = "done" => d.res = clRow[clSel.cls].members
    /\ \/ \E d \in clCalls : d.op = "roster"
       \/ clShown.roster \in {ClNowhere, ClRoster(clSel.cls)}

ClassDeskInv == ClTypeOK /\ OneRoster /\ RosterFollows
=============================================================================
