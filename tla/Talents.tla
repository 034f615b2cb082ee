------------------------------ MODULE Talents ------------------------------
(***************************************************************************)
(* The talent tree: TalentTreeView in the tabs of one player, the          *)
(* talentStore of each tab, which the towers of a game read, and the       *)
(* talent service over the stored allocations.  Names start with Ta, this  *)
(* module being composed with others in Pages.                             *)
(***************************************************************************)
EXTENDS Integers, FiniteSets

CONSTANTS
  TaTabs,    \* tabs of the player
  TaEarned,  \* talent points of the player's achievements
  TaClicks,  \* bound on what is asked of the service
  TaFaults   \* bound on the answers lost

ASSUME TaAssumption == TaEarned \in Nat /\ TaClicks \in Nat /\ TaFaults \in Nat

VARIABLES
  taRows,   \* stored level of each node
  taLock,   \* the request that holds the player's row, and the levels it has read
  taTab,    \* per tab: the tree shown, the node it waits for, the store, the confirmation
  taCalls,  \* requests under way, at most one of a tab and the load of its store
  taHist    \* clicks, answers lost
taVars == <<taRows, taLock, taTab, taCalls, taHist>>

(* ---- the definitions, one tower of them ------------------------------------ *)
\* A root, a node that needs it, and an advanced node that needs that one full.
TaNodes == {"root", "mid", "top"}
TaMax == [n \in TaNodes |-> IF n = "mid" THEN 2 ELSE 1]
TaCost == [n \in TaNodes |-> IF n = "top" THEN 2 ELSE 1]
TaPrerequisites == [n \in TaNodes |-> IF n = "mid" THEN {"root"} ELSE {}]
TaPrerequisiteMaxLevels == [n \in TaNodes |-> IF n = "top" THEN {"mid"} ELSE {}]

TaBare == [n \in TaNodes |-> 0]
TaNobody == [tab |-> "none", op |-> "none"]
TaSpent(levels) ==
  TaCost["root"] * levels["root"] + TaCost["mid"] * levels["mid"] + TaCost["top"] * levels["top"]

\* nodePrereqMet in the view, the two loops of TalentTree.allocate in the service.
TaMet(n, levels) ==
  /\ \A p \in TaPrerequisites[n] : levels[p] >= 1
  /\ \A p \in TaPrerequisiteMaxLevels[n] : levels[p] >= TaMax[p]
TaCanAllocate(n, levels) ==
  levels[n] < TaMax[n] /\ TaEarned - TaSpent(levels) >= TaCost[n] /\ TaMet(n, levels)

(* ---- TalentTreeView and talentStore ------------------------------------------- *)
\* live: the view that asked is still on the page.
TaCall(tab, op, node) ==
  [tab |-> tab, op |-> op, node |-> node, live |-> TRUE, stage |-> "sent", res |-> TaBare]
TaOf(tab) == {c \in taCalls : c.tab = tab}
TaMore == taHist.clicks < TaClicks
TaClick == TaMore /\ taHist' = [taHist EXCEPT !.clicks = @ + 1]

\* load() takes no token: loads of the store may cross.
TaCrossing(tab) == \E c \in TaOf(tab) : c.op = "modifiers"
TaLeft(tab) == {IF c.tab = tab THEN [c EXCEPT !.live = FALSE] ELSE c : c \in {d \in taCalls : d.tab # tab \/ d.op # "tree"}}

\* The view is opened; a game boots and loads the store on its own.
TaOpen(tab) ==
  /\ taTab[tab].at # "tree" /\ TaClick
  /\ taTab' = [taTab EXCEPT ![tab].at = "tree", ![tab].known = FALSE, ![tab].busy = FALSE]
  /\ taCalls' = taCalls \cup {TaCall(tab, "tree", "none")}
  /\ UNCHANGED <<taRows, taLock>>
TaGame(tab) ==
  /\ taTab[tab].at # "game" /\ TaMore
  /\ taTab' = [taTab EXCEPT ![tab].at = "game"]
  /\ taCalls' = TaLeft(tab) \cup {TaCall(tab, "modifiers", "game")}
  /\ taHist' = [taHist EXCEPT !.clicks = @ + 1, !.crossed = @ \/ TaCrossing(tab)]
  /\ UNCHANGED <<taRows, taLock>>

TaIdle(tab) == taTab[tab].at = "tree" /\ taTab[tab].known /\ ~taTab[tab].busy
TaAsk(tab, op, node) ==
  /\ TaClick
  /\ taTab' = [taTab EXCEPT ![tab].busy = TRUE]
  /\ taCalls' = taCalls \cup {TaCall(tab, op, node)}
  /\ UNCHANGED <<taRows, taLock>>

\* canAllocate of the tree on the page.
TaAllocate(tab, node) == TaIdle(tab) /\ TaCanAllocate(node, taTab[tab].tree) /\ TaAsk(tab, "allocate", node)
\* After the confirmation.
TaReset(tab) == TaIdle(tab) /\ TaSpent(taTab[tab].tree) # 0 /\ TaAsk(tab, "reset", "none")

TaTaken(c) == taCalls' = taCalls \ {c}
TaShown(c) == IF c.live THEN [taTab EXCEPT ![c.tab].tree = c.res, ![c.tab].known = TRUE] ELSE taTab
TaSettled(c, store) ==
  [taTab EXCEPT ![c.tab].store = store, ![c.tab].busy = @ /\ ~(c.node = "view" /\ c.live)]

TaTreeShown(c) ==
  /\ c.op = "tree" /\ TaTaken(c)
  /\ taTab' = TaShown(c)
  /\ UNCHANGED <<taRows, taLock, taHist>>

\* The new tree is shown and the store loaded; the view waits for both.
TaChanged(c) ==
  /\ c.op \in {"allocate", "reset"}
  /\ taTab' = TaShown(c)
  /\ taCalls' = (taCalls \ {c}) \cup {[TaCall(c.tab, "modifiers", "view") EXCEPT !.live = c.live]}
  /\ taHist' = [taHist EXCEPT !.crossed = @ \/ TaCrossing(c.tab)]
  /\ UNCHANGED <<taRows, taLock>>

TaLoaded(c) ==
  /\ c.op = "modifiers" /\ TaTaken(c)
  /\ taTab' = TaSettled(c, c.res)
  /\ UNCHANGED <<taRows, taLock, taHist>>

\* A failed load leaves no bonus at all; a refused change leaves the old tree.
TaFailed(c) ==
  /\ TaTaken(c)
  /\ taTab' = CASE c.op = "modifiers" -> TaSettled(c, TaBare)
              [] c.op = "tree" \/ ~c.live -> taTab
              [] OTHER -> [taTab EXCEPT ![c.tab].busy = FALSE]
  /\ UNCHANGED <<taRows, taLock>>
TaRefused(c) == c.stage = "refused" /\ TaFailed(c) /\ UNCHANGED taHist
TaLost(c) ==
  /\ c.stage \in {"sent", "done"} /\ taHist.faults < TaFaults
  /\ TaFailed(c) /\ taHist' = [taHist EXCEPT !.faults = @ + 1]

(* ---- TalentApplicationService ----------------------------------------------------- *)
TaStage(c, stage, res) == taCalls' = (taCalls \ {c}) \cup {[c EXCEPT !.stage = stage, !.res = res]}

TaRead(c) ==
  /\ c.stage = "sent" /\ c.op \in {"tree", "modifiers"}
  /\ TaStage(c, "done", taRows)
  /\ UNCHANGED <<taRows, taLock, taTab, taHist>>

\* Mutant: the allocations are read without the lock of the player's row.
TaFreeAlways == TRUE

\* acquire_user_lock
TaFree == taLock = {}

TaAcquire(c) ==
  /\ c.stage = "sent" /\ c.op \in {"allocate", "reset"} /\ TaFree
  /\ taLock' = taLock \cup {c.tab}
  /\ TaStage(c, "held", taRows)
  /\ UNCHANGED <<taRows, taTab, taHist>>

\* allocate checks the levels that were read and saves one of them; reset deletes all.
TaCommit(c) ==
  /\ c.stage = "held" /\ taLock' = taLock \ {c.tab}
  /\ IF c.op = "allocate" /\ ~TaCanAllocate(c.node, c.res)
     THEN TaStage(c, "refused", TaBare) /\ UNCHANGED taRows
     ELSE /\ taRows' = IF c.op = "reset" THEN TaBare ELSE [taRows EXCEPT ![c.node] = c.res[c.node] + 1]
          /\ TaStage(c, "stored", taRows')
  /\ UNCHANGED <<taTab, taHist>>

\* The answer is the tree read again after the commit.
TaReread(c) ==
  /\ c.stage = "stored" /\ TaStage(c, "done", taRows)
  /\ UNCHANGED <<taRows, taLock, taTab, taHist>>

(* ---- specification ------------------------------------------------------------------- *)
TaInit ==
  /\ taRows = TaBare /\ taLock = {} /\ taCalls = {}
  /\ taTab = [t \in TaTabs |-> [at |-> "menu", tree |-> TaBare, known |-> FALSE, busy |-> FALSE, store |-> TaBare]]
  /\ taHist = [clicks |-> 0, faults |-> 0, crossed |-> FALSE]

TaNext ==
  \/ \E tab \in TaTabs : TaOpen(tab) \/ TaGame(tab) \/ TaReset(tab) \/ \E n \in TaNodes : TaAllocate(tab, n)
  \/ \E c \in taCalls :
       \/ c.stage = "done" /\ (TaTreeShown(c) \/ TaChanged(c) \/ TaLoaded(c))
       \/ TaRefused(c) \/ TaLost(c)
       \/ TaRead(c) \/ TaAcquire(c) \/ TaCommit(c) \/ TaReread(c)

(* ---- properties --------------------------------------------------------------------------- *)
\* Whatever two tabs allocate and reset at once, no more points are spent than were
\* earned, and every node that has a level has what it needs.
TreeLegal ==
  /\ TaSpent(taRows) <= TaEarned
  /\ \A n \in TaNodes : taRows[n] <= TaMax[n] /\ (taRows[n] > 0 => TaMet(n, taRows))

\* Where one tab is alone, no answer was lost and no two loads of its store crossed,
\* a game has the bonuses of the stored tree once nothing is under way.
BonusesOfTree ==
  \A tab \in TaTabs :
    /\ TaOf(tab) = {} /\ taHist.faults = 0 /\ ~taHist.crossed
    /\ taTab[tab].at = "game" /\ \A t \in TaTabs \ {tab} : taTab[t].at = "menu"
    => taTab[tab].store = taRows

\* The tree is a legal one, and the game plays by it.
TalentsHold == TreeLegal /\ BonusesOfTree

(* ---- the inductive invariant behind TalentsHold --------------------------------------- *)
TaLevels == [TaNodes -> Nat]
TaTabRecord == [at : {"menu", "tree", "game"}, tree : TaLevels, known : BOOLEAN, busy : BOOLEAN, store : TaLevels]
TaRequest ==
  [tab : TaTabs, op : {"tree", "modifiers", "allocate", "reset"}, node : TaNodes \cup {"none", "game", "view"},
   live : BOOLEAN, stage : {"sent", "held", "stored", "refused", "done"}, res : TaLevels]

\* Rows, trees, stores and answers are levels of the nodes.
TaTypeOK ==
  /\ taRows \in TaLevels /\ taLock \subseteq TaTabs
  /\ taTab \in [TaTabs -> TaTabRecord]
  /\ taCalls \subseteq TaRequest
  /\ taHist \in [clicks : Nat, faults : Nat, crossed : BOOLEAN]

\* One request holds the row, and the levels it has read are the stored ones.
LockHeld ==
  /\ \A c \in taCalls : c.stage = "held" => taLock = {c.tab} /\ c.res = taRows
  /\ \A c, d \in taCalls : c.stage = "held" /\ d.stage = "held" => c = d

\* Only a change is held, stored or refused, and of a change only an allocation of a node.
ChangesOnly ==
  \A c \in taCalls :
    /\ c.stage \in {"held", "stored"} => c.op \in {"allocate", "reset"}
    /\ c.stage = "refused" => c.op = "allocate"
    /\ c.op = "allocate" => c.node \in TaNodes

\* A tab that was not opened yet asks nothing.
AskedByOpen == \A c \in taCalls : taTab[c.tab].at # "menu"

\* A change was stored whose load of the store is still to come.
ReloadOwed == \E c \in taCalls : c.op \in {"allocate", "reset"} /\ c.stage \in {"stored", "done"}
TaAlone(tab) == \A t \in TaTabs \ {tab} : taTab[t].at = "menu"

\* No two loads of a store are under way but where that was noted.
OneLoad ==
  ~taHist.crossed => \A c, d \in taCalls : c.op = "modifiers" /\ d.op = "modifiers" /\ c.tab = d.tab => c = d

\* Unless a reload is owed, a load that was answered brings the stored levels, and the
\* store of the tab has them or is being loaded.
StoreFollows ==
  ~taHist.crossed /\ taHist.faults = 0 /\ ~ReloadOwed =>
    \A tab \in TaTabs : TaAlone(tab) =>
      /\ \A c \in taCalls : c.op = "modifiers" /\ c.stage = "done" => c.res = taRows
      /\ taTab[tab].store = taRows \/ \E c \in taCalls : c.op = "modifiers"

TalentsInv == TaTypeOK /\ TreeLegal /\ LockHeld /\ ChangesOnly /\ AskedByOpen /\ OneLoad /\ StoreFollows
=============================================================================
