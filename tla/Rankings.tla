------------------------------ MODULE Rankings ------------------------------
(***************************************************************************)
(* The views that list what the server ranks and keeps: RankingsView with  *)
(* its five tabs over one loader, LeaderboardView with its debounced one,  *)
(* AdminView.  Each asks again whenever the player picks something else,   *)
(* and answers come in any order.  A list is modelled by the question it   *)
(* answers.  Names start with Ra, this module being composed with others   *)
(* in Pages.                                                               *)
(***************************************************************************)
EXTENDS Integers, FiniteSets, Sequences

CONSTANTS
  RaClasses, \* the classes of the selectors
  RaLoads    \* bound on the loads of a view

ASSUME RaAssumption == RaLoads \in Nat

VARIABLES
  raOpen,    \* the view that is mounted
  ra,        \* the selections of the view
  raLists,   \* what each of its lists answers
  raLoad,    \* fetchId, loading, error
  raCalls    \* requests whose answer may still arrive
raVars == <<raOpen, ra, raLists, raLoad, raCalls>>

RaNothing == <<"nothing">>
RaTabs == {"personal", "global", "class", "internal", "external"}
RaAdminTabs == {"teachers", "classes", "students", "seasons"}
\* An activity of a class, an activity between classes.
RaActs == {"own", "open"}

(* ---- the loaders --------------------------------------------------------- *)
\* The question a selection stands for; nothing while a part of it is not chosen.
RaQuery(s) ==
  CASE s.tab = "personal" -> <<"personal", s.level>>
    [] s.tab = "global" -> <<"global", s.level, s.page>>
    [] s.tab = "class" /\ s.cls # "none" -> <<"class", s.cls, s.level, s.page>>
    [] s.tab = "internal" /\ s.act # "none" /\ s.scope = "school" -> <<"internal", s.act, "school">>
    [] s.tab = "internal" /\ s.act # "none" /\ s.scope = "class" /\ s.scopeCls # "none" ->
         <<"internal", s.act, s.scopeCls>>
    [] s.tab = "external" /\ s.act # "none" -> <<"external", s.act>>
    [] s.tab \in RaAdminTabs -> <<s.tab>>
    [] OTHER -> RaNothing

\* The global and the class table are one list.
RaList(tab) == IF tab \in {"global", "class"} THEN "entries" ELSE tab

RaCancelled == {c \in raCalls : c.deaf}

\* A load of selection s over the lists: earlier requests are superseded by
\* the new fetchId and, but for those of the internal tab, aborted.
RaAsk(s, lists) ==
  /\ ra' = s
  /\ IF RaQuery(s) = RaNothing
     THEN /\ raLists' = IF s.tab = "internal" /\ s.act # "none"
                        THEN [lists EXCEPT !["internal"] = RaNothing] ELSE lists
          /\ UNCHANGED <<raLoad, raCalls>>
     ELSE /\ raLoad.n < RaLoads
          /\ raLists' = lists
          /\ raLoad' = [n |-> raLoad.n + 1, loading |-> TRUE, err |-> FALSE]
          /\ raCalls' = RaCancelled \cup
               {[n |-> raLoad.n + 1, want |-> RaQuery(s), list |-> RaList(s.tab),
                 silent |-> FALSE, deaf |-> s.tab = "internal"]}
  /\ UNCHANGED raOpen

\* Mutant: an answer is taken without a look at the fetchId.
RaAnsweredLate(c) ==
  /\ raCalls' = raCalls \ {c}
  /\ \/ /\ raLists' = [raLists EXCEPT ![c.list] = c.want]
        /\ raLoad' = [raLoad EXCEPT !.loading = @ /\ c.silent]
     \/ /\ raLoad' = [raLoad EXCEPT !.loading = @ /\ c.silent, !.err = @ \/ ~c.silent]
        /\ UNCHANGED raLists
  /\ UNCHANGED <<raOpen, ra>>

\* The answer, or the failure, of a request; that of an older one is dropped, and
\* a silent one touches neither the spinner nor the error.
RaAnswered(c) ==
  /\ raCalls' = raCalls \ {c}
  /\ IF c.n # raLoad.n THEN UNCHANGED <<raLists, raLoad>>
     ELSE \/ /\ raLists' = [raLists EXCEPT ![c.list] = c.want]
             /\ raLoad' = [raLoad EXCEPT !.loading = @ /\ c.silent]
          \/ /\ raLoad' = [raLoad EXCEPT !.loading = @ /\ c.silent, !.err = @ \/ ~c.silent]
             /\ UNCHANGED raLists
  /\ UNCHANGED <<raOpen, ra>>

\* usePolling: every half minute on the internal tab, one poll at a time.
RaPoll ==
  /\ raOpen = "rankings" /\ ra.tab = "internal" /\ ra.act # "none" /\ raLoad.n < RaLoads
  /\ \A c \in raCalls : ~c.silent
  /\ IF RaQuery(ra) = RaNothing
     THEN /\ raLists' = [raLists EXCEPT !["internal"] = RaNothing]
          /\ UNCHANGED <<raLoad, raCalls>>
     ELSE /\ raLoad' = [raLoad EXCEPT !.n = @ + 1]
          /\ raCalls' = raCalls \cup
               {[n |-> raLoad.n + 1, want |-> RaQuery(ra), list |-> "internal",
                 silent |-> TRUE, deaf |-> TRUE]}
          /\ UNCHANGED raLists
  /\ UNCHANGED <<raOpen, ra>>

(* ---- RankingsView ----------------------------------------------------------- *)
RaEmpty == [l \in RaTabs \cup RaAdminTabs \cup {"entries"} |-> RaNothing]
RaReset(s) == [s EXCEPT !.page = 1]

\* A table is on the page when nothing is loading and nothing has failed.
RaShown == ~raLoad.loading /\ ~raLoad.err

\* onMounted, once the two selectors have been asked for: the tab of a deep link,
\* the personal one, or else the global table, whatever was picked meanwhile.
RaMounted ==
  /\ raOpen = "rankings" /\ ~ra.mounted
  /\ CASE ra.link -> RaAsk([RaReset(ra) EXCEPT !.tab = "internal", !.act = "open", !.mounted = TRUE],
                           RaEmpty)
       [] ~ra.link /\ ra.tab = "personal" -> RaAsk([ra EXCEPT !.mounted = TRUE], raLists)
       [] OTHER ->
            /\ raLoad.n < RaLoads
            /\ ra' = [ra EXCEPT !.mounted = TRUE]
            /\ raLoad' = [n |-> raLoad.n + 1, loading |-> TRUE, err |-> FALSE]
            /\ raCalls' = RaCancelled \cup
                 {[n |-> raLoad.n + 1, want |-> <<"global", ra.level, ra.page>>, list |-> "entries",
                   silent |-> FALSE, deaf |-> FALSE]}
            /\ UNCHANGED <<raOpen, raLists>>

\* switchTab: filter, page and lists start afresh, and so does an activity the tab
\* has no rankings for.
RaSwitch(tab) ==
  /\ raOpen = "rankings"
  /\ LET misfit == <<tab, ra.act>> \in {<<"external", "own">>, <<"internal", "open">>} IN
     /\ IF misfit \/ RaQuery([ra EXCEPT !.tab = tab]) = RaNothing
        THEN /\ ra' = [RaReset(ra) EXCEPT !.tab = tab, !.level = "all", !.early = @ \/ ~ra.mounted,
                         !.act = IF misfit THEN "none" ELSE @]
             /\ raLists' = RaEmpty /\ raLoad' = [raLoad EXCEPT !.err = FALSE]
             /\ UNCHANGED <<raOpen, raCalls>>
        ELSE RaAsk([RaReset(ra) EXCEPT !.tab = tab, !.level = "all", !.early = @ \/ ~ra.mounted],
                   RaEmpty)

RaLevel(level) ==
  /\ raOpen = "rankings" /\ ra.tab \in {"personal", "global", "class"} /\ level # ra.level
  /\ RaAsk([RaReset(ra) EXCEPT !.level = level], raLists)

\* A second page is known of only when the table has come.
RaPage(page) ==
  /\ raOpen = "rankings" /\ ra.tab \in {"global", "class"} /\ page # ra.page
  /\ raLists["entries"] # RaNothing
  /\ RaAsk([ra EXCEPT !.page = page], raLists)

RaPickClass(cls) ==
  /\ raOpen = "rankings" /\ ra.tab = "class" /\ cls # ra.cls
  /\ RaAsk([RaReset(ra) EXCEPT !.cls = cls, !.early = @ \/ ~ra.mounted], raLists)

RaPickAct(act) ==
  /\ raOpen = "rankings" /\ act # ra.act
  /\ <<ra.tab, act>> \in {<<"internal", "own">>, <<"external", "open">>}
  /\ RaAsk([ra EXCEPT !.act = act, !.early = @ \/ ~ra.mounted], raLists)

\* The buttons of the scope are part of the table, and of an open activity only.
RaScoping ==
  /\ raOpen = "rankings" /\ RaShown /\ ra.tab = "internal" /\ ra.act = "open"
  /\ raLists["internal"] # RaNothing

RaScope(scope) ==
  /\ RaScoping /\ scope # ra.scope
  /\ RaAsk([ra EXCEPT !.scope = scope], raLists)

RaScopeClass(cls) ==
  /\ RaScoping /\ ra.scope = "class" /\ cls # ra.scopeCls
  /\ RaAsk([ra EXCEPT !.scopeCls = cls], raLists)

(* ---- LeaderboardView and useLeaderboard ----------------------------------------- *)
\* Whatever is picked, the request waits for the hand to rest.
RaPicked(s) ==
  /\ ra' = [s EXCEPT !.timer = TRUE]
  /\ UNCHANGED <<raOpen, raLists, raLoad, raCalls>>

RaBoardPick ==
  /\ raOpen = "board"
  /\ \/ \E level \in {"all", "one"} : RaPicked([RaReset(ra) EXCEPT !.level = level])
     \/ \E page \in {1, 2} : ra.tab = "global" /\ RaPicked([ra EXCEPT !.page = page])
     \/ \E tab \in {"personal", "global"} \ {ra.tab} : RaPicked([RaReset(ra) EXCEPT !.tab = tab])

\* The two tabs have a loader each: an answer under way for the other one is still
\* welcome there.
RaBoardAsk(s) ==
  LET list == RaList(s.tab) IN
  /\ raLoad.n < RaLoads
  /\ ra' = s
  /\ raLoad' = [raLoad EXCEPT !.n = @ + 1]
  /\ raCalls' = {c \in raCalls : c.list # list} \cup
       {[n |-> raLoad.n + 1, want |-> RaQuery(s), list |-> list, silent |-> FALSE, deaf |-> FALSE]}
  /\ UNCHANGED <<raOpen, raLists>>

RaBoardFire == raOpen = "board" /\ ra.timer /\ RaBoardAsk([ra EXCEPT !.timer = FALSE])
RaBoardMounted == raOpen = "board" /\ ~ra.mounted /\ RaBoardAsk([ra EXCEPT !.mounted = TRUE])

RaBoardAnswered(c) ==
  /\ raCalls' = raCalls \ {c}
  /\ \/ raLists' = [raLists EXCEPT ![c.list] = c.want]
     \/ raLists' = [raLists EXCEPT ![c.list] = <<"failed">>]
  /\ UNCHANGED <<raOpen, ra, raLoad>>

(* ---- AdminView ---------------------------------------------------------------------- *)
\* loadData follows the route; the tab bar is closed meanwhile, the browser's
\* buttons are not.  A new teacher or season loads the tab again.
RaAdminMounted ==
  /\ raOpen = "admin" /\ ~ra.mounted
  /\ RaAsk([ra EXCEPT !.mounted = TRUE], raLists)

RaAdminGo(tab) ==
  /\ raOpen = "admin" /\ ra.mounted /\ (tab # ra.tab \/ tab \in {"teachers", "seasons"})
  /\ RaAsk([ra EXCEPT !.tab = tab], raLists)

RaLeave ==
  /\ raOpen # "gone" /\ raOpen' = "gone"
  /\ raCalls' = RaCancelled
  /\ UNCHANGED <<ra, raLists, raLoad>>

(* ---- specification ------------------------------------------------------------------- *)
RaInit ==
  /\ raOpen \in {"rankings", "board", "admin"}
  /\ \E tab \in RaTabs \cup RaAdminTabs, link \in BOOLEAN :
       /\ tab \in (IF raOpen = "admin" THEN RaAdminTabs ELSE {"personal", "global"})
       /\ link => raOpen = "rankings"
       /\ ra = [tab |-> tab, cls |-> "none", act |-> "none", scope |-> "school",
                scopeCls |-> "none", level |-> "all", page |-> 1, link |-> link,
                mounted |-> FALSE, early |-> FALSE, timer |-> FALSE]
  /\ raLists = RaEmpty
  /\ raLoad = [n |-> 0, loading |-> FALSE, err |-> FALSE]
  /\ raCalls = {}

RaNext ==
  \/ RaMounted \/ \E tab \in RaTabs : RaSwitch(tab)
  \/ \E level \in {"all", "one"} : RaLevel(level)
  \/ \E page \in {1, 2} : RaPage(page)
  \/ \E cls \in RaClasses : RaPickClass(cls) \/ RaScopeClass(cls)
  \/ \E act \in RaActs : RaPickAct(act)
  \/ \E scope \in {"school", "class"} : RaScope(scope)
  \/ RaPoll
  \/ RaBoardPick \/ RaBoardFire \/ RaBoardMounted
  \/ RaAdminMounted \/ \E tab \in RaAdminTabs : RaAdminGo(tab)
  \/ \E c \in raCalls :
       IF raOpen = "board" THEN RaBoardAnswered(c) ELSE RaAnswered(c)
  \/ RaLeave

(* ---- properties ------------------------------------------------------------------------ *)
\* The table on the page answers what is selected, however tabs, filters, polls and
\* answers interleave; but what was picked before the view had come up is passed
\* over by onMounted.
ShownIsWanted ==
  raOpen # "gone" /\ RaShown /\ ra.mounted /\ ~ra.early /\ ~ra.timer /\ RaQuery(ra) # RaNothing
    /\ (raOpen = "board" => \A c \in raCalls : c.list # RaList(ra.tab)) =>
    raLists[RaList(ra.tab)] \in {RaQuery(ra), <<"failed">>}

(* ---- the inductive invariant behind ShownIsWanted ---------------------------------------- *)
RaListNames == RaTabs \cup RaAdminTabs \cup {"entries"}
RaSelection ==
  [tab : RaTabs \cup RaAdminTabs, cls : RaClasses \cup {"none"}, act : RaActs \cup {"none"},
   scope : {"school", "class"}, scopeCls : RaClasses \cup {"none"}, level : {"all", "one"}, page : {1, 2},
   link : BOOLEAN, mounted : BOOLEAN, early : BOOLEAN, timer : BOOLEAN]

\* A list and a request answer a question, whichever.
RaTypeOK ==
  /\ raOpen \in {"rankings", "board", "admin", "gone"} /\ ra \in RaSelection
  /\ DOMAIN raLists = RaListNames /\ raLists = [l \in RaListNames |-> raLists[l]]
  /\ raLoad \in [n : Nat, loading : BOOLEAN, err : BOOLEAN]
  /\ \A c \in raCalls : c.n \in Nat /\ c.n <= raLoad.n /\ c.list \in RaListNames /\ c.silent \in BOOLEAN

\* Which tabs a view has; before onMounted only a tab that it will load.
RaTabsOfView ==
  /\ raOpen = "rankings" /\ ~ra.mounted /\ ~ra.early => ra.tab \in {"personal", "global"}
  /\ raOpen = "board" => ra.tab \in {"personal", "global"} /\ ~raLoad.loading /\ ~raLoad.err
  /\ raOpen \in {"board", "admin"} => ~ra.link

\* The answer that will be taken is an answer to what is selected.
LatestWanted ==
  raOpen \in {"rankings", "admin"} /\ ~ra.early /\ RaQuery(ra) # RaNothing =>
    /\ \A c \in raCalls : c.n = raLoad.n => c.want = RaQuery(ra) /\ c.list = RaList(ra.tab)
    /\ ra.mounted /\ RaShown => raLists[RaList(ra.tab)] = RaQuery(ra)

\* On the board every answer for the table of the tab is one to what is selected.
BoardWanted ==
  raOpen = "board" /\ ra.mounted /\ ~ra.timer =>
    /\ \A c \in raCalls : c.list = RaList(ra.tab) => c.want = RaQuery(ra)
    /\ (\A c \in raCalls : c.list # RaList(ra.tab)) => raLists[RaList(ra.tab)] \in {RaQuery(ra), <<"failed">>}

RankingsInv == RaTypeOK /\ RaTabsOfView /\ LatestWanted /\ BoardWanted
=============================================================================
