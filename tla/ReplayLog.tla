----------------------------- MODULE ReplayLog ------------------------------
(***************************************************************************)
(* The replay log of one session, from the tab to those who watch it.  The *)
(* EventRecorder numbers the player's decisions and posts them in batches; *)
(* the server appends a batch or refuses it and fans it out to the live    *)
(* spectator; a finished log is played back by the EventPlayer.  An event  *)
(* is its sequence number, Script says of which type each one is.  Names   *)
(* start with Rl, this module being composed with others in Play.          *)
(***************************************************************************)
EXTENDS Integers, Sequences, FiniteSets, SequencesExt

CONSTANTS
  Script,       \* the types of the events of the run, in order
  RlBuffer,     \* MAX_BUFFER_LENGTH, 5000 in the code
  RlGiveUp,     \* MAX_CONSECUTIVE_FAILURES, 10 in the code
  RlLogCap,     \* MAX_EVENTS_PER_SESSION
  RlQueue,      \* _SUBSCRIBER_QUEUE_SIZE, 256 in the code
  RlReconnects, \* RECONNECT_MAX_ATTEMPTS, 8 in the code
  RlFaults      \* bound on lost posts, lost answers and dropped sockets

ASSUME RlAssumption ==
  /\ Script \in Seq({"decision", "placed", "waveStart", "terminal"})
  /\ {RlBuffer, RlGiveUp, RlLogCap, RlQueue, RlReconnects, RlFaults} \subseteq Nat

VARIABLES
  rlTab,     \* the recorder of the tab and the session id it reads
  rlPosts,   \* batches under way, each with what has become of it
  rlServer,  \* the session's status and its stored events, in the order of insertion
  rlViewer,  \* the spectator: socket, server-side queue, what was shown
  rlPlayer,  \* the replay of the finished log
  rlFaults
rlVars == <<rlTab, rlPosts, rlServer, rlViewer, rlPlayer, rlFaults>>

RlFault == rlFaults < RlFaults /\ rlFaults' = rlFaults + 1
RlSound == rlFaults' = rlFaults

RlNewest(s, n) == SubSeq(s, Len(s) - n + 1, Len(s))
RlCapped(s) == IF Len(s) > RlBuffer THEN RlNewest(s, RlBuffer) ELSE s

(* ---- EventRecorder ------------------------------------------------------- *)
RlFlushes(t) == ~t.flushing /\ ~t.gaveUp /\ t.buf # <<>> /\ t.session

\* _flush takes the whole buffer, one batch at a time.
RlFlush(t) ==
  IF RlFlushes(t)
  THEN /\ rlTab' = [t EXCEPT !.buf = <<>>, !.flushing = TRUE]
       /\ rlPosts' = rlPosts \cup {[batch |-> t.buf, by |-> "flush", net |-> "out"]}
  ELSE rlTab' = t /\ UNCHANGED rlPosts

\* An event of RECORDED_EVENTS; the terminal ones flush at once.
RlRecord ==
  /\ rlTab.on /\ rlTab.seq < Len(Script)
  /\ LET t == [rlTab EXCEPT !.seq = @ + 1,
                 !.lossy = @ \/ (~rlTab.gaveUp /\ Len(rlTab.buf) >= RlBuffer),
                 !.buf = IF rlTab.gaveUp THEN @ ELSE RlCapped(Append(@, rlTab.seq))]
     IN IF Script[rlTab.seq + 1] = "terminal" THEN RlFlush(t) ELSE rlTab' = t /\ UNCHANGED rlPosts
  /\ UNCHANGED <<rlServer, rlViewer, rlPlayer, rlFaults>>

RlInterval ==
  /\ rlTab.on /\ RlFlushes(rlTab) /\ RlFlush(rlTab)
  /\ UNCHANGED <<rlServer, rlViewer, rlPlayer, rlFaults>>

\* beforeunload: the tail is sent beside whatever is under way, and nobody waits
\* for the answer.  The page may stay if the user cancels.
RlBeacon ==
  /\ rlTab.on /\ rlTab.buf # <<>> /\ rlTab.session
  /\ rlPosts' = rlPosts \cup {[batch |-> rlTab.buf, by |-> "beacon", net |-> "out"]}
  /\ rlTab' = [rlTab EXCEPT !.buf = <<>>, !.lossy = TRUE]
  /\ UNCHANGED <<rlServer, rlViewer, rlPlayer, rlFaults>>

RlDestroy ==
  /\ rlTab.on
  /\ RlFlush([rlTab EXCEPT !.on = FALSE, !.lossy = TRUE])
  /\ UNCHANGED <<rlServer, rlViewer, rlPlayer, rlFaults>>

\* The session id arrives with the answer to create, and goes with the one to end.
RlSession ==
  /\ rlTab.session # (rlServer.status = "active")
  /\ rlTab' = [rlTab EXCEPT !.session = ~@]
  /\ UNCHANGED <<rlPosts, rlServer, rlViewer, rlPlayer, rlFaults>>

\* endRun after the terminal event, or the abandon of a run that was left.
RlEnded ==
  /\ rlServer.status = "active" /\ (rlTab.seq = Len(Script) \/ ~rlTab.on)
  /\ rlServer' = [rlServer EXCEPT !.status = "ended"]
  /\ UNCHANGED <<rlTab, rlPosts, rlViewer, rlPlayer, rlFaults>>

(* ---- the server: append_events and the spectate hub ------------------------ *)
RlTop(log) == IF log = <<>> THEN -1 ELSE Last(log)

\* Mutant: a batch that was stored already is appended again.
RlAcceptsAgain(batch) ==
  rlServer.status = "active" /\ Len(rlServer.log) + Len(batch) <= RlLogCap

RlAccepts(batch) ==
  /\ rlServer.status = "active"
  /\ Len(rlServer.log) + Len(batch) <= RlLogCap
  /\ Head(batch) > RlTop(rlServer.log)

\* publish: one event at a time into the bounded queue; a full queue loses its place.
RlPublished(batch) ==
  IF ~rlViewer.subscribed THEN rlViewer
  ELSE LET all == rlViewer.queue \o batch IN
    IF Len(all) > RlQueue
    THEN [rlViewer EXCEPT !.queue = SubSeq(all, 1, RlQueue), !.subscribed = FALSE]
    ELSE [rlViewer EXCEPT !.queue = all]

\* The route is a coroutine that appends and publishes without giving up the loop.
RlPostHandled(p) ==
  /\ p.net = "out"
  /\ \/ /\ RlSound /\ RlAccepts(p.batch)
        /\ rlPosts' = (rlPosts \ {p}) \cup {[p EXCEPT !.net = "ok"]}
     \/ /\ RlFault /\ RlAccepts(p.batch)
        /\ rlPosts' = (rlPosts \ {p}) \cup {[p EXCEPT !.net = "failed"]}
  /\ rlServer' = [rlServer EXCEPT !.log = @ \o p.batch]
  /\ rlViewer' = RlPublished(p.batch)
  /\ UNCHANGED <<rlTab, rlPlayer>>

RlPostFailed(p) ==
  /\ p.net = "out"
  /\ \/ ~RlAccepts(p.batch) /\ RlSound
     \/ RlFault
  /\ rlPosts' = (rlPosts \ {p}) \cup {[p EXCEPT !.net = "failed"]}
  /\ UNCHANGED <<rlTab, rlServer, rlViewer, rlPlayer>>

\* A failed batch goes back in front; after too many failures it is dropped.
RlRequeued(t, p) ==
  IF t.fails + 1 >= RlGiveUp THEN [t EXCEPT !.flushing = FALSE, !.fails = @ + 1, !.gaveUp = TRUE]
  ELSE [t EXCEPT !.flushing = FALSE, !.fails = @ + 1, !.buf = RlCapped(p.batch \o @),
                 !.lossy = @ \/ Len(p.batch \o t.buf) > RlBuffer]

RlPostAnswered(p) ==
  /\ p.net # "out" /\ rlPosts' = rlPosts \ {p}
  /\ rlTab' = IF p.by = "beacon" THEN rlTab
              ELSE IF p.net = "ok" THEN [rlTab EXCEPT !.flushing = FALSE, !.fails = 0]
              ELSE RlRequeued(rlTab, p)
  /\ UNCHANGED <<rlServer, rlViewer, rlPlayer, rlFaults>>

(* ---- the spectate socket ------------------------------------------------------- *)
\* applyEvent: the mirror in the page counts what it is given and never starts over.
RlShow(v, events) == [v EXCEPT !.got = @ \o events, !.shown = @ + Len(events),
  !.status = IF \E i \in DOMAIN events : Script[events[i] + 1] = "terminal" THEN "closed" ELSE @]

\* authenticate_ws, the snapshot of the log, its frame: one turn of the event loop.
RlConnect ==
  /\ rlViewer.sock = "connecting"
  /\ rlViewer' = [RlShow([rlViewer EXCEPT !.got = <<>>], rlServer.log)
                    EXCEPT !.sock = "greeted", !.status = "live", !.attempts = 0]
  /\ UNCHANGED <<rlTab, rlPosts, rlServer, rlPlayer, rlFaults>>

\* Only after the snapshot went out is the queue registered.
RlSubscribe ==
  /\ rlViewer.sock = "greeted"
  /\ rlViewer' = [rlViewer EXCEPT !.sock = "streaming", !.subscribed = TRUE]
  /\ UNCHANGED <<rlTab, rlPosts, rlServer, rlPlayer, rlFaults>>

RlStream ==
  /\ rlViewer.sock = "streaming" /\ rlViewer.queue # <<>>
  /\ rlViewer' = [RlShow(rlViewer, <<Head(rlViewer.queue)>>) EXCEPT !.queue = Tail(@)]
  /\ UNCHANGED <<rlTab, rlPosts, rlServer, rlPlayer, rlFaults>>

RlGone(v) == [v EXCEPT !.queue = <<>>, !.subscribed = FALSE]

\* A transient close: onclose arms a timer while attempts are left.
RlDropped ==
  /\ rlViewer.sock \in {"connecting", "greeted", "streaming"} /\ RlFault
  /\ rlViewer' = [RlGone(rlViewer) EXCEPT !.status = "closed",
       !.sock = IF rlViewer.attempts < RlReconnects THEN "waiting" ELSE "over",
       !.attempts = IF rlViewer.attempts < RlReconnects THEN @ + 1 ELSE @]
  /\ UNCHANGED <<rlTab, rlPosts, rlServer, rlPlayer>>

RlReconnect ==
  /\ rlViewer.sock = "waiting"
  /\ rlViewer' = [rlViewer EXCEPT !.sock = "connecting"]
  /\ UNCHANGED <<rlTab, rlPosts, rlServer, rlPlayer, rlFaults>>

\* Close code 4401, at the handshake or at the periodic check: never retried.
RlRevoked ==
  /\ rlViewer.sock \in {"connecting", "streaming"}
  /\ rlViewer' = [RlGone(rlViewer) EXCEPT !.sock = "over", !.status = "auth"]
  /\ UNCHANGED <<rlTab, rlPosts, rlServer, rlPlayer, rlFaults>>

\* The view is left: the timer is cleared and the socket closed.
RlViewLeft ==
  /\ rlViewer.sock # "over"
  /\ rlViewer' = [RlGone(rlViewer) EXCEPT !.sock = "over"]
  /\ UNCHANGED <<rlTab, rlPosts, rlServer, rlPlayer, rlFaults>>

(* ---- EventPlayer and ReplayView -------------------------------------------------- *)
RlLoad ==
  /\ rlPlayer.at = "none" /\ rlServer.status # "active"
  /\ rlPlayer' = [at |-> "idle", events |-> SetToSortSeq(ToSet(rlServer.log), <), cursor |-> 0, waves |-> 0]
  /\ UNCHANGED <<rlTab, rlPosts, rlServer, rlViewer, rlFaults>>

RlPlay ==
  /\ rlPlayer.at \in {"idle", "paused"} /\ rlPlayer.cursor < Len(rlPlayer.events)
  /\ rlPlayer' = [rlPlayer EXCEPT !.at = "playing"]
  /\ UNCHANGED <<rlTab, rlPosts, rlServer, rlViewer, rlFaults>>

RlPause ==
  /\ rlPlayer.at = "playing"
  /\ rlPlayer' = [rlPlayer EXCEPT !.at = "paused"]
  /\ UNCHANGED <<rlTab, rlPosts, rlServer, rlViewer, rlFaults>>

\* _tick: every event whose time has come, any number of them; the engine's own
\* events are not emitted again, WAVE_START starts the wave.
RlTick ==
  /\ rlPlayer.at = "playing"
  /\ IF rlPlayer.cursor = Len(rlPlayer.events)
     THEN rlPlayer' = [rlPlayer EXCEPT !.at = "ended"]
     ELSE \E n \in 0..(Len(rlPlayer.events) - rlPlayer.cursor) :
       rlPlayer' = [rlPlayer EXCEPT !.cursor = @ + n,
         !.waves = @ + Cardinality({i \in (rlPlayer.cursor + 1)..(rlPlayer.cursor + n) :
                                      Script[rlPlayer.events[i] + 1] = "waveStart"})]
  /\ UNCHANGED <<rlTab, rlPosts, rlServer, rlViewer, rlFaults>>

(* ---- specification ------------------------------------------------------------------ *)
RlInit ==
  /\ rlTab = [on |-> TRUE, session |-> FALSE, seq |-> 0, buf |-> <<>>, flushing |-> FALSE,
              fails |-> 0, gaveUp |-> FALSE, lossy |-> FALSE]
  /\ rlPosts = {}
  /\ rlServer = [status |-> "active", log |-> <<>>]
  /\ rlViewer = [sock |-> "connecting", subscribed |-> FALSE, queue |-> <<>>, got |-> <<>>,
                 shown |-> 0, status |-> "connecting", attempts |-> 0]
  /\ rlPlayer = [at |-> "none", events |-> <<>>, cursor |-> 0, waves |-> 0]
  /\ rlFaults = 0

RlNext ==
  \/ RlRecord \/ RlInterval \/ RlBeacon \/ RlDestroy \/ RlSession \/ RlEnded
  \/ \E p \in rlPosts : RlPostHandled(p) \/ RlPostFailed(p) \/ RlPostAnswered(p)
  \/ RlConnect \/ RlSubscribe \/ RlStream \/ RlDropped \/ RlReconnect \/ RlRevoked \/ RlViewLeft
  \/ RlLoad \/ RlPlay \/ RlPause \/ RlTick

(* ---- properties ------------------------------------------------------------------------ *)
RlIncreasing(s) == \A i, j \in DOMAIN s : i < j => s[i] < s[j]

\* Whatever was sent again, beaconed past a batch under way or received over a second
\* connection: the stored log and what a spectator gets over one connection have every
\* event at most once and in the order in which it was recorded.
StreamsInOrder == RlIncreasing(rlServer.log) /\ RlIncreasing(rlViewer.got)

\* While the recorder has not given up, overflowed, sent a beacon or been destroyed,
\* every event it numbered is in the buffer, under way or stored.
NothingForgotten ==
  ~rlTab.gaveUp /\ ~rlTab.lossy =>
    0..(rlTab.seq - 1) \subseteq
      ToSet(rlTab.buf) \cup ToSet(rlServer.log) \cup UNION {ToSet(p.batch) : p \in rlPosts}

\* The log is the run: in order, nothing twice, nothing forgotten.
LogFaithful == StreamsInOrder /\ NothingForgotten
=============================================================================
