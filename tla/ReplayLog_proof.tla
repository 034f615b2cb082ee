-------------------------- MODULE ReplayLog_proof ---------------------------
(***************************************************************************)
(* LogFaithful for every script, buffer, cap, queue and number of faults:  *)
(* the stored log and what a spectator gets are in order, and a recorder   *)
(* that did not admit a loss has lost nothing.                             *)
(***************************************************************************)
EXTENDS ReplayLog, SequenceTheorems, TLAPS

(***************************************************************************)
(* Sequences of event numbers                                              *)
(***************************************************************************)
\* Everything in s was recorded before everything in t.
RlBefore(s, t) == \A x \in ToSet(s), y \in ToSet(t) : x < y
RlOrdered(s) == s \in Seq(Nat) /\ RlIncreasing(s)

LEMMA EmptyOrdered == RlOrdered(<<>>) /\ ToSet(<<>>) = {} /\ \A s : RlBefore(s, <<>>) /\ RlBefore(<<>>, s)
BY DEF RlOrdered, RlIncreasing, ToSet, RlBefore

LEMMA JoinedOrdered ==
  ASSUME NEW s, NEW t, RlOrdered(s), RlOrdered(t), RlBefore(s, t)
  PROVE  RlOrdered(s \o t) /\ ToSet(s \o t) = ToSet(s) \cup ToSet(t)
<1>. DEFINE m == Len(s)
            n == Len(t)
            u == s \o t
<1>1. /\ m \in Nat /\ n \in Nat /\ DOMAIN s = 1..m /\ DOMAIN t = 1..n
      /\ s \in Seq(Nat) /\ t \in Seq(Nat)
  BY DEF RlOrdered
<1>2. u \in Seq(Nat) /\ DOMAIN u = 1..(m + n)
  BY <1>1
<1>3. /\ \A i \in 1..m : i \in 1..(m + n) /\ u[i] = s[i]
      /\ \A i \in 1..n : i + m \in 1..(m + n) /\ u[i + m] = t[i]
  BY <1>1
<1>. HIDE DEF u, m, n
<1>4. ASSUME NEW i \in 1..(m + n), i \notin 1..m PROVE i - m \in 1..n /\ u[i] = t[i - m]
  <2>1. i - m \in 1..n
    BY <1>1, <1>4
  <2>2. u[(i - m) + m] = t[i - m]
    BY <1>3, <2>1
  <2>. QED  BY <1>1, <2>1, <2>2
<1>5. ASSUME NEW i \in 1..(m + n), NEW j \in 1..(m + n), i < j PROVE u[i] < u[j]
  <2>1. CASE j \in 1..m
    BY <1>1, <1>3, <1>5, <2>1 DEF RlOrdered, RlIncreasing
  <2>2. CASE i \in 1..m /\ j \notin 1..m
    <3>1. u[i] \in ToSet(s) /\ u[j] \in ToSet(t)
      BY <1>1, <1>3, <1>4, <2>2 DEF ToSet
    <3>. QED  BY <3>1 DEF RlBefore
  <2>3. CASE i \notin 1..m /\ j \notin 1..m
    <3>1. i - m \in 1..n /\ j - m \in 1..n /\ u[i] = t[i - m] /\ u[j] = t[j - m] /\ i - m < j - m
      BY <1>1, <1>4, <1>5, <2>3
    <3>. QED  BY <1>1, <3>1 DEF RlOrdered, RlIncreasing
  <2>4. i \notin 1..m => j \notin 1..m
    BY <1>1, <1>5
  <2>. QED  BY <2>1, <2>2, <2>3, <2>4
<1>6. ToSet(u) = ToSet(s) \cup ToSet(t)
  <2>1. ToSet(u) \subseteq ToSet(s) \cup ToSet(t)
    BY <1>1, <1>2, <1>3, <1>4 DEF ToSet
  <2>2. ToSet(s) \subseteq ToSet(u)
    BY <1>1, <1>2, <1>3 DEF ToSet
  <2>3. ToSet(t) \subseteq ToSet(u)
    BY <1>1, <1>2, <1>3 DEF ToSet
  <2>. QED  BY <2>1, <2>2, <2>3
<1>. QED  BY <1>2, <1>5, <1>6 DEF RlOrdered, RlIncreasing, u

LEMMA PartOrdered ==
  ASSUME NEW s, RlOrdered(s), NEW m \in Nat \ {0}, NEW n \in Nat, n <= Len(s)
  PROVE  RlOrdered(SubSeq(s, m, n)) /\ ToSet(SubSeq(s, m, n)) \subseteq ToSet(s)
<1>. DEFINE u == SubSeq(s, m, n)
            l == IF m <= n THEN n - m + 1 ELSE 0
<1>1. s \in Seq(Nat) /\ DOMAIN s = 1..Len(s) /\ Len(s) \in Nat /\ l \in Nat
  BY DEF RlOrdered
<1>2. u \in Seq(Nat) /\ DOMAIN u = 1..l
  BY <1>1
<1>3. \A i \in 1..l : i + m - 1 \in DOMAIN s /\ u[i] = s[i + m - 1]
  BY <1>1
<1>. HIDE DEF u, l
<1>4. ASSUME NEW i \in 1..l, NEW j \in 1..l, i < j PROVE u[i] < u[j]
  <2>1. i + m - 1 < j + m - 1
    BY <1>1, <1>4
  <2>. QED  BY <1>3, <2>1 DEF RlOrdered, RlIncreasing
<1>5. ToSet(u) \subseteq ToSet(s)
  BY <1>2, <1>3 DEF ToSet
<1>. QED  BY <1>2, <1>3, <1>4, <1>5 DEF RlOrdered, RlIncreasing, u

LEMMA OneOrdered ==
  ASSUME NEW n \in Nat
  PROVE  RlOrdered(<<n>>) /\ ToSet(<<n>>) = {n}
BY DEF RlOrdered, RlIncreasing, ToSet

LEMMA AppendedOrdered ==
  ASSUME NEW s, NEW n \in Nat, RlOrdered(s), \A x \in ToSet(s) : x < n
  PROVE  RlOrdered(Append(s, n)) /\ ToSet(Append(s, n)) = ToSet(s) \cup {n}
<1>1. Append(s, n) = s \o <<n>>
  BY DEF RlOrdered
<1>2. RlBefore(s, <<n>>)
  BY OneOrdered DEF RlBefore
<1>. QED  BY <1>1, <1>2, OneOrdered, JoinedOrdered

\* MAX_BUFFER_LENGTH keeps the newest events.
LEMMA CappedOrdered ==
  ASSUME NEW s, RlOrdered(s)
  PROVE  RlOrdered(RlCapped(s)) /\ ToSet(RlCapped(s)) \subseteq ToSet(s)
<1>. DEFINE l == Len(s)
<1>1. l \in Nat /\ RlBuffer \in Nat
  BY RlAssumption DEF RlOrdered
<1>2. CASE l > RlBuffer
  <2>1. l - RlBuffer + 1 \in Nat \ {0} /\ l <= Len(s)
    BY <1>1, <1>2
  <2>2. RlCapped(s) = SubSeq(s, l - RlBuffer + 1, l)
    BY <1>2 DEF RlCapped, RlNewest
  <2>. QED  BY <1>1, <2>1, <2>2, PartOrdered
<1>3. CASE ~(l > RlBuffer)
  BY <1>3 DEF RlCapped
<1>. QED  BY <1>2, <1>3

\* The head of an ordered sequence comes before its tail.
LEMMA HeadOrdered ==
  ASSUME NEW s, RlOrdered(s), s # <<>>
  PROVE  /\ Head(s) \in Nat /\ Head(s) \in ToSet(s) /\ \A x \in ToSet(s) : Head(s) <= x
         /\ RlOrdered(Tail(s)) /\ ToSet(Tail(s)) \subseteq ToSet(s) /\ RlBefore(<<Head(s)>>, Tail(s))
<1>1. s \in Seq(Nat) /\ Len(s) \in Nat \ {0} /\ DOMAIN s = 1..Len(s) /\ Head(s) = s[1]
  BY DEF RlOrdered
<1>2. Head(s) \in Nat /\ Head(s) \in ToSet(s)
  BY <1>1 DEF ToSet
<1>3. \A x \in ToSet(s) : Head(s) <= x
  <2>1. \A i \in 1..Len(s) : i = 1 \/ s[1] < s[i]
    BY <1>1 DEF RlOrdered, RlIncreasing
  <2>2. \A i \in 1..Len(s) : s[i] \in Nat
    BY <1>1
  <2>. QED  BY <1>1, <2>1, <2>2 DEF ToSet
<1>. DEFINE l == Len(s) - 1
            u == Tail(s)
<1>4. u \in Seq(Nat) /\ DOMAIN u = 1..l /\ l \in Nat
  BY <1>1
<1>5. \A i \in 1..l : i + 1 \in 1..Len(s) /\ u[i] = s[i + 1]
  BY <1>1
<1>. HIDE DEF u, l
<1>6. ASSUME NEW i \in 1..l, NEW j \in 1..l, i < j PROVE u[i] < u[j]
  <2>1. i + 1 < j + 1
    BY <1>4, <1>6
  <2>. QED  BY <1>1, <1>5, <2>1 DEF RlOrdered, RlIncreasing
<1>7. ASSUME NEW i \in 1..l PROVE s[1] < u[i]
  <2>1. 1 < i + 1 /\ 1 \in 1..Len(s)
    BY <1>1, <1>4
  <2>. QED  BY <1>1, <1>5, <2>1 DEF RlOrdered, RlIncreasing
<1>8. ToSet(u) \subseteq ToSet(s)
  BY <1>1, <1>4, <1>5 DEF ToSet
<1>9. RlBefore(<<Head(s)>>, u)
  <2>1. ToSet(<<Head(s)>>) = {s[1]}
    BY <1>1, <1>2, OneOrdered
  <2>2. \A y \in ToSet(u) : s[1] < y
    BY <1>4, <1>7 DEF ToSet
  <2>. QED  BY <2>1, <2>2 DEF RlBefore
<1>10. RlOrdered(u)
  BY <1>4, <1>6 DEF RlOrdered, RlIncreasing
<1>. QED  BY <1>2, <1>3, <1>8, <1>9, <1>10 DEF u

\* The test of append_events compares the first number of a batch with the last stored.
LEMMA AcceptedAfter ==
  ASSUME NEW log, NEW batch, RlOrdered(log), RlOrdered(batch), batch # <<>>, Head(batch) > RlTop(log)
  PROVE  RlBefore(log, batch)
<1>1. log \in Seq(Nat) /\ DOMAIN log = 1..Len(log) /\ Len(log) \in Nat
  BY DEF RlOrdered
<1>2. ASSUME NEW x \in ToSet(log) PROVE x \in Nat /\ x <= RlTop(log)
  <2>1. PICK i \in 1..Len(log) : x = log[i]
    BY <1>1 DEF ToSet
  <2>2. log # <<>> /\ RlTop(log) = log[Len(log)] /\ Len(log) \in 1..Len(log)
    <3>1. Len(log) >= 1 /\ Len(<<>>) = 0
      BY <1>1, <2>1
    <3>2. log # <<>> /\ Len(log) \in 1..Len(log)
      BY <1>1, <3>1
    <3>3. RlTop(log) = log[Len(log)]
      BY <3>2 DEF RlTop, Last
    <3>. QED  BY <3>2, <3>3
  <2>3. log[i] \in Nat /\ log[Len(log)] \in Nat /\ (i = Len(log) \/ log[i] < log[Len(log)])
    <3>. DEFINE m == Len(log)
    <3>1. log[i] \in Nat /\ log[m] \in Nat
      BY <1>1, <2>1, <2>2
    <3>2. m \in Nat /\ m \in 1..m /\ i \in 1..m /\ DOMAIN log = 1..m
      BY <1>1, <2>1, <2>2
    <3>. HIDE DEF m
    <3>3. i = m \/ i < m
      BY <3>2
    <3>4. i < m => log[i] < log[m]
      BY <3>2 DEF RlOrdered, RlIncreasing
    <3>. QED  BY <3>1, <3>3, <3>4 DEF m
  <2>. QED  BY <2>1, <2>2, <2>3
<1>3. RlTop(log) \in Int
  <2>1. log = <<>> \/ (log # <<>> /\ log[Len(log)] \in Nat)
    BY <1>1
  <2>. QED  BY <2>1 DEF RlTop, Last
<1>4. Head(batch) \in Nat /\ \A y \in ToSet(batch) : y \in Nat /\ Head(batch) <= y
  <2>1. \A y \in ToSet(batch) : y \in Nat
    BY DEF ToSet, RlOrdered
  <2>. QED  BY <2>1, HeadOrdered
<1>. QED  BY <1>2, <1>3, <1>4 DEF RlBefore

(***************************************************************************)
(* The invariant                                                           *)
(***************************************************************************)
RlTabOf ==
  [on : BOOLEAN, session : BOOLEAN, seq : Nat, buf : Seq(Nat), flushing : BOOLEAN, fails : Nat,
   gaveUp : BOOLEAN, lossy : BOOLEAN]
RlPostOf == [batch : Seq(Nat), by : {"flush", "beacon"}, net : {"out", "ok", "failed"}]
RlViewerOf ==
  [sock : {"connecting", "greeted", "streaming", "waiting", "over"}, subscribed : BOOLEAN,
   queue : Seq(Nat), got : Seq(Nat), shown : Nat, status : {"connecting", "live", "closed", "auth"},
   attempts : Nat]

\* What is said of each batch under way: it has numbers given out already, in order; what
\* was stored is in the log; a beacon counts as a loss; what a flush sent comes before
\* everything in the buffer, so that it can be put back in front.
RlPostInv(p, t, log) ==
  /\ RlOrdered(p.batch) /\ p.batch # <<>> /\ \A x \in ToSet(p.batch) : x < t.seq
  /\ p.net = "ok" => ToSet(p.batch) \subseteq ToSet(log)
  /\ p.by = "beacon" => t.lossy
  /\ p.by = "flush" => t.flushing /\ RlBefore(p.batch, t.buf)

RlSomewhere(t, posts, log) == ToSet(t.buf) \cup ToSet(log) \cup UNION {ToSet(p.batch) : p \in posts}

RlTabInv(t, posts, log) ==
  /\ t \in RlTabOf /\ posts \subseteq RlPostOf
  /\ RlOrdered(t.buf) /\ \A x \in ToSet(t.buf) : x < t.seq
  /\ \A p \in posts : RlPostInv(p, t, log)
  /\ \A p, q \in posts : p.by = "flush" /\ q.by = "flush" => p = q
  /\ ~t.gaveUp /\ ~t.lossy => 0..(t.seq - 1) \subseteq RlSomewhere(t, posts, log)

\* The spectator got a part of the log in order, and the rest of it waits in the queue.
RlViewInv(v, log) ==
  /\ v \in RlViewerOf
  /\ RlOrdered(v.got) /\ RlOrdered(v.queue) /\ RlBefore(v.got, v.queue)
  /\ ToSet(v.got) \cup ToSet(v.queue) \subseteq ToSet(log)
  /\ v.subscribed => v.sock = "streaming"
  /\ v.sock # "streaming" => v.queue = <<>>

RlServerInv == rlServer \in [status : {"active", "ended"}, log : Seq(Nat)] /\ RlOrdered(rlServer.log)

RlInv ==
  RlServerInv /\ RlTabInv(rlTab, rlPosts, rlServer.log) /\ RlViewInv(rlViewer, rlServer.log)

LEMMA RlInitial ==
  ASSUME RlInit
  PROVE  RlInv
<1>1. RlServerInv /\ rlServer.log = <<>>
  BY EmptyOrdered DEF RlInit, RlServerInv, RlOrdered
<1>2. RlTabInv(rlTab, rlPosts, rlServer.log)
  <2>1. rlTab \in RlTabOf /\ rlPosts = {} /\ rlTab.buf = <<>> /\ rlTab.seq = 0
    <3>1. <<>> \in Seq(Nat) /\ 0 \in Nat
      OBVIOUS
    <3>. QED  BY <3>1 DEF RlInit, RlTabOf
  <2>. QED  BY <2>1, EmptyOrdered DEF RlTabInv
<1>3. RlViewInv(rlViewer, rlServer.log)
  <2>1. /\ rlViewer \in RlViewerOf /\ rlViewer.got = <<>> /\ rlViewer.queue = <<>>
        /\ ~rlViewer.subscribed
    <3>1. <<>> \in Seq(Nat) /\ 0 \in Nat
      OBVIOUS
    <3>. QED  BY <3>1 DEF RlInit, RlViewerOf
  <2>. QED  BY <2>1, <1>1, EmptyOrdered DEF RlViewInv
<1>. QED  BY <1>1, <1>2, <1>3 DEF RlInv

(***************************************************************************)
(* The recorder                                                            *)
(***************************************************************************)
LEMMA FlushKeeps ==
  ASSUME NEW t, NEW log, RlTabInv(t, rlPosts, log), RlFlush(t)
  PROVE  RlTabInv(rlTab', rlPosts', log)
<1>. DEFINE new == [t EXCEPT !.buf = <<>>, !.flushing = TRUE]
            p == [batch |-> t.buf, by |-> "flush", net |-> "out"]
<1>0. t \in RlTabOf /\ t.buf \in Seq(Nat) /\ <<>> \in Seq(Nat)
  BY DEF RlTabInv, RlTabOf
<1>1. CASE RlFlushes(t)
  <2>1. rlTab' = new /\ rlPosts' = rlPosts \cup {p} /\ ~t.flushing /\ t.buf # <<>>
    BY <1>1 DEF RlFlush, RlFlushes
  <2>2. new \in RlTabOf
    BY <1>0, Zenon DEF RlTabOf
  <2>3. new.buf = <<>> /\ new.seq = t.seq /\ new.gaveUp = t.gaveUp /\ new.lossy = t.lossy /\ new.flushing
    BY <1>0 DEF RlTabOf
  <2>4. p \in RlPostOf /\ p.batch = t.buf /\ p.by = "flush" /\ p.net = "out"
    BY <1>0 DEF RlPostOf
  <2>. HIDE DEF new, p
  <2>5. \A q \in rlPosts : q.by # "flush"
    BY <2>1 DEF RlTabInv, RlPostInv
  <2>6. ASSUME NEW q \in rlPosts PROVE RlPostInv(q, new, log)
    <3>1. RlPostInv(q, t, log)
      BY DEF RlTabInv
    <3>. QED  BY <2>3, <2>5, <3>1 DEF RlPostInv
  <2>7. RlPostInv(p, new, log)
    <3>1. RlOrdered(t.buf) /\ \A x \in ToSet(t.buf) : x < t.seq
      BY DEF RlTabInv
    <3>. QED  BY <2>1, <2>3, <2>4, <3>1, EmptyOrdered DEF RlPostInv
  <2>8. RlSomewhere(t, rlPosts, log) \subseteq RlSomewhere(new, rlPosts \cup {p}, log)
    BY <2>4 DEF RlSomewhere
  <2>9. RlOrdered(new.buf) /\ \A x \in ToSet(new.buf) : x < new.seq
    BY <2>3, EmptyOrdered
  <2>. QED  BY <2>1, <2>2, <2>3, <2>4, <2>5, <2>6, <2>7, <2>8, <2>9 DEF RlTabInv
<1>2. CASE ~RlFlushes(t)
  BY <1>2 DEF RlFlush
<1>. QED  BY <1>1, <1>2

\* An event is numbered and put into the buffer.
LEMMA RecordKeeps ==
  ASSUME NEW log, RlTabInv(rlTab, rlPosts, log), RlRecord
  PROVE  RlTabInv(rlTab', rlPosts', log)
<1>. DEFINE n == rlTab.seq + 1
            full == ~rlTab.gaveUp /\ Len(rlTab.buf) >= RlBuffer
            buf == IF rlTab.gaveUp THEN rlTab.buf ELSE RlCapped(Append(rlTab.buf, rlTab.seq))
            lossy == rlTab.lossy \/ full
            t == [rlTab EXCEPT !.seq = n, !.lossy = lossy, !.buf = buf]
<1>0. /\ rlTab \in RlTabOf /\ rlTab.seq \in Nat /\ n \in Nat /\ RlBuffer \in Nat
      /\ rlTab.gaveUp \in BOOLEAN /\ rlTab.lossy \in BOOLEAN
      /\ RlOrdered(rlTab.buf) /\ \A x \in ToSet(rlTab.buf) : x \in Nat /\ x < rlTab.seq
  BY RlAssumption DEF RlTabInv, RlTabOf, RlOrdered, ToSet
<1>1. RlOrdered(Append(rlTab.buf, rlTab.seq)) /\ ToSet(Append(rlTab.buf, rlTab.seq)) = ToSet(rlTab.buf) \cup {rlTab.seq}
  BY <1>0, AppendedOrdered
<1>2. RlOrdered(buf) /\ ToSet(buf) \subseteq ToSet(rlTab.buf) \cup {rlTab.seq}
  BY <1>0, <1>1, CappedOrdered
<1>3. ~rlTab.gaveUp /\ ~full => buf = Append(rlTab.buf, rlTab.seq)
  <2>1. rlTab.buf \in Seq(Nat) /\ Len(rlTab.buf) \in Nat
    BY <1>0 DEF RlOrdered
  <2>2. Len(Append(rlTab.buf, rlTab.seq)) = Len(rlTab.buf) + 1
    BY <1>0, <2>1
  <2>. QED  BY <1>0, <2>1, <2>2 DEF RlCapped
<1>4. buf \in Seq(Nat) /\ lossy \in BOOLEAN
  BY <1>2 DEF RlOrdered
<1>5. RlFlush(t) \/ (rlTab' = t /\ UNCHANGED rlPosts)
  BY DEF RlRecord
<1>. HIDE DEF buf, n
<1>6. t \in RlTabOf
  <2>. HIDE DEF lossy
  <2>. QED  BY <1>0, <1>4, Zenon DEF RlTabOf
<1>7. /\ t.seq = n /\ t.buf = buf /\ t.gaveUp = rlTab.gaveUp /\ t.flushing = rlTab.flushing
      /\ t.lossy = lossy
  <2>. HIDE DEF lossy
  <2>. QED  BY <1>0, Zenon DEF RlTabOf
<1>. HIDE DEF t
<1>8. \A x \in ToSet(buf) : x < n
  BY <1>0, <1>2 DEF n
<1>9. ASSUME NEW p \in rlPosts PROVE RlPostInv(p, t, log)
  <2>1. RlPostInv(p, rlTab, log)
    BY DEF RlTabInv
  <2>2. \A x \in ToSet(p.batch) : x \in Nat /\ x < rlTab.seq
    BY <2>1 DEF RlPostInv, RlOrdered, ToSet
  <2>3. \A x \in ToSet(p.batch) : x < n
    BY <1>0, <2>2 DEF n
  <2>4. p.by = "flush" => RlBefore(p.batch, buf)
    BY <1>2, <2>1, <2>2 DEF RlPostInv, RlBefore
  <2>. QED  BY <1>7, <2>1, <2>3, <2>4 DEF RlPostInv
<1>10. ASSUME ~t.gaveUp, ~t.lossy PROVE 0..(t.seq - 1) \subseteq RlSomewhere(t, rlPosts, log)
  <2>1. ~rlTab.gaveUp /\ ~rlTab.lossy /\ ~full
    BY <1>7, <1>10
  <2>2. 0..(rlTab.seq - 1) \subseteq RlSomewhere(rlTab, rlPosts, log)
    BY <2>1 DEF RlTabInv
  <2>3. ToSet(t.buf) = ToSet(rlTab.buf) \cup {rlTab.seq}
    BY <1>1, <1>3, <1>7, <2>1
  <2>4. 0..(t.seq - 1) = 0..(rlTab.seq - 1) \cup {rlTab.seq}
    BY <1>0, <1>7 DEF n
  <2>. QED  BY <2>2, <2>3, <2>4 DEF RlSomewhere
<1>11. RlTabInv(t, rlPosts, log)
  BY <1>2, <1>6, <1>7, <1>8, <1>9, <1>10 DEF RlTabInv
<1>. QED  BY <1>5, <1>11, FlushKeeps

\* A recorder that differs in nothing the invariant speaks of.
LEMMA SameBuffer ==
  ASSUME NEW log, RlTabInv(rlTab, rlPosts, log), NEW t \in RlTabOf,
         t.seq = rlTab.seq, t.buf = rlTab.buf, t.flushing = rlTab.flushing,
         t.gaveUp = rlTab.gaveUp, rlTab.lossy => t.lossy
  PROVE  RlTabInv(t, rlPosts, log)
<1>1. \A p \in rlPosts : RlPostInv(p, t, log)
  BY DEF RlTabInv, RlPostInv
<1>2. ~t.gaveUp /\ ~t.lossy => 0..(t.seq - 1) \subseteq RlSomewhere(t, rlPosts, log)
  BY DEF RlTabInv, RlSomewhere
<1>. QED  BY <1>1, <1>2 DEF RlTabInv

LEMMA BeaconKeeps ==
  ASSUME NEW log, RlTabInv(rlTab, rlPosts, log), RlBeacon
  PROVE  RlTabInv(rlTab', rlPosts', log)
<1>. DEFINE new == [rlTab EXCEPT !.buf = <<>>, !.lossy = TRUE]
            p == [batch |-> rlTab.buf, by |-> "beacon", net |-> "out"]
<1>0. rlTab \in RlTabOf /\ rlTab.buf \in Seq(Nat) /\ <<>> \in Seq(Nat)
  BY DEF RlTabInv, RlTabOf
<1>1. rlTab' = new /\ rlPosts' = rlPosts \cup {p} /\ rlTab.buf # <<>>
  BY DEF RlBeacon
<1>2. new \in RlTabOf
  BY <1>0, Zenon DEF RlTabOf
<1>3. new.buf = <<>> /\ new.seq = rlTab.seq /\ new.flushing = rlTab.flushing /\ new.lossy
  BY <1>0 DEF RlTabOf
<1>4. p \in RlPostOf /\ p.batch = rlTab.buf /\ p.by = "beacon" /\ p.net = "out"
  BY <1>0 DEF RlPostOf
<1>. HIDE DEF new, p
<1>5. ASSUME NEW q \in rlPosts PROVE RlPostInv(q, new, log)
  <2>1. RlPostInv(q, rlTab, log)
    BY DEF RlTabInv
  <2>. QED  BY <1>3, <2>1, EmptyOrdered DEF RlPostInv
<1>6. RlPostInv(p, new, log)
  <2>1. RlOrdered(rlTab.buf) /\ \A x \in ToSet(rlTab.buf) : x < rlTab.seq
    BY DEF RlTabInv
  <2>. QED  BY <1>1, <1>3, <1>4, <2>1 DEF RlPostInv
<1>7. RlOrdered(new.buf) /\ \A x \in ToSet(new.buf) : x < new.seq
  BY <1>3, EmptyOrdered
<1>. QED  BY <1>1, <1>2, <1>3, <1>4, <1>5, <1>6, <1>7 DEF RlTabInv

LEMMA DestroyKeeps ==
  ASSUME NEW log, RlTabInv(rlTab, rlPosts, log), RlDestroy \/ RlInterval \/ RlSession
  PROVE  RlTabInv(rlTab', rlPosts', log)
<1>0. rlTab \in RlTabOf
  BY DEF RlTabInv
<1>1. CASE RlDestroy
  <2>. DEFINE t == [rlTab EXCEPT !.on = FALSE, !.lossy = TRUE]
  <2>1. t \in RlTabOf
    BY <1>0, Zenon DEF RlTabOf
  <2>2. /\ t.seq = rlTab.seq /\ t.buf = rlTab.buf /\ t.flushing = rlTab.flushing
        /\ t.gaveUp = rlTab.gaveUp /\ t.lossy
    BY <1>0 DEF RlTabOf
  <2>3. RlFlush(t)
    BY <1>1 DEF RlDestroy
  <2>. HIDE DEF t
  <2>. QED  BY <2>1, <2>2, <2>3, SameBuffer, FlushKeeps
<1>2. CASE RlInterval
  BY <1>2, FlushKeeps DEF RlInterval
<1>3. CASE RlSession
  <2>. DEFINE t == [rlTab EXCEPT !.session = ~rlTab.session]
  <2>1. t \in RlTabOf
    BY <1>0, Zenon DEF RlTabOf
  <2>2. /\ t.seq = rlTab.seq /\ t.buf = rlTab.buf /\ t.flushing = rlTab.flushing
        /\ t.gaveUp = rlTab.gaveUp /\ t.lossy = rlTab.lossy
    BY <1>0 DEF RlTabOf
  <2>3. rlTab' = t /\ rlPosts' = rlPosts
    BY <1>3 DEF RlSession
  <2>. HIDE DEF t
  <2>. QED  BY <2>1, <2>2, <2>3, SameBuffer
<1>. QED  BY <1>1, <1>2, <1>3

\* The answer to a batch: it is stored, or it goes back in front of the buffer, where it
\* belongs, or the recorder gives up.
LEMMA AnsweredKeeps ==
  ASSUME NEW log, RlTabInv(rlTab, rlPosts, log), NEW p \in rlPosts, RlPostAnswered(p)
  PROVE  RlTabInv(rlTab', rlPosts', log)
<1>. DEFINE posts == rlPosts \ {p}
            fails == rlTab.fails + 1
            back == RlCapped(p.batch \o rlTab.buf)
            long == Len(p.batch \o rlTab.buf) > RlBuffer
            lossy == rlTab.lossy \/ long
            stored == [rlTab EXCEPT !.flushing = FALSE, !.fails = 0]
            gone == [rlTab EXCEPT !.flushing = FALSE, !.fails = fails, !.gaveUp = TRUE]
            again == [rlTab EXCEPT !.flushing = FALSE, !.fails = fails, !.buf = back, !.lossy = lossy]
<1>0. /\ rlTab \in RlTabOf /\ p \in RlPostOf /\ rlTab.fails \in Nat /\ fails \in Nat /\ 0 \in Nat
      /\ rlTab.buf \in Seq(Nat) /\ rlTab.seq \in Nat /\ rlTab.lossy \in BOOLEAN
  BY DEF RlTabInv, RlTabOf
<1>1. RlPostInv(p, rlTab, log) /\ RlOrdered(rlTab.buf) /\ \A x \in ToSet(rlTab.buf) : x < rlTab.seq
  BY DEF RlTabInv
<1>2. rlPosts' = posts /\ p.net # "out"
  BY DEF RlPostAnswered
<1>3. ASSUME NEW q \in posts PROVE RlPostInv(q, rlTab, log) /\ (p.by = "flush" => q.by # "flush")
  BY DEF RlTabInv
<1>4. CASE p.by = "beacon"
  <2>1. rlTab' = rlTab /\ rlTab.lossy
    BY <1>1, <1>4 DEF RlPostAnswered, RlPostInv
  <2>. QED  BY <1>2, <2>1 DEF RlTabInv
<1>5. CASE p.by = "flush" /\ p.net = "ok"
  <2>1. rlTab' = stored
    BY <1>5 DEF RlPostAnswered
  <2>2. stored \in RlTabOf
    BY <1>0, Zenon DEF RlTabOf
  <2>3. /\ stored.seq = rlTab.seq /\ stored.buf = rlTab.buf /\ stored.gaveUp = rlTab.gaveUp
        /\ stored.lossy = rlTab.lossy
    BY <1>0 DEF RlTabOf
  <2>. HIDE DEF stored
  <2>4. \A q \in posts : RlPostInv(q, stored, log)
    BY <1>3, <1>5, <2>3 DEF RlPostInv, RlPostOf, RlTabInv
  <2>5. RlSomewhere(rlTab, rlPosts, log) \subseteq RlSomewhere(stored, posts, log)
    BY <1>1, <1>5, <2>3 DEF RlSomewhere, RlPostInv
  <2>. QED  BY <1>1, <1>2, <2>1, <2>2, <2>3, <2>4, <2>5 DEF RlTabInv
<1>6. CASE p.by = "flush" /\ p.net # "ok" /\ fails >= RlGiveUp
  <2>1. rlTab' = gone
    BY <1>6 DEF RlPostAnswered, RlRequeued
  <2>2. gone \in RlTabOf
    BY <1>0, Zenon DEF RlTabOf
  <2>3. /\ gone.seq = rlTab.seq /\ gone.buf = rlTab.buf /\ gone.gaveUp /\ gone.lossy = rlTab.lossy
    BY <1>0 DEF RlTabOf
  <2>. HIDE DEF gone
  <2>4. \A q \in posts : RlPostInv(q, gone, log)
    BY <1>3, <1>6, <2>3 DEF RlPostInv, RlPostOf, RlTabInv
  <2>. QED  BY <1>1, <1>2, <2>1, <2>2, <2>3, <2>4 DEF RlTabInv
<1>7. CASE p.by = "flush" /\ p.net # "ok" /\ ~(fails >= RlGiveUp)
  <2>1. rlTab' = again
    BY <1>7 DEF RlPostAnswered, RlRequeued
  <2>2. RlOrdered(p.batch) /\ RlBefore(p.batch, rlTab.buf) /\ \A x \in ToSet(p.batch) : x < rlTab.seq
    BY <1>1, <1>7 DEF RlPostInv
  <2>3. /\ RlOrdered(p.batch \o rlTab.buf)
        /\ ToSet(p.batch \o rlTab.buf) = ToSet(p.batch) \cup ToSet(rlTab.buf)
    BY <1>1, <2>2, JoinedOrdered
  <2>4. RlOrdered(back) /\ ToSet(back) \subseteq ToSet(p.batch) \cup ToSet(rlTab.buf)
    BY <2>3, CappedOrdered
  <2>5. ~long => ToSet(back) = ToSet(p.batch) \cup ToSet(rlTab.buf)
    BY <2>3 DEF RlCapped
  <2>6. back \in Seq(Nat) /\ lossy \in BOOLEAN
    BY <1>0, <2>4 DEF RlOrdered
  <2>. HIDE DEF back, fails
  <2>7. again \in RlTabOf
    <3>. HIDE DEF lossy
    <3>. QED  BY <1>0, <2>6, Zenon DEF RlTabOf
  <2>8. again.seq = rlTab.seq /\ again.buf = back /\ again.gaveUp = rlTab.gaveUp /\ again.lossy = lossy
    <3>. HIDE DEF lossy
    <3>. QED  BY <1>0, Zenon DEF RlTabOf
  <2>. HIDE DEF again
  <2>9. \A q \in posts : RlPostInv(q, again, log)
    BY <1>3, <1>7, <2>8 DEF RlPostInv, RlPostOf, RlTabInv
  <2>10. \A x \in ToSet(back) : x < rlTab.seq
    BY <1>1, <2>2, <2>4
  <2>11. ASSUME ~again.gaveUp, ~again.lossy PROVE 0..(again.seq - 1) \subseteq RlSomewhere(again, posts, log)
    <3>1. ~rlTab.gaveUp /\ ~rlTab.lossy /\ ~long
      BY <2>8, <2>11
    <3>2. RlSomewhere(rlTab, rlPosts, log) \subseteq RlSomewhere(again, posts, log)
      BY <2>5, <2>8, <3>1 DEF RlSomewhere
    <3>3. 0..(rlTab.seq - 1) \subseteq RlSomewhere(rlTab, rlPosts, log)
      BY <3>1 DEF RlTabInv
    <3>. QED  BY <2>8, <3>2, <3>3
  <2>. QED  BY <1>2, <2>1, <2>4, <2>7, <2>8, <2>9, <2>10, <2>11 DEF RlTabInv
<1>. QED  BY <1>0, <1>4, <1>5, <1>6, <1>7 DEF RlPostOf

(***************************************************************************)
(* The server                                                              *)
(***************************************************************************)
\* A batch has met the server: its state changes, and the log may have grown.
LEMMA PostMoves ==
  ASSUME NEW log, NEW new, RlTabInv(rlTab, rlPosts, log), NEW p \in rlPosts, NEW at \in {"ok", "failed"},
         ToSet(log) \subseteq ToSet(new), at = "ok" => ToSet(p.batch) \subseteq ToSet(new),
         rlPosts' = (rlPosts \ {p}) \cup {[p EXCEPT !.net = at]}, rlTab' = rlTab
  PROVE  RlTabInv(rlTab', rlPosts', new)
<1>. DEFINE q == [p EXCEPT !.net = at]
<1>0. p \in RlPostOf
  BY DEF RlTabInv
<1>1. q \in RlPostOf /\ q.batch = p.batch /\ q.by = p.by /\ q.net = at
  BY <1>0 DEF RlPostOf
<1>. HIDE DEF q
<1>2. rlPosts' = (rlPosts \ {p}) \cup {q}
  BY DEF q
<1>3. \A r \in rlPosts : RlPostInv(r, rlTab, new)
  BY DEF RlTabInv, RlPostInv
<1>4. RlPostInv(q, rlTab, new)
  BY <1>1, <1>3 DEF RlPostInv
<1>5. RlSomewhere(rlTab, rlPosts, log) \subseteq RlSomewhere(rlTab, rlPosts', new)
  BY <1>1, <1>2 DEF RlSomewhere
<1>. QED  BY <1>1, <1>2, <1>3, <1>4, <1>5 DEF RlTabInv

\* publish puts the batch, or the part the queue has room for, behind what waits.
LEMMA PublishedKeeps ==
  ASSUME NEW log, NEW batch, RlViewInv(rlViewer, log), RlOrdered(log), RlOrdered(batch), RlBefore(log, batch)
  PROVE  RlViewInv(RlPublished(batch), log \o batch)
<1>. DEFINE v == rlViewer
            all == v.queue \o batch
            part == SubSeq(all, 1, RlQueue)
            whole == [v EXCEPT !.queue = all]
            cut == [v EXCEPT !.queue = part, !.subscribed = FALSE]
<1>0. /\ v \in RlViewerOf /\ RlOrdered(v.got) /\ RlOrdered(v.queue) /\ RlBefore(v.got, v.queue)
      /\ ToSet(v.got) \subseteq ToSet(log) /\ ToSet(v.queue) \subseteq ToSet(log)
  BY DEF RlViewInv
<1>1. ToSet(log \o batch) = ToSet(log) \cup ToSet(batch)
  BY JoinedOrdered
<1>2. RlBefore(v.queue, batch) /\ RlBefore(v.got, batch)
  BY <1>0 DEF RlBefore
<1>3. RlOrdered(all) /\ ToSet(all) = ToSet(v.queue) \cup ToSet(batch)
  BY <1>0, <1>2, JoinedOrdered
<1>4. CASE ~v.subscribed
  BY <1>0, <1>1, <1>4 DEF RlPublished, RlViewInv
<1>5. CASE v.subscribed /\ ~(Len(all) > RlQueue)
  <2>. HIDE DEF all
  <2>1. whole \in RlViewerOf
    <3>1. all \in Seq(Nat)
      BY <1>3 DEF RlOrdered
    <3>. QED  BY <1>0, <3>1, Zenon DEF RlViewerOf
  <2>2. whole.queue = all /\ whole.got = v.got /\ whole.sock = v.sock /\ whole.subscribed = v.subscribed
    BY <1>0 DEF RlViewerOf
  <2>3. RlPublished(batch) = whole
    BY <1>5 DEF RlPublished, all
  <2>. HIDE DEF whole
  <2>4. RlBefore(v.got, all)
    BY <1>0, <1>2, <1>3 DEF RlBefore
  <2>. QED  BY <1>0, <1>1, <1>3, <1>5, <2>1, <2>2, <2>3, <2>4 DEF RlViewInv
<1>6. CASE v.subscribed /\ Len(all) > RlQueue
  <2>1. RlQueue \in Nat /\ 1 \in Nat \ {0} /\ RlQueue <= Len(all)
    <3>1. Len(all) \in Nat
      BY <1>3 DEF RlOrdered
    <3>. QED  BY <1>6, <3>1, RlAssumption
  <2>2. RlOrdered(part) /\ ToSet(part) \subseteq ToSet(all)
    BY <1>3, <2>1, PartOrdered
  <2>3. RlPublished(batch) = cut
    BY <1>6 DEF RlPublished
  <2>. HIDE DEF part
  <2>4. cut \in RlViewerOf
    <3>1. part \in Seq(Nat)
      BY <2>2 DEF RlOrdered
    <3>. QED  BY <1>0, <3>1, Zenon DEF RlViewerOf
  <2>5. cut.queue = part /\ cut.got = v.got /\ cut.sock = v.sock /\ ~cut.subscribed
    BY <1>0 DEF RlViewerOf
  <2>. HIDE DEF cut, all
  <2>6. RlBefore(v.got, part)
    BY <1>0, <1>2, <1>3, <2>2 DEF RlBefore
  <2>7. v.sock = "streaming"
    BY <1>6 DEF RlViewInv
  <2>. QED  BY <1>0, <1>1, <1>3, <2>2, <2>3, <2>4, <2>5, <2>6, <2>7 DEF RlViewInv
<1>. QED  BY <1>4, <1>5, <1>6

LEMMA ServerKeeps ==
  ASSUME RlInv, NEW p \in rlPosts, RlPostHandled(p) \/ RlPostFailed(p)
  PROVE  RlInv'
<1>. DEFINE log == rlServer.log
            new == log \o p.batch
<1>0. /\ RlServerInv /\ RlTabInv(rlTab, rlPosts, log) /\ RlViewInv(rlViewer, log) /\ RlOrdered(log)
      /\ RlPostInv(p, rlTab, log) /\ p.batch \in Seq(Nat)
  BY DEF RlInv, RlServerInv, RlTabInv, RlPostOf
<1>1. CASE RlPostHandled(p)
  <2>1. PICK at \in {"ok", "failed"} : rlPosts' = (rlPosts \ {p}) \cup {[p EXCEPT !.net = at]}
    BY <1>1 DEF RlPostHandled
  <2>2. /\ RlAccepts(p.batch) /\ rlServer' = [rlServer EXCEPT !.log = new]
        /\ rlViewer' = RlPublished(p.batch) /\ rlTab' = rlTab
    BY <1>1 DEF RlPostHandled
  <2>3. RlOrdered(p.batch) /\ RlBefore(log, p.batch)
    BY <1>0, <2>2, AcceptedAfter DEF RlPostInv, RlAccepts
  <2>4. RlOrdered(new) /\ ToSet(new) = ToSet(log) \cup ToSet(p.batch)
    BY <1>0, <2>3, JoinedOrdered
  <2>. HIDE DEF new
  <2>5. rlServer'.log = new /\ RlServerInv'
    <3>1. new \in Seq(Nat)
      BY <2>4 DEF RlOrdered
    <3>. QED  BY <1>0, <2>2, <2>4, <3>1 DEF RlServerInv
  <2>6. RlTabInv(rlTab', rlPosts', new)
    BY <1>0, <2>1, <2>2, <2>4, PostMoves
  <2>7. RlViewInv(rlViewer', new)
    BY <1>0, <2>2, <2>3, PublishedKeeps DEF new
  <2>. QED  BY <2>5, <2>6, <2>7 DEF RlInv
<1>2. CASE RlPostFailed(p)
  <2>1. rlPosts' = (rlPosts \ {p}) \cup {[p EXCEPT !.net = "failed"]} /\ UNCHANGED <<rlTab, rlServer, rlViewer>>
    BY <1>2 DEF RlPostFailed
  <2>2. RlTabInv(rlTab', rlPosts', log)
    BY <1>0, <2>1, PostMoves
  <2>. QED  BY <1>0, <2>1, <2>2 DEF RlInv, RlServerInv
<1>. QED  BY <1>1, <1>2

(***************************************************************************)
(* The spectator                                                           *)
(***************************************************************************)
LEMMA ShowFacts ==
  ASSUME NEW v \in RlViewerOf, NEW events \in Seq(Nat)
  PROVE  LET w == RlShow(v, events)
         IN /\ v.got \o events \in Seq(Nat) => w \in RlViewerOf
            /\ w.got = v.got \o events /\ w.queue = v.queue /\ w.sock = v.sock /\ w.subscribed = v.subscribed
<1>. DEFINE got == v.got \o events
            shown == v.shown + Len(events)
            status == IF \E i \in DOMAIN events : Script[events[i] + 1] = "terminal" THEN "closed" ELSE v.status
            w == [v EXCEPT !.got = got, !.shown = shown, !.status = status]
<1>1. shown \in Nat /\ status \in {"connecting", "live", "closed", "auth"}
  BY DEF RlViewerOf
<1>2. RlShow(v, events) = w
  BY DEF RlShow
<1>. HIDE DEF got, shown, status
<1>3. got \in Seq(Nat) => w \in RlViewerOf
  BY <1>1, Zenon DEF RlViewerOf
<1>4. w.got = got /\ w.queue = v.queue /\ w.sock = v.sock /\ w.subscribed = v.subscribed
  BY DEF RlViewerOf
<1>. QED  BY <1>2, <1>3, <1>4 DEF got

LEMMA StreamKeeps ==
  ASSUME NEW log, RlViewInv(rlViewer, log), RlStream
  PROVE  RlViewInv(rlViewer', log)
<1>. DEFINE v == rlViewer
            head == Head(v.queue)
            rest == Tail(v.queue)
            w == RlShow(v, <<head>>)
            new == [w EXCEPT !.queue = rest]
<1>0. /\ v \in RlViewerOf /\ RlOrdered(v.got) /\ RlOrdered(v.queue) /\ RlBefore(v.got, v.queue)
      /\ ToSet(v.got) \subseteq ToSet(log) /\ ToSet(v.queue) \subseteq ToSet(log)
      /\ v.sock = "streaming" /\ v.queue # <<>>
  BY DEF RlViewInv, RlStream
<1>1. /\ head \in Nat /\ head \in ToSet(v.queue)
      /\ RlOrdered(rest) /\ ToSet(rest) \subseteq ToSet(v.queue) /\ RlBefore(<<head>>, rest)
  BY <1>0, HeadOrdered
<1>2. RlOrdered(<<head>>) /\ ToSet(<<head>>) = {head}
  BY <1>1, OneOrdered
<1>. HIDE DEF head, rest
<1>3. RlBefore(v.got, <<head>>)
  BY <1>0, <1>1, <1>2 DEF RlBefore
<1>4. RlOrdered(v.got \o <<head>>) /\ ToSet(v.got \o <<head>>) = ToSet(v.got) \cup {head}
  BY <1>0, <1>2, <1>3, JoinedOrdered
<1>5. RlBefore(v.got \o <<head>>, rest)
  BY <1>0, <1>1, <1>2, <1>4 DEF RlBefore
<1>6. <<head>> \in Seq(Nat) /\ v.got \o <<head>> \in Seq(Nat) /\ rest \in Seq(Nat)
  BY <1>1, <1>2, <1>4 DEF RlOrdered
<1>7. w \in RlViewerOf /\ w.got = v.got \o <<head>> /\ w.sock = v.sock /\ w.subscribed = v.subscribed
      /\ w.queue = v.queue
  BY <1>0, <1>6, ShowFacts
<1>8. rlViewer' = [w EXCEPT !.queue = Tail(w.queue)]
  BY DEF RlStream, head
<1>. HIDE DEF w
<1>a. rlViewer' = new
  BY <1>7, <1>8 DEF rest
<1>9. new \in RlViewerOf
  BY <1>6, <1>7, Zenon DEF RlViewerOf
<1>10. new.queue = rest /\ new.got = w.got /\ new.sock = w.sock /\ new.subscribed = w.subscribed
  BY <1>7 DEF RlViewerOf
<1>. HIDE DEF new
<1>. QED  BY <1>0, <1>1, <1>4, <1>5, <1>7, <1>9, <1>10, <1>a DEF RlViewInv

\* A connection begins with the whole log and an empty queue.
LEMMA ConnectKeeps ==
  ASSUME NEW log, log = rlServer.log, RlOrdered(log), RlViewInv(rlViewer, log), RlConnect
  PROVE  RlViewInv(rlViewer', log)
<1>. DEFINE v == [rlViewer EXCEPT !.got = <<>>]
            w == RlShow(v, log)
            new == [w EXCEPT !.sock = "greeted", !.status = "live", !.attempts = 0]
<1>0. rlViewer \in RlViewerOf /\ rlViewer.queue = <<>> /\ ~rlViewer.subscribed /\ <<>> \in Seq(Nat) /\ 0 \in Nat
  BY DEF RlViewInv, RlConnect
<1>1. v \in RlViewerOf
  BY <1>0, Zenon DEF RlViewerOf
<1>2. v.got = <<>> /\ v.queue = rlViewer.queue /\ v.subscribed = rlViewer.subscribed
  BY <1>0 DEF RlViewerOf
<1>3. rlViewer' = new
  BY DEF RlConnect
<1>. HIDE DEF v
<1>4. log \in Seq(Nat) /\ v.got \o log = log
  BY <1>2 DEF RlOrdered
<1>5. w \in RlViewerOf /\ w.got = log /\ w.queue = <<>> /\ ~w.subscribed
  BY <1>0, <1>1, <1>2, <1>4, ShowFacts
<1>. HIDE DEF w
<1>6. new \in RlViewerOf
  BY <1>0, <1>5, Zenon DEF RlViewerOf
<1>7. new.got = w.got /\ new.queue = w.queue /\ new.subscribed = w.subscribed /\ new.sock = "greeted"
  BY <1>5 DEF RlViewerOf
<1>. HIDE DEF new
<1>. QED  BY <1>3, <1>5, <1>6, <1>7, EmptyOrdered DEF RlViewInv

\* The socket changes, the queue stays or is thrown away.
LEMMA SocketKeeps ==
  ASSUME NEW log, RlViewInv(rlViewer, log), RlSubscribe \/ RlDropped \/ RlReconnect \/ RlRevoked \/ RlViewLeft
  PROVE  RlViewInv(rlViewer', log)
<1>0. /\ rlViewer \in RlViewerOf /\ rlViewer.attempts \in Nat /\ rlViewer.attempts + 1 \in Nat /\ <<>> \in Seq(Nat)
  BY DEF RlViewInv, RlViewerOf
<1>1. CASE RlSubscribe
  <2>. DEFINE v == [rlViewer EXCEPT !.sock = "streaming", !.subscribed = TRUE]
  <2>1. v \in RlViewerOf
    BY <1>0, Zenon DEF RlViewerOf
  <2>2. v.got = rlViewer.got /\ v.queue = rlViewer.queue /\ v.sock = "streaming"
    BY <1>0 DEF RlViewerOf
  <2>3. rlViewer' = v
    BY <1>1 DEF RlSubscribe
  <2>. HIDE DEF v
  <2>. QED  BY <2>1, <2>2, <2>3 DEF RlViewInv
<1>2. CASE RlReconnect
  <2>. DEFINE v == [rlViewer EXCEPT !.sock = "connecting"]
  <2>1. v \in RlViewerOf
    BY <1>0, Zenon DEF RlViewerOf
  <2>2. /\ v.got = rlViewer.got /\ v.queue = rlViewer.queue /\ v.subscribed = rlViewer.subscribed
        /\ rlViewer.sock = "waiting"
    BY <1>0, <1>2 DEF RlViewerOf, RlReconnect
  <2>3. rlViewer' = v
    BY <1>2 DEF RlReconnect
  <2>. HIDE DEF v
  <2>. QED  BY <2>1, <2>2, <2>3 DEF RlViewInv
<1>3. CASE RlDropped \/ RlRevoked \/ RlViewLeft
  <2>. DEFINE gone == [rlViewer EXCEPT !.queue = <<>>, !.subscribed = FALSE]
              n == rlViewer.attempts + 1
  <2>1. gone \in RlViewerOf
    BY <1>0, Zenon DEF RlViewerOf
  <2>2. gone.got = rlViewer.got /\ gone.queue = <<>> /\ gone.subscribed = FALSE /\ gone.attempts \in Nat
    BY <1>0 DEF RlViewerOf
  <2>3. n \in Nat /\ gone.attempts = rlViewer.attempts
    BY <1>0 DEF RlViewerOf
  <2>4. RlGone(rlViewer) = gone
    BY DEF RlGone
  <2>. HIDE DEF gone, n
  <2>5. \E sock \in {"waiting", "over"}, status \in {"closed", "auth", gone.status}, attempts \in {n, gone.attempts} :
          rlViewer' = [gone EXCEPT !.sock = sock, !.status = status, !.attempts = attempts]
    <3>1. CASE RlDropped
      BY <2>3, <2>4, <3>1 DEF RlDropped, n
    <3>2. CASE RlRevoked
      <4>1. rlViewer' = [gone EXCEPT !.sock = "over", !.status = "auth"]
        BY <2>4, <3>2 DEF RlRevoked
      <4>2. rlViewer' = [gone EXCEPT !.sock = "over", !.status = "auth", !.attempts = gone.attempts]
        BY <2>1, <4>1 DEF RlViewerOf
      <4>. QED  BY <4>2
    <3>3. CASE RlViewLeft
      <4>1. rlViewer' = [gone EXCEPT !.sock = "over"]
        BY <2>4, <3>3 DEF RlViewLeft
      <4>2. rlViewer' = [gone EXCEPT !.sock = "over", !.status = gone.status, !.attempts = gone.attempts]
        BY <2>1, <4>1 DEF RlViewerOf
      <4>. QED  BY <4>2
    <3>. QED  BY <1>3, <3>1, <3>2, <3>3
  <2>6. PICK sock \in {"waiting", "over"}, status \in {"closed", "auth", gone.status}, attempts \in {n, gone.attempts} :
          rlViewer' = [gone EXCEPT !.sock = sock, !.status = status, !.attempts = attempts]
    BY <2>5
  <2>7. sock \in {"connecting", "greeted", "streaming", "waiting", "over"} /\ attempts \in Nat
        /\ status \in {"connecting", "live", "closed", "auth"}
    BY <2>1, <2>2, <2>3 DEF RlViewerOf
  <2>8. rlViewer' \in RlViewerOf
    BY <2>1, <2>6, <2>7, Zenon DEF RlViewerOf
  <2>9. rlViewer'.got = gone.got /\ rlViewer'.queue = gone.queue /\ rlViewer'.subscribed = gone.subscribed
    BY <2>1, <2>6 DEF RlViewerOf
  <2>. QED  BY <2>2, <2>8, <2>9, EmptyOrdered DEF RlViewInv
<1>. QED  BY <1>1, <1>2, <1>3

(***************************************************************************)
(* Theorems                                                                *)
(***************************************************************************)
RlSpec == RlInit /\ [][RlNext]_rlVars

LEMMA RlStep ==
  ASSUME RlInv, [RlNext]_rlVars
  PROVE  RlInv'
<1>0. /\ RlServerInv /\ RlTabInv(rlTab, rlPosts, rlServer.log) /\ RlViewInv(rlViewer, rlServer.log)
      /\ RlOrdered(rlServer.log)
  BY DEF RlInv, RlServerInv
<1>1. CASE RlRecord \/ RlInterval \/ RlBeacon \/ RlDestroy \/ RlSession
  <2>1. UNCHANGED <<rlServer, rlViewer>>
    BY <1>1 DEF RlRecord, RlInterval, RlBeacon, RlDestroy, RlSession
  <2>2. RlTabInv(rlTab', rlPosts', rlServer.log)
    BY <1>0, <1>1, RecordKeeps, BeaconKeeps, DestroyKeeps
  <2>. QED  BY <1>0, <2>1, <2>2 DEF RlInv, RlServerInv
<1>2. CASE RlEnded
  <2>1. rlServer'.log = rlServer.log /\ RlServerInv' /\ UNCHANGED <<rlTab, rlPosts, rlViewer>>
    BY <1>0, <1>2 DEF RlEnded, RlServerInv
  <2>. QED  BY <1>0, <2>1 DEF RlInv
<1>3. ASSUME NEW p \in rlPosts, RlPostHandled(p) \/ RlPostFailed(p) PROVE RlInv'
  BY <1>3, ServerKeeps
<1>4. ASSUME NEW p \in rlPosts, RlPostAnswered(p) PROVE RlInv'
  <2>1. UNCHANGED <<rlServer, rlViewer>>
    BY <1>4 DEF RlPostAnswered
  <2>2. RlTabInv(rlTab', rlPosts', rlServer.log)
    BY <1>0, <1>4, AnsweredKeeps
  <2>. QED  BY <1>0, <2>1, <2>2 DEF RlInv, RlServerInv
<1>5. CASE RlConnect \/ RlStream \/ RlSubscribe \/ RlDropped \/ RlReconnect \/ RlRevoked \/ RlViewLeft
  <2>1. UNCHANGED <<rlServer, rlTab, rlPosts>>
    BY <1>5 DEF RlConnect, RlStream, RlSubscribe, RlDropped, RlReconnect, RlRevoked, RlViewLeft
  <2>2. RlViewInv(rlViewer', rlServer.log)
    BY <1>0, <1>5, ConnectKeeps, StreamKeeps, SocketKeeps
  <2>. QED  BY <1>0, <2>1, <2>2 DEF RlInv, RlServerInv
<1>6. CASE RlLoad \/ RlPlay \/ RlPause \/ RlTick \/ UNCHANGED rlVars
  <2>1. UNCHANGED <<rlServer, rlTab, rlPosts, rlViewer>>
    BY <1>6 DEF RlLoad, RlPlay, RlPause, RlTick, rlVars
  <2>. QED  BY <1>0, <2>1 DEF RlInv, RlServerInv
<1>. QED  BY <1>1, <1>2, <1>3, <1>4, <1>5, <1>6 DEF RlNext

\* Batches, buffer, log, queue and what the spectator got are in order at all times.
THEOREM RlInvHolds == RlSpec => []RlInv
BY RlInitial, RlStep, PTL DEF RlSpec

\* EventRecorder, append_events and the spectate hub together: the stored log and the
\* stream of a connection are in order without doubles, and unless the recorder gave up,
\* overflowed, sent a beacon or was destroyed, no event it numbered is missing.
THEOREM LogFaithfulHolds == RlSpec => []LogFaithful
<1>1. RlInv => LogFaithful
  <2>. SUFFICES ASSUME RlInv PROVE LogFaithful
    OBVIOUS
  <2>1. StreamsInOrder
    BY DEF RlInv, RlServerInv, RlViewInv, RlOrdered, StreamsInOrder
  <2>2. NothingForgotten
    BY DEF RlInv, RlTabInv, RlSomewhere, NothingForgotten
  <2>. QED  BY <2>1, <2>2 DEF LogFaithful
<1>. QED  BY <1>1, RlInvHolds, PTL
=============================================================================
