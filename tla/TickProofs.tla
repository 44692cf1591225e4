------------------------------ MODULE TickProofs ------------------------------
(***************************************************************************)
(* The live ticks, for any network, any number of pages and nodes, and any *)
(* setting of the hub: which node it takes ticks from (TickNodes), and     *)
(* what becomes of them in its ring and streams (TickStream).              *)
(***************************************************************************)
EXTENDS MCTicks, SetOrderTheorems, FiniteSetTheorems, TLAPS

-----------------------------------------------------------------------------
(* The choice of the node: what the helpers do to the hub's fields. *)

TaskSteps == {"pick", "open", "wait", "ws", "poll", "bare"}

Tasks ==
  [step : TaskSteps, due : BOOLEAN, node : Nodes, downUntil : [Nodes -> Nat],
   netTick : Int, netAt : Int, picked : Nat, nodeHead : Nat, aliveAt : Nat,
   since : Nat, failures : Nat, pollUntil : Nat, until : Nat]

\* The fields of h that no helper but the one named touches.
Fields == {"step", "due", "node", "downUntil", "netTick", "netAt", "picked", "nodeHead",
           "aliveAt", "since", "failures", "pollUntil", "until"}

\* g and h agree but on the fields F.
SameBut(g, h, F) == \A f \in Fields \ F : g[f] = h[f]

\* The network's tick is read now, or the old value is kept.
LEMMA YardstickShape ==
  ASSUME NEW h \in Tasks, clock \in Nat, NEW g \in WithYardstick(h)
  PROVE  /\ g \in Tasks /\ SameBut(g, h, {"netTick", "netAt"})
         /\ g.netTick = h.netTick \/ g.netTick = clock
  <1>1. CASE g = h
    BY <1>1 DEF SameBut
  <1>2. CASE g = [h EXCEPT !.netAt = clock, !.netTick = clock]
    <2>1. clock \in Int
      OBVIOUS
    <2>2. g \in Tasks
      BY <1>2, <2>1, Zenon DEF Tasks
    <2>3. SameBut(g, h, {"netTick", "netAt"}) /\ g.netTick = clock
      BY <1>2, Zenon DEF Tasks, SameBut, Fields
    <2> QED
      BY <2>2, <2>3
  <1>3. CASE g = [h EXCEPT !.netAt = clock]
    <2>1. clock \in Int
      OBVIOUS
    <2>2. g \in Tasks
      BY <1>3, <2>1, Zenon DEF Tasks
    <2>3. SameBut(g, h, {"netTick", "netAt"}) /\ g.netTick = h.netTick
      BY <1>3, Zenon DEF Tasks, SameBut, Fields
    <2> QED
      BY <2>2, <2>3
  <1> QED
    BY <1>1, <1>2, <1>3 DEF WithYardstick

-----------------------------------------------------------------------------
(* The choice of the node: the invariant. *)

NodeTypes ==
  /\ clock \in Nat /\ clock <= TimeLimit
  /\ turns \in Nat /\ turns <= MaxTurns
  /\ health \in [Nodes -> {"well", "frozen", "dead"}]
  /\ frozenAt \in [Nodes -> Nat] /\ \A u \in Nodes : frozenAt[u] <= clock
  /\ wellSince \in [Nodes -> Nat] /\ \A u \in Nodes : wellSince[u] <= clock

\* The fields of the hub: nothing is dated ahead of the clock, no tick is known
\* that the network has not made, and the newest one was heard no earlier than
\* it was made.
TaskBounds(h) ==
  /\ h \in Tasks
  /\ Unread <= h.netTick /\ h.netTick <= clock
  /\ h.picked <= clock /\ h.since <= clock /\ h.aliveAt <= clock
  /\ h.nodeHead <= h.aliveAt
  /\ h.failures < Failures
  /\ \A u \in Nodes : h.downUntil[u] <= clock + Retry

\* In the bare feed every node's wait outlasts the feed's.
BareWaits(h) ==
  h.step = "bare" =>
    /\ \A u \in Nodes : h.until <= h.downUntil[u]
    /\ ~h.due => clock < h.until

\* When the stall clock last started, and when the node stopped, or was picked.
Started(h) == Greater(h.aliveAt, h.since)
Stopped(h) == Greater(HeadOf(h.node), h.picked)

\* What a tick the node made before it stopped adds when it is heard late.
LateTick(h) == IF HeadOf(h.node) > h.nodeHead THEN Stall + 1 ELSE 0

\* A round of the stall clock for each socket that may fail before the next poll.
Rounds(k) == (Failures - k) * (Stall + 2)

\* The last moment at which a round of polling without progress may still go on,
\* when the stall clock started at s and polling lasts until u.
PollEnds(s, u) == Greater(s + Stall + 1, u - PollFor + 1)

\* The last moment at which a node that is silent from now on may be kept: at c,
\* in this step, after k sockets have failed, with a tick that may be heard late.
DeadlineAt(step, due, c, s, u, k, late) ==
  CASE step = "open" -> c + Rounds(k) + late
    [] step = "wait" -> c + (IF due THEN 0 ELSE 1) + Rounds(k) + late
    [] step = "ws"   -> s + Rounds(k) + late
    [] step = "poll" -> PollEnds(s, u) + late +
                          (IF u <= PollEnds(s, u) + late THEN Rounds(0) ELSE 0)

Deadline(h) ==
  DeadlineAt(h.step, h.due, clock, Started(h), h.pollUntil, h.failures, LateTick(h))

\* A unit goes by unheard before the stall clock is looked at.
SeenAt(step, due, c, s, u, k) ==
  LET unheard == IF due THEN c ELSE c + 1
  IN  /\ step = "ws" => unheard <= s + Stall + 1
      /\ step = "poll" => unheard <= PollEnds(s, u) /\ k = 0 /\ u - PollFor <= c
      /\ step = "wait" => k > 0

StallSeen(h) == SeenAt(h.step, h.due, clock, Started(h), h.pollUntil, h.failures)

InUse(h) == h.step \in {"open", "wait", "ws", "poll"}

Leaving(h) == InUse(h) => StallSeen(h) /\ Deadline(h) <= Stopped(h) + StaleAtMost

NodesInv == NodeTypes /\ TaskBounds(task) /\ BareWaits(task) /\ Leaving(task)
-----------------------------------------------------------------------------
\* A tick beyond the newest one heard is heard now.
LEMMA ProgressedShape ==
  ASSUME NEW h \in Tasks, clock \in Nat, NEW newest \in Nat
  PROVE  /\ Progressed(h, newest) \in Tasks
         /\ SameBut(Progressed(h, newest), h, {"nodeHead", "aliveAt"})
         /\ newest > h.nodeHead => /\ Progressed(h, newest).nodeHead = newest
                                /\ Progressed(h, newest).aliveAt = clock
         /\ ~(newest > h.nodeHead) => Progressed(h, newest) = h
  <1> DEFINE g == [h EXCEPT !.nodeHead = newest, !.aliveAt = clock]
  <1>1. CASE newest > h.nodeHead
    <2>1. Progressed(h, newest) = g
      BY <1>1, Zenon DEF Progressed
    <2>2. g \in Tasks
      BY Zenon DEF Tasks
    <2>3. SameBut(g, h, {"nodeHead", "aliveAt"}) /\ g.nodeHead = newest /\ g.aliveAt = clock
      BY Zenon DEF Tasks, SameBut, Fields
    <2> HIDE DEF g
    <2> QED
      BY <1>1, <2>1, <2>2, <2>3
  <1>2. CASE ~(newest > h.nodeHead)
    BY <1>2, Zenon DEF Progressed, SameBut
  <1> QED
    BY <1>1, <1>2

\* The node is marked down and another one picked.
LEMMA DroppedShape ==
  ASSUME NEW h \in Tasks, clock \in Nat
  PROVE  /\ Dropped(h) \in Tasks
         /\ SameBut(Dropped(h), h, {"step", "downUntil"})
         /\ Dropped(h).step = "pick"
         /\ Dropped(h).downUntil = [h.downUntil EXCEPT ![h.node] = clock + Retry]
  <1> DEFINE down == [h.downUntil EXCEPT ![h.node] = clock + Retry]
             g == [h EXCEPT !.downUntil = down, !.step = "pick"]
  <1>1. Dropped(h) = g
    BY Zenon DEF Dropped, Marked
  <1>2. down \in [Nodes -> Nat]
    BY NodesAssumption DEF Tasks
  <1> HIDE DEF down
  <1>3. g \in Tasks
    BY <1>2, Zenon DEF Tasks, TaskSteps
  <1>4. SameBut(g, h, {"step", "downUntil"}) /\ g.step = "pick" /\ g.downUntil = down
    BY Zenon DEF Tasks, SameBut, Fields
  <1> HIDE DEF g
  <1> QED
    BY <1>1, <1>3, <1>4 DEF down

\* The socket is opened again after a wait, or the node is polled.
LEMMA SocketFailedShape ==
  ASSUME NEW h \in Tasks, clock \in Nat
  PROVE  /\ SocketFailed(h) \in Tasks
         /\ SameBut(SocketFailed(h), h, {"step", "due", "failures", "pollUntil"})
         /\ ~SocketFailed(h).due
         /\ h.failures + 1 >= Failures => /\ SocketFailed(h).step = "poll"
                                         /\ SocketFailed(h).failures = 0
                                         /\ SocketFailed(h).pollUntil = clock + PollFor
         /\ ~(h.failures + 1 >= Failures) => /\ SocketFailed(h).step = "wait"
                                            /\ SocketFailed(h).failures = h.failures + 1
                                            /\ SocketFailed(h).pollUntil = h.pollUntil
  <1>1. CASE h.failures + 1 >= Failures
    <2> DEFINE u == clock + PollFor
               g == [h EXCEPT !.failures = 0, !.pollUntil = u, !.step = "poll", !.due = FALSE]
    <2>1. SocketFailed(h) = g
      BY <1>1, Zenon DEF SocketFailed
    <2>2. u \in Nat /\ 0 \in Nat
      BY NodesAssumption
    <2> HIDE DEF u
    <2>3. g \in Tasks
      BY <2>2, Zenon DEF Tasks, TaskSteps
    <2>4. /\ SameBut(g, h, {"step", "due", "failures", "pollUntil"})
          /\ ~g.due /\ g.step = "poll" /\ g.failures = 0 /\ g.pollUntil = u
      BY Zenon DEF Tasks, SameBut, Fields
    <2> HIDE DEF g
    <2> QED
      BY <1>1, <2>1, <2>3, <2>4 DEF u
  <1>2. CASE ~(h.failures + 1 >= Failures)
    <2> DEFINE n == h.failures + 1
               g == [h EXCEPT !.failures = n, !.step = "wait", !.due = FALSE]
    <2>1. SocketFailed(h) = g
      BY <1>2, Zenon DEF SocketFailed
    <2>2. n \in Nat
      BY DEF Tasks
    <2> HIDE DEF n
    <2>3. g \in Tasks
      BY <2>2, Zenon DEF Tasks, TaskSteps
    <2>4. /\ SameBut(g, h, {"step", "due", "failures", "pollUntil"})
          /\ ~g.due /\ g.step = "wait" /\ g.failures = n /\ g.pollUntil = h.pollUntil
      BY Zenon DEF Tasks, SameBut, Fields
    <2> HIDE DEF g
    <2> QED
      BY <1>2, <2>1, <2>3, <2>4 DEF n
  <1> QED
    BY <1>1, <1>2

\* A node is asked: it answers with a tick the network has made.
LEMMA HeadTyped ==
  ASSUME NodeTypes, NEW u \in Nodes
  PROVE  HeadOf(u) \in Nat /\ HeadOf(u) <= clock /\ (health[u] = "well" => HeadOf(u) = clock)
  BY DEF NodeTypes, HeadOf

-----------------------------------------------------------------------------
(* The choice of the node: what a unit of ticks may do to the hub. *)

\* The newest tick heard is the one before, or the node's.
Heard(h, g) ==
  \/ g.nodeHead = h.nodeHead /\ g.aliveAt = h.aliveAt
  \/ HeadOf(h.node) > h.nodeHead /\ g.nodeHead = HeadOf(h.node) /\ g.aliveAt = clock

\* The node is left: it was silent for too long and is stuck, or lags.
Left(h, g) ==
  /\ g.step = "pick"
  /\ SameBut(g, h, {"step", "due", "downUntil", "netTick", "netAt", "nodeHead", "aliveAt"})
  /\ g.downUntil = [h.downUntil EXCEPT ![h.node] = clock + Retry]
  /\ \/ clock - Started(h) > Stall /\ (health[h.node] = "dead" \/ HeadOf(h.node) <= h.nodeHead)
     \/ Behind(g, g.nodeHead)

\* It is kept as it is used: it was not silent for too long.
Kept(h, g) ==
  /\ ~g.due /\ clock - Started(g) <= Stall
  /\ SameBut(g, h, {"due", "netTick", "netAt", "nodeHead", "aliveAt"})

\* Its socket, if it has one, failed.
Failed(h, g) ==
  /\ ~g.due
  /\ SameBut(g, h, {"step", "due", "failures", "pollUntil", "nodeHead", "aliveAt"})
  /\ h.failures + 1 >= Failures =>
       g.step = "poll" /\ g.failures = 0 /\ g.pollUntil = clock + PollFor
  /\ ~(h.failures + 1 >= Failures) =>
       g.step = "wait" /\ g.failures = h.failures + 1 /\ g.pollUntil = h.pollUntil

Moved(h, g, socket) ==
  /\ g \in Tasks /\ Heard(h, g)
  /\ g.netTick = h.netTick \/ g.netTick = clock
  /\ Left(h, g) \/ Kept(h, g) \/ (socket /\ Failed(h, g))

\* The node is held against the network's tick.
LEMMA YardstickMoves ==
  ASSUME NodeTypes, NEW h \in Tasks, ~h.due, clock - Started(h) <= Stall,
         NEW n \in WithYardstick(h), NEW socket \in BOOLEAN
  PROVE  Moved(h, IF Behind(n, n.nodeHead) THEN Dropped(n) ELSE n, socket)
  <1>1. clock \in Nat
    BY DEF NodeTypes
  <1>2. n \in Tasks /\ SameBut(n, h, {"netTick", "netAt"})
        /\ (n.netTick = h.netTick \/ n.netTick = clock)
    BY <1>1, YardstickShape
  <1>3. n.nodeHead = h.nodeHead /\ n.aliveAt = h.aliveAt /\ n.since = h.since /\ n.due = h.due
        /\ n.node = h.node /\ n.downUntil = h.downUntil
    BY <1>2 DEF SameBut, Fields
  <1>4. CASE Behind(n, n.nodeHead)
    <2> DEFINE g == Dropped(n)
    <2>1. /\ g \in Tasks /\ SameBut(g, n, {"step", "downUntil"}) /\ g.step = "pick"
          /\ g.downUntil = [n.downUntil EXCEPT ![n.node] = clock + Retry]
      BY <1>1, <1>2, DroppedShape
    <2> HIDE DEF g
    <2>2. g.nodeHead = n.nodeHead /\ g.aliveAt = n.aliveAt /\ g.netTick = n.netTick
      BY <2>1 DEF SameBut, Fields
    <2>3. SameBut(g, h, {"step", "due", "downUntil", "netTick", "netAt", "nodeHead", "aliveAt"})
      BY <1>2, <2>1 DEF SameBut, Fields
    <2>4. Left(h, g)
      BY <1>3, <1>4, <2>1, <2>2, <2>3 DEF Left, Behind
    <2>5. Moved(h, g, socket)
      BY <1>2, <1>3, <2>1, <2>2, <2>4 DEF Moved, Heard
    <2> QED
      BY <1>4, <2>5 DEF g
  <1>5. CASE ~Behind(n, n.nodeHead)
    <2>1. SameBut(n, h, {"due", "netTick", "netAt", "nodeHead", "aliveAt"})
      BY <1>2 DEF SameBut, Fields
    <2>2. Kept(h, n)
      BY <1>3, <2>1 DEF Kept, Started
    <2>3. Moved(h, n, socket)
      BY <1>2, <1>3, <2>2 DEF Moved, Heard
    <2> QED
      BY <1>5, <2>3
  <1> QED
    BY <1>4, <1>5

\* A socket that fails without a word.
LEMMA FailureMoves ==
  ASSUME NodeTypes, NEW h \in Tasks
  PROVE  Failed(h, SocketFailed(h)) /\ Moved(h, SocketFailed(h), TRUE)
  <1> DEFINE g == SocketFailed(h)
  <1>1. clock \in Nat
    BY DEF NodeTypes
  <1>2. /\ g \in Tasks /\ SameBut(g, h, {"step", "due", "failures", "pollUntil"}) /\ ~g.due
        /\ h.failures + 1 >= Failures =>
             g.step = "poll" /\ g.failures = 0 /\ g.pollUntil = clock + PollFor
        /\ ~(h.failures + 1 >= Failures) =>
             g.step = "wait" /\ g.failures = h.failures + 1 /\ g.pollUntil = h.pollUntil
    BY <1>1, SocketFailedShape
  <1> HIDE DEF g
  <1>3. g.nodeHead = h.nodeHead /\ g.aliveAt = h.aliveAt /\ g.netTick = h.netTick
    BY <1>2 DEF SameBut, Fields
  <1>4. SameBut(g, h, {"step", "due", "failures", "pollUntil", "nodeHead", "aliveAt"})
    BY <1>2 DEF SameBut, Fields
  <1>5. Failed(h, g)
    BY <1>2, <1>4 DEF Failed
  <1> QED
    BY <1>2, <1>3, <1>5 DEF Moved, Heard, g

\* What is heard first, and then what follows from it.
LEMMA HeardFirst ==
  ASSUME NodeTypes, NEW h \in Tasks, h.since <= clock,
         NEW socket \in BOOLEAN, NEW g, Moved(Progressed(h, HeadOf(h.node)), g, socket)
  PROVE  Moved(h, g, socket)
  <1> DEFINE p == Progressed(h, HeadOf(h.node))
  <1>1. clock \in Nat /\ HeadOf(h.node) \in Nat
    BY HeadTyped DEF NodeTypes, Tasks
  <1>2. /\ p \in Tasks /\ SameBut(p, h, {"nodeHead", "aliveAt"})
        /\ HeadOf(h.node) > h.nodeHead => p.nodeHead = HeadOf(h.node) /\ p.aliveAt = clock
        /\ ~(HeadOf(h.node) > h.nodeHead) => p = h
    BY <1>1, ProgressedShape
  <1>3. Moved(p, g, socket)
    OBVIOUS
  <1> HIDE DEF p
  <1>4. CASE p = h
    BY <1>3, <1>4
  <1>5. CASE HeadOf(h.node) > h.nodeHead
    <2>1. /\ p.node = h.node /\ p.since = h.since /\ p.failures = h.failures
          /\ p.downUntil = h.downUntil /\ p.netTick = h.netTick /\ p.pollUntil = h.pollUntil
          /\ p.nodeHead = HeadOf(h.node) /\ p.aliveAt = clock
      BY <1>2, <1>5 DEF SameBut, Fields
    <2>2. g \in Tasks /\ Heard(h, g) /\ (g.netTick = h.netTick \/ g.netTick = clock)
      BY <1>1, <1>3, <1>5, <2>1 DEF Moved, Heard
    <2>3. ASSUME Left(p, g) PROVE Left(h, g)
      <3>1. Started(p) = clock
        BY <1>1, <2>1 DEF Started, Greater, Tasks
      <3>2. ~(clock - Started(p) > Stall)
        BY <1>1, <3>1, NodesAssumption
      <3>3. SameBut(g, h, {"step", "due", "downUntil", "netTick", "netAt", "nodeHead", "aliveAt"})
        BY <1>2, <2>3 DEF SameBut, Fields, Left
      <3> QED
        BY <2>1, <2>3, <3>2, <3>3 DEF Left
    <2>4. ASSUME Kept(p, g) PROVE Kept(h, g)
      BY <1>2, <2>4 DEF Kept, SameBut, Fields
    <2>5. ASSUME Failed(p, g) PROVE Failed(h, g)
      <3>1. SameBut(g, h, {"step", "due", "failures", "pollUntil", "nodeHead", "aliveAt"})
        BY <1>2, <2>5 DEF SameBut, Fields, Failed
      <3> QED
        BY <2>1, <2>5, <3>1 DEF Failed
    <2> QED
      BY <1>3, <2>2, <2>3, <2>4, <2>5 DEF Moved
  <1> QED
    BY <1>2, <1>4, <1>5

\* The unit is handled before the node's health is looked at.
LEMMA HandledShape ==
  ASSUME NEW h \in Tasks
  PROVE  LET k == [h EXCEPT !.due = FALSE]
         IN  k \in Tasks /\ ~k.due /\ SameBut(k, h, {"due"})
  BY Zenon DEF Tasks, SameBut, Fields

\* That a unit was handled makes no difference to what comes of it.
LEMMA HandledMoves ==
  ASSUME NEW h \in Tasks, NEW k \in Tasks, SameBut(k, h, {"due"}),
         NEW socket \in BOOLEAN, NEW g, Moved(k, g, socket)
  PROVE  Moved(h, g, socket)
  <1>1. /\ k.node = h.node /\ k.since = h.since /\ k.failures = h.failures
        /\ k.downUntil = h.downUntil /\ k.netTick = h.netTick /\ k.pollUntil = h.pollUntil
        /\ k.nodeHead = h.nodeHead /\ k.aliveAt = h.aliveAt
    BY DEF SameBut, Fields
  <1>2. g \in Tasks /\ Heard(h, g) /\ (g.netTick = h.netTick \/ g.netTick = clock)
    BY <1>1 DEF Moved, Heard
  <1>3. ASSUME Left(k, g) PROVE Left(h, g)
    <2>1. SameBut(g, h, {"step", "due", "downUntil", "netTick", "netAt", "nodeHead", "aliveAt"})
      BY <1>3 DEF SameBut, Fields, Left
    <2> QED
      BY <1>1, <1>3, <2>1 DEF Left, Started
  <1>4. ASSUME Kept(k, g) PROVE Kept(h, g)
    BY <1>4 DEF Kept, SameBut, Fields
  <1>5. ASSUME Failed(k, g) PROVE Failed(h, g)
    <2>1. SameBut(g, h, {"step", "due", "failures", "pollUntil", "nodeHead", "aliveAt"})
      BY <1>5 DEF SameBut, Fields, Failed
    <2> QED
      BY <1>1, <1>5, <2>1 DEF Failed
  <1> QED
    BY <1>2, <1>3, <1>4, <1>5 DEF Moved

\* _check_health.
LEMMA CheckMoves ==
  ASSUME NodeTypes, NEW h \in Tasks, h.since <= clock, h.aliveAt <= clock,
         NEW socket \in BOOLEAN, NEW g \in Checked(h, socket)
  PROVE  Moved(h, g, socket)
  <1> DEFINE k == [h EXCEPT !.due = FALSE]
             p == Progressed(k, HeadOf(k.node))
             Yardstick(j) == {IF Behind(n, n.nodeHead) THEN Dropped(n) ELSE n :
                                n \in WithYardstick(j)}
  <1>1. k \in Tasks /\ ~k.due /\ SameBut(k, h, {"due"})
    BY HandledShape
  <1>2. g \in IF clock - Greater(k.aliveAt, k.since) <= Stall THEN Yardstick(k)
              ELSE IF health[k.node] = "dead" \/ Stuck(k) THEN {Dropped(k)}
              ELSE IF socket THEN {SocketFailed(p)} ELSE Yardstick(p)
    BY Zenon DEF Checked
  <1> HIDE DEF k
  <1>3. k.since <= clock /\ k.aliveAt <= clock
    BY <1>1 DEF SameBut, Fields
  <1>4. clock \in Nat /\ HeadOf(k.node) \in Nat
    BY <1>1, HeadTyped DEF NodeTypes, Tasks
  <1>5. /\ p \in Tasks /\ SameBut(p, k, {"nodeHead", "aliveAt"})
        /\ HeadOf(k.node) > k.nodeHead => p.aliveAt = clock
    BY <1>1, <1>4, ProgressedShape
  <1> HIDE DEF p
  <1>6. ASSUME clock - Started(k) <= Stall, g \in Yardstick(k) PROVE Moved(k, g, socket)
    BY <1>1, <1>6, YardstickMoves
  <1>7. ASSUME clock - Started(k) > Stall, health[k.node] = "dead" \/ Stuck(k), g = Dropped(k)
        PROVE  Moved(k, g, socket)
    <2>1. /\ g \in Tasks /\ SameBut(g, k, {"step", "downUntil"}) /\ g.step = "pick"
          /\ g.downUntil = [k.downUntil EXCEPT ![k.node] = clock + Retry]
      BY <1>1, <1>4, <1>7, DroppedShape
    <2>2. g.nodeHead = k.nodeHead /\ g.aliveAt = k.aliveAt /\ g.netTick = k.netTick
      BY <2>1 DEF SameBut, Fields
    <2>3. SameBut(g, k, {"step", "due", "downUntil", "netTick", "netAt", "nodeHead", "aliveAt"})
      BY <2>1 DEF SameBut, Fields
    <2>4. Left(k, g)
      BY <1>7, <2>1, <2>3 DEF Left, Stuck
    <2> QED
      BY <2>1, <2>2, <2>4 DEF Moved, Heard
  <1>8. ASSUME socket, ~Stuck(k), g = SocketFailed(p) PROVE Moved(k, g, socket)
    <2>1. Moved(p, g, TRUE)
      BY <1>5, <1>8, FailureMoves
    <2>2. Moved(p, g, socket)
      BY <1>8, <2>1 DEF Moved
    <2> QED
      BY <1>1, <1>3, <2>2, HeardFirst DEF p
  <1>9. ASSUME ~Stuck(k), g \in Yardstick(p) PROVE Moved(k, g, socket)
    <2>1. p.aliveAt = clock /\ p.since = k.since
      BY <1>1, <1>4, <1>5, <1>9 DEF Stuck, SameBut, Fields, Tasks
    <2>2. Started(p) = clock
      BY <1>1, <1>3, <1>4, <2>1 DEF Started, Greater, Tasks
    <2>3. clock - Started(p) <= Stall
      BY <1>4, <2>2, NodesAssumption
    <2>4. ~p.due
      BY <1>1, <1>5 DEF SameBut, Fields
    <2>5. Moved(p, g, socket)
      BY <1>5, <1>9, <2>3, <2>4, YardstickMoves
    <2> QED
      BY <1>1, <1>3, <2>5, HeardFirst DEF p
  <1>10. Started(k) = Greater(k.aliveAt, k.since) /\ Started(k) \in Nat
    BY <1>1 DEF Started, Greater, Tasks
  <1> HIDE DEF Yardstick
  <1>11. (clock - Started(k) <= Stall) \/ (clock - Started(k) > Stall)
    BY <1>4, <1>10, NodesAssumption
  <1>12. Moved(k, g, socket)
    BY <1>2, <1>6, <1>7, <1>8, <1>9, <1>10, <1>11
  <1> QED
    BY <1>1, <1>12, HandledMoves

-----------------------------------------------------------------------------
(* The choice of the node: picking one. *)

\* The least of a set of natural numbers is one of them.
LEMMA MinIsLeast ==
  ASSUME NEW S \in SUBSET Nat, S # {}
  PROVE  Min(S) \in S /\ \A x \in S : Min(S) <= x
  BY LeastFound DEF Min

\* The first node that is fit is taken, and those tried before it are marked
\* down; when none is fit all that could be tried are.
LEMMA PickedShape ==
  ASSUME NodeTypes, NEW h \in Tasks
  PROVE  LET g == Picked(h)
         IN  /\ g \in Tasks
             /\ \A u \in Nodes : \/ g.downUntil[u] = h.downUntil[u]
                                 \/ g.downUntil[u] = clock + Retry /\ Unfit(h, u)
             /\ \/ /\ g.step = "open" /\ g.picked = clock /\ g.aliveAt = clock
                   /\ g.since = clock /\ g.nodeHead = HeadOf(g.node) /\ g.failures = 0
                   /\ g.netTick = h.netTick
                \/ /\ g.step = "bare" /\ ~g.due /\ clock < g.until
                   /\ \A u \in Nodes : g.until <= g.downUntil[u]
                   /\ SameBut(g, h, {"step", "due", "downUntil", "until"})
  <1> DEFINE open  == {u \in Nodes : h.downUntil[u] <= clock}
             fit   == {u \in open : ~Unfit(h, u)}
             tried == IF fit = {} THEN open ELSE {u \in open : u < Min(fit)}
             down  == [u \in Nodes |-> IF u \in tried THEN clock + Retry ELSE h.downUntil[u]]
             newest  == HeadOf(Min(fit))
             wait  == ProbeAt({down[u] : u \in Nodes})
             taken == [h EXCEPT !.downUntil = down, !.step = "open", !.node = Min(fit),
                                !.picked = clock, !.nodeHead = newest, !.aliveAt = clock,
                                !.since = clock, !.failures = 0, !.pollUntil = 0]
             none  == [h EXCEPT !.downUntil = down, !.step = "bare", !.due = FALSE,
                                !.until = wait]
  <1>1. clock \in Nat /\ Nodes \in SUBSET Nat /\ Nodes # {} /\ h.downUntil \in [Nodes -> Nat]
    <2>1. clock \in Nat /\ h.downUntil \in [Nodes -> Nat]
      BY DEF NodeTypes, Tasks
    <2>2. 1 \in Nodes /\ \A u \in Nodes : u \in Nat
      BY NodesAssumption DEF Nodes
    <2> QED
      BY <2>1, <2>2
  <1>2. Picked(h) = IF fit # {} THEN taken ELSE none
    BY Zenon DEF Picked
  <1>3. down \in [Nodes -> Nat]
    BY <1>1, NodesAssumption
  <1>4. ASSUME NEW u \in Nodes, u \in tried PROVE Unfit(h, u) /\ h.downUntil[u] <= clock
    <2>1. CASE fit = {}
      BY <1>4, <2>1
    <2>2. CASE fit # {}
      <3>1. Min(fit) \in fit /\ \A x \in fit : Min(fit) <= x
        <4>1. fit \in SUBSET Nat
          BY <1>1
        <4> HIDE DEF fit
        <4> QED
          BY <2>2, <4>1, MinIsLeast
      <3>2. u \in open /\ u < Min(fit)
        BY <1>4, <2>2
      <3>3. u \notin fit
        <4>1. Min(fit) \in Nat /\ u \in Nat
          BY <1>1, <3>1
        <4> QED
          BY <3>1, <3>2, <4>1
      <3> QED
        BY <3>2, <3>3
    <2> QED
      BY <2>1, <2>2
  <1>5. \A u \in Nodes : \/ down[u] = h.downUntil[u]
                         \/ down[u] = clock + Retry /\ Unfit(h, u)
    BY <1>4
  <1>6. CASE fit # {}
    <2>1. Min(fit) \in Nodes
      <3>1. fit \in SUBSET Nat /\ fit \in SUBSET Nodes
        BY <1>1
      <3> HIDE DEF fit
      <3> QED
        BY <1>6, <3>1, MinIsLeast
    <2>2. newest \in Nat /\ 0 \in Nat
      BY <2>1, HeadTyped
    <2>3. Picked(h) = taken
      BY <1>2, <1>6
    <2> HIDE DEF fit, down, newest
    <2>4. taken \in Tasks
      BY <1>1, <1>3, <2>1, <2>2, Zenon DEF Tasks, TaskSteps
    <2>5. /\ taken.downUntil = down /\ taken.step = "open" /\ taken.picked = clock
          /\ taken.aliveAt = clock /\ taken.since = clock /\ taken.node = Min(fit)
          /\ taken.nodeHead = newest /\ taken.failures = 0 /\ taken.netTick = h.netTick
      BY Zenon DEF Tasks
    <2> HIDE DEF taken
    <2>6. taken.nodeHead = HeadOf(taken.node)
      BY <2>5 DEF newest
    <2> QED
      BY <1>5, <2>3, <2>4, <2>5, <2>6
  <1>7. CASE fit = {}
    <2> DEFINE downs == {down[u] : u \in Nodes}
    <2>1. ASSUME NEW u \in Nodes PROVE down[u] > clock
      <3>1. CASE u \in open
        BY <1>1, <1>7, <3>1, NodesAssumption
      <3>2. CASE u \notin open
        <4>1. down[u] = h.downUntil[u] /\ h.downUntil[u] \in Nat
          BY <1>1, <1>7, <3>2
        <4> QED
          BY <1>1, <3>2, <4>1
      <3> QED
        BY <3>1, <3>2
    <2> HIDE DEF down
    <2>2. downs \in SUBSET Nat /\ downs # {}
      BY <1>1, <1>3
    <2>3. Min(downs) \in downs /\ \A x \in downs : Min(downs) <= x
      <3> HIDE DEF downs
      <3> QED
        BY <2>2, MinIsLeast
    <2>4. Min(downs) \in Nat /\ Min(downs) > clock
      BY <2>1, <2>2, <2>3
    <2>5. wait = Min(downs)
      BY <1>1, <2>4 DEF ProbeAt, Greater
    <2>6. wait \in Nat /\ clock < wait /\ \A u \in Nodes : wait <= down[u]
      BY <2>3, <2>4, <2>5
    <2>7. Picked(h) = none
      BY <1>2, <1>7
    <2> HIDE DEF wait, downs
    <2>8. none \in Tasks
      BY <1>3, <2>6, Zenon DEF Tasks, TaskSteps
    <2>9. /\ none.downUntil = down /\ none.step = "bare" /\ ~none.due /\ none.until = wait
          /\ SameBut(none, h, {"step", "due", "downUntil", "until"})
      BY Zenon DEF Tasks, SameBut, Fields
    <2> HIDE DEF none
    <2> QED
      BY <1>5, <2>6, <2>7, <2>8, <2>9
  <1> QED
    BY <1>6, <1>7

-----------------------------------------------------------------------------
(* The choice of the node: the deadline, in numbers. *)

LEMMA RoundsCount ==
  /\ \A k \in Nat : Rounds(k) \in Int /\ Rounds(k + 1) = Rounds(k) - (Stall + 2)
                    /\ Rounds(k) <= Rounds(0) /\ (k < Failures => Rounds(k) >= Stall + 2)
  /\ StaleAtMost = Rounds(0) + 2 * Stall + 2
  <1>1. Failures \in Nat /\ Stall \in Nat
    BY NodesAssumption
  <1> DEFINE w == Stall + 2
  <1>2. w \in Nat /\ w = Stall + 2
    BY <1>1
  <1>3. StaleAtMost = Rounds(0) + 2 * Stall + 2
    BY <1>1 DEF StaleAtMost, Rounds
  <1>4. ASSUME NEW k \in Nat
        PROVE  /\ Rounds(k) \in Int /\ Rounds(k + 1) = Rounds(k) - (Stall + 2)
               /\ Rounds(k) <= Rounds(0) /\ (k < Failures => Rounds(k) >= Stall + 2)
    <2>1. Rounds(k) = (Failures - k) * w /\ Rounds(k + 1) = (Failures - (k + 1)) * w
          /\ Rounds(0) = Failures * w
      BY <1>1 DEF Rounds
    <2> HIDE DEF w
    <2>2. (Failures - k) * w \in Int /\ (Failures - (k + 1)) * w = (Failures - k) * w - w
      BY <1>1, <1>2
    <2>3. (Failures - k) * w <= Failures * w
      <3>1. (Failures - k) * w = Failures * w - k * w /\ k * w >= 0
        BY <1>1, <1>2
      <3> QED
        BY <1>1, <1>2, <3>1
    <2>4. k < Failures => (Failures - k) * w >= w
      <3> SUFFICES ASSUME k < Failures PROVE (Failures - k) * w >= w
        OBVIOUS
      <3>1. PICK n \in Nat : Failures - k = n + 1
        <4>1. Failures - k - 1 \in Nat /\ Failures - k = (Failures - k - 1) + 1
          BY <1>1
        <4> QED
          BY <4>1
      <3>2. (n + 1) * w = n * w + w /\ n * w >= 0
        BY <1>2
      <3> QED
        BY <1>2, <3>1, <3>2
    <2> QED
      BY <1>2, <2>1, <2>2, <2>3, <2>4
  <1> QED
    BY <1>3, <1>4

\* Whatever the hub is at, the deadline of a node that stops now is in bounds.
LEMMA DeadlineNow ==
  ASSUME NEW step \in {"open", "wait", "ws", "poll"}, NEW due,
         NEW c \in Nat, NEW s \in Nat, NEW u \in Nat, NEW k \in Nat, NEW late \in {0, Stall + 1},
         s <= c, k < Failures, SeenAt(step, due, c, s, u, k)
  PROVE  DeadlineAt(step, due, c, s, u, k, late) <= c + StaleAtMost
  <1>1. /\ Stall \in Nat /\ PollFor \in Nat /\ Stall >= 1
        /\ Rounds(k) \in Int /\ Rounds(k) <= Rounds(0) /\ Rounds(0) \in Int
        /\ Rounds(0) >= Stall + 2
        /\ StaleAtMost = Rounds(0) + 2 * Stall + 2
    BY NodesAssumption, RoundsCount
  <1>2. step = "wait" => Rounds(k) <= Rounds(0) - (Stall + 2)
    <2> SUFFICES ASSUME step = "wait" PROVE Rounds(k) <= Rounds(0) - (Stall + 2)
      OBVIOUS
    <2>1. k - 1 \in Nat
      BY DEF SeenAt
    <2>2. Rounds((k - 1) + 1) = Rounds(k - 1) - (Stall + 2) /\ Rounds(k - 1) <= Rounds(0)
          /\ Rounds(k - 1) \in Int
      BY <2>1, RoundsCount
    <2>3. (k - 1) + 1 = k
      OBVIOUS
    <2> QED
      BY <1>1, <2>2, <2>3
  <1> HIDE DEF Rounds, StaleAtMost
  <1>3. late <= Stall + 1 /\ late \in Nat
    BY <1>1
  <1>4. CASE step = "open"
    BY <1>1, <1>3, <1>4 DEF DeadlineAt
  <1>5. CASE step = "wait"
    BY <1>1, <1>2, <1>3, <1>5 DEF DeadlineAt
  <1>6. CASE step = "ws"
    BY <1>1, <1>3, <1>6 DEF DeadlineAt
  <1>7. CASE step = "poll"
    <2>1. PollEnds(s, u) \in Int /\ PollEnds(s, u) <= c + Stall + 1
      BY <1>1, <1>7 DEF PollEnds, Greater, SeenAt
    <2> QED
      BY <1>1, <1>3, <1>7, <2>1 DEF DeadlineAt
  <1> QED
    BY <1>4, <1>5, <1>6, <1>7

\* What the stall clock shows, and what may still be heard: a tick made before the
\* node stopped may be heard late, once.
HeardAt(c, s, late, t, next) ==
  \/ t = s /\ next = late
  \/ t = c /\ late = Stall + 1 /\ next = 0

\* A socket that fails costs its own round.
LEMMA FailedDeadline ==
  ASSUME NEW step \in {"open", "ws"}, NEW due,
         NEW c \in Nat, NEW s \in Nat, NEW u \in Nat, NEW k \in Nat, NEW late \in {0, Stall + 1},
         NEW t \in Nat, NEW next \in {0, Stall + 1},
         s <= c, k < Failures, HeardAt(c, s, late, t, next),
         step = "ws" => c <= s + Stall + 1
  PROVE  /\ k + 1 >= Failures =>
              /\ DeadlineAt("poll", FALSE, c, t, c + PollFor, 0, next) <=
                   DeadlineAt(step, due, c, s, u, k, late)
              /\ SeenAt("poll", FALSE, c, t, c + PollFor, 0)
         /\ DeadlineAt("wait", FALSE, c, t, u, k + 1, next) <=
              DeadlineAt(step, due, c, s, u, k, late)
         /\ SeenAt("wait", FALSE, c, t, u, k + 1)
  <1>1. /\ Stall \in Nat /\ PollFor \in Nat /\ Stall >= 1
        /\ Rounds(k) \in Int /\ Rounds(k + 1) = Rounds(k) - (Stall + 2) /\ Rounds(0) \in Int
        /\ Rounds(k) >= Stall + 2
    BY NodesAssumption, RoundsCount
  <1> HIDE DEF Rounds
  <1>2. late \in Nat /\ next \in Nat /\ t <= c /\ next <= Stall + 1
    BY <1>1 DEF HeardAt
  <1>3. /\ PollEnds(t, c + PollFor) \in Int /\ PollEnds(t, c + PollFor) <= c + Stall + 1
        /\ PollEnds(t, c + PollFor) >= c + 1
        /\ PollEnds(t, c + PollFor) = t + Stall + 1 \/ PollEnds(t, c + PollFor) = c + 1
    BY <1>1, <1>2 DEF PollEnds, Greater
  <1>4. DeadlineAt("poll", FALSE, c, t, c + PollFor, 0, next) = PollEnds(t, c + PollFor) + next
    <2>1. ~(c + PollFor <= PollEnds(t, c + PollFor) + next)
      BY <1>1, <1>2, <1>3, PollAssumption
    <2> QED
      BY <1>2, <1>3, <2>1 DEF DeadlineAt
  <1>5. DeadlineAt("wait", FALSE, c, t, u, k + 1, next) = c + 1 + Rounds(k + 1) + next
    BY DEF DeadlineAt
  <1>6. SeenAt("wait", FALSE, c, t, u, k + 1) /\ SeenAt("poll", FALSE, c, t, c + PollFor, 0)
    BY <1>1, <1>3 DEF SeenAt
  <1>7. CASE step = "open"
    <2>1. DeadlineAt(step, due, c, s, u, k, late) = c + Rounds(k) + late
      BY <1>7 DEF DeadlineAt
    <2>2. /\ PollEnds(t, c + PollFor) + next <= c + Rounds(k) + late
          /\ c + 1 + Rounds(k + 1) + next <= c + Rounds(k) + late
      BY <1>1, <1>2, <1>3 DEF HeardAt
    <2> QED
      BY <1>4, <1>5, <1>6, <2>1, <2>2
  <1>8. CASE step = "ws"
    <2>1. DeadlineAt(step, due, c, s, u, k, late) = s + Rounds(k) + late
      BY <1>8 DEF DeadlineAt
    <2>2. /\ PollEnds(t, c + PollFor) + next <= s + Rounds(k) + late
          /\ c + 1 + Rounds(k + 1) + next <= s + Rounds(k) + late
      BY <1>1, <1>2, <1>3, <1>8 DEF HeardAt
    <2> QED
      BY <1>4, <1>5, <1>6, <2>1, <2>2
  <1> QED
    BY <1>7, <1>8

\* A unit handled in use puts the deadline off for no longer than it was.
LEMMA KeptDeadline ==
  ASSUME NEW step \in {"ws", "poll"}, NEW c \in Nat, NEW s \in Nat, NEW u \in Nat,
         NEW k \in Nat, NEW late \in {0, Stall + 1}, NEW t \in Nat, NEW next \in {0, Stall + 1},
         s <= c, k < Failures, HeardAt(c, s, late, t, next), c - t <= Stall,
         SeenAt(step, TRUE, c, s, u, k)
  PROVE  /\ DeadlineAt(step, FALSE, c, t, u, k, next) <= DeadlineAt(step, TRUE, c, s, u, k, late)
         /\ SeenAt(step, FALSE, c, t, u, k)
  <1>1. /\ Stall \in Nat /\ PollFor \in Nat /\ Stall >= 1
        /\ Rounds(k) \in Int /\ Rounds(0) \in Int /\ Rounds(0) >= Stall + 2
    BY NodesAssumption, RoundsCount
  <1> HIDE DEF Rounds
  <1>2. late \in Nat /\ next \in Nat
    BY <1>1
  <1>3. CASE step = "ws"
    BY <1>1, <1>2, <1>3 DEF DeadlineAt, SeenAt, HeardAt
  <1>4. CASE step = "poll"
    <2>1. /\ PollEnds(s, u) \in Int /\ PollEnds(t, u) \in Int
          /\ PollEnds(t, u) + next <= PollEnds(s, u) + late
          /\ c + 1 <= PollEnds(t, u)
      BY <1>1, <1>2, <1>4 DEF PollEnds, Greater, SeenAt, HeardAt
    <2>2. SeenAt(step, FALSE, c, t, u, k)
      BY <1>4, <2>1 DEF SeenAt
    <2>3. DeadlineAt(step, FALSE, c, t, u, k, next) <= DeadlineAt(step, TRUE, c, s, u, k, late)
      BY <1>1, <1>2, <1>4, <2>1 DEF DeadlineAt
    <2> QED
      BY <2>2, <2>3
  <1> QED
    BY <1>3, <1>4

\* Nor does polling put it off that comes to its end.
LEMMA ReopenDeadline ==
  ASSUME NEW c \in Nat, NEW s \in Nat, NEW u \in Nat, NEW k \in Nat,
         NEW late \in {0, Stall + 1}, k < Failures, c >= u, SeenAt("poll", TRUE, c, s, u, k)
  PROVE  DeadlineAt("open", TRUE, c, s, u, k, late) <= DeadlineAt("poll", TRUE, c, s, u, k, late)
  <1>1. /\ Stall \in Nat /\ PollFor \in Nat /\ Rounds(0) \in Int /\ late \in Nat
    BY NodesAssumption, RoundsCount
  <1> HIDE DEF Rounds
  <1>2. k = 0 /\ c <= PollEnds(s, u) /\ PollEnds(s, u) \in Int
    BY <1>1 DEF SeenAt, PollEnds, Greater
  <1>3. DeadlineAt("open", TRUE, c, s, u, k, late) = c + Rounds(0) + late
    BY <1>2 DEF DeadlineAt
  <1>4. DeadlineAt("poll", TRUE, c, s, u, k, late) = PollEnds(s, u) + late + Rounds(0)
    BY <1>1, <1>2 DEF DeadlineAt
  <1>5. c + Rounds(0) + late <= PollEnds(s, u) + late + Rounds(0)
    BY <1>1, <1>2
  <1> QED
    BY <1>3, <1>4, <1>5

\* Time that passes does not put it off.
LEMMA ElapsedDeadline ==
  ASSUME NEW step \in {"wait", "ws", "poll"}, NEW c \in Nat, NEW s \in Nat, NEW u \in Nat,
         NEW k \in Nat, NEW late \in {0, Stall + 1}, k < Failures,
         SeenAt(step, FALSE, c, s, u, k)
  PROVE  /\ DeadlineAt(step, TRUE, c + 1, s, u, k, late) <=
               DeadlineAt(step, FALSE, c, s, u, k, late)
         /\ SeenAt(step, TRUE, c + 1, s, u, k)
  <1>1. Rounds(k) \in Int /\ Rounds(0) \in Int /\ late \in Int /\ PollFor \in Nat
        /\ Stall \in Nat /\ PollEnds(s, u) \in Int
    BY NodesAssumption, RoundsCount DEF PollEnds, Greater
  <1> HIDE DEF Rounds
  <1>2. DeadlineAt(step, TRUE, c + 1, s, u, k, late) <= DeadlineAt(step, FALSE, c, s, u, k, late)
    BY <1>1 DEF DeadlineAt
  <1>3. SeenAt(step, TRUE, c + 1, s, u, k)
    BY <1>1 DEF SeenAt
  <1> QED
    BY <1>2, <1>3

\* Every deadline is a moment.
LEMMA DeadlineTyped ==
  ASSUME NEW step \in {"open", "wait", "ws", "poll"}, NEW due,
         NEW c \in Nat, NEW s \in Nat, NEW u \in Nat, NEW k \in Nat, NEW late \in {0, Stall + 1}
  PROVE  DeadlineAt(step, due, c, s, u, k, late) \in Int
  <1>1. /\ Stall \in Nat /\ PollFor \in Nat
        /\ Rounds(k) \in Int /\ Rounds(0) \in Int /\ late \in Nat
    BY NodesAssumption, RoundsCount
  <1> HIDE DEF Rounds
  <1>2. PollEnds(s, u) \in Int
    BY <1>1 DEF PollEnds, Greater
  <1> QED
    BY <1>1, <1>2 DEF DeadlineAt

\* The node has been left by then.
LEMMA DeadlineAhead ==
  ASSUME NEW step \in {"open", "wait", "ws", "poll"}, NEW due,
         NEW c \in Nat, NEW s \in Nat, NEW u \in Nat, NEW k \in Nat, NEW late \in {0, Stall + 1},
         k < Failures, SeenAt(step, due, c, s, u, k)
  PROVE  c <= DeadlineAt(step, due, c, s, u, k, late)
  <1>1. /\ Stall \in Nat /\ PollFor \in Nat
        /\ Rounds(k) \in Int /\ Rounds(0) \in Int /\ Rounds(0) >= Stall + 2
        /\ Rounds(k) >= Stall + 2 /\ late \in Nat
    BY NodesAssumption, RoundsCount
  <1> HIDE DEF Rounds
  <1>2. CASE step = "open"
    BY <1>1, <1>2 DEF DeadlineAt
  <1>3. CASE step = "wait"
    BY <1>1, <1>3 DEF DeadlineAt
  <1>4. CASE step = "ws"
    BY <1>1, <1>4 DEF DeadlineAt, SeenAt
  <1>5. CASE step = "poll"
    <2>1. PollEnds(s, u) \in Int /\ c <= PollEnds(s, u)
      BY <1>1, <1>5 DEF PollEnds, Greater, SeenAt
    <2> QED
      BY <1>1, <1>5, <2>1 DEF DeadlineAt
  <1> QED
    BY <1>2, <1>3, <1>4, <1>5

-----------------------------------------------------------------------------
(* The choice of the node: every step keeps the invariant. *)

\* What the deadline is made of is of the type.
LEMMA ClockTypes ==
  ASSUME NodeTypes, NEW h \in Tasks
  PROVE  /\ clock \in Nat /\ Started(h) \in Nat /\ LateTick(h) \in {0, Stall + 1}
         /\ h.pollUntil \in Nat /\ h.failures \in Nat /\ h.due \in BOOLEAN
         /\ Stopped(h) \in Nat
         /\ h.since <= clock /\ h.aliveAt <= clock => Started(h) <= clock
  <1>1. HeadOf(h.node) \in Nat
    BY HeadTyped DEF Tasks
  <1> QED
    BY <1>1 DEF NodeTypes, Started, Stopped, LateTick, Greater, Tasks

\* A tick heard late is heard once.
LEMMA HeardLate ==
  ASSUME NodeTypes, NEW h \in Tasks, NEW g \in Tasks, h.since <= clock,
         g.node = h.node, g.since = h.since, Heard(h, g)
  PROVE  HeardAt(clock, Started(h), LateTick(h), Started(g), LateTick(g))
  <1>1. HeadOf(h.node) \in Nat /\ clock \in Nat
    BY HeadTyped DEF Tasks, NodeTypes
  <1>2. CASE g.nodeHead = h.nodeHead /\ g.aliveAt = h.aliveAt
    <2>1. Started(g) = Started(h)
      BY <1>2 DEF Started
    <2>2. LateTick(g) = LateTick(h)
      BY <1>2 DEF LateTick
    <2> QED
      BY <2>1, <2>2, Zenon DEF HeardAt
  <1>3. CASE HeadOf(h.node) > h.nodeHead /\ g.nodeHead = HeadOf(h.node) /\ g.aliveAt = clock
    <2>1. Started(g) = clock
      BY <1>1, <1>3 DEF Started, Greater, Tasks
    <2>2. LateTick(h) = Stall + 1 /\ LateTick(g) = 0
      BY <1>1, <1>3 DEF LateTick
    <2> QED
      BY <2>1, <2>2 DEF HeardAt
  <1> QED
    BY <1>2, <1>3 DEF Heard

\* A node in use is left, kept as it is, or its socket fails.
LEMMA MovedKeeps ==
  ASSUME NodesInv, UNCHANGED <<clock, health, frozenAt, wellSince, turns>>,
         NEW socket \in BOOLEAN, Moved(task, task', socket),
         \/ task.step = "ws" /\ task.due
         \/ task.step = "poll" /\ task.due /\ ~socket
         \/ task.step = "open" /\ Failed(task, task')
  PROVE  NodesInv'
  <1>1. /\ NodeTypes /\ task \in Tasks /\ task' \in Tasks /\ Heard(task, task')
        /\ task'.netTick = task.netTick \/ task'.netTick = clock
        /\ clock \in Nat
    BY DEF NodesInv, Moved, TaskBounds, NodeTypes
  <1>2. NodeTypes'
    BY DEF NodesInv, NodeTypes
  <1>3. /\ task'.node = task.node /\ task'.picked = task.picked /\ task'.since = task.since
        /\ \A u \in Nodes : \/ task'.downUntil[u] = task.downUntil[u]
                            \/ task'.downUntil[u] = clock + Retry
        /\ task'.failures < Failures
    <2>1. ASSUME Left(task, task')
          PROVE  task'.node = task.node /\ task'.picked = task.picked /\ task'.since = task.since
                 /\ task'.failures = task.failures
      BY <2>1 DEF Left, SameBut, Fields
    <2>2. ASSUME Left(task, task')
          PROVE  \A u \in Nodes : \/ task'.downUntil[u] = task.downUntil[u]
                                  \/ task'.downUntil[u] = clock + Retry
      BY <1>1, <2>2 DEF Left, Tasks
    <2>3. ASSUME Kept(task, task')
          PROVE  task'.node = task.node /\ task'.picked = task.picked /\ task'.since = task.since
                 /\ task'.failures = task.failures /\ task'.downUntil = task.downUntil
      BY <2>3 DEF Kept, SameBut, Fields
    <2>4. ASSUME Failed(task, task')
          PROVE  task'.node = task.node /\ task'.picked = task.picked /\ task'.since = task.since
                 /\ task'.downUntil = task.downUntil
      BY <2>4 DEF Failed, SameBut, Fields
    <2>5. ASSUME Failed(task, task') PROVE task'.failures < Failures
      BY <1>1, <2>5, NodesAssumption DEF Failed, Tasks
    <2>6. task.failures < Failures
      BY DEF NodesInv, TaskBounds
    <2> QED
      BY <2>1, <2>2, <2>3, <2>4, <2>5, <2>6 DEF Moved
  <1>4. HeadOf(task.node) \in Nat /\ HeadOf(task.node) <= clock
    BY <1>1, HeadTyped DEF Tasks
  <1>5. TaskBounds(task)'
    <2>1. task'.nodeHead <= task'.aliveAt /\ task'.aliveAt <= clock
      BY <1>1, <1>4 DEF Heard, NodesInv, TaskBounds
    <2>2. Unread <= task'.netTick /\ task'.netTick <= clock
      BY <1>1 DEF NodesInv, TaskBounds, Unread
    <2>3. \A u \in Nodes : task'.downUntil[u] <= clock + Retry
      BY <1>1, <1>3, NodesAssumption DEF NodesInv, TaskBounds
    <2> QED
      BY <1>1, <1>3, <2>1, <2>2, <2>3 DEF NodesInv, TaskBounds
  <1>6. Left(task, task') \/ Kept(task, task') \/ (socket /\ Failed(task, task'))
    BY DEF Moved
  <1>7. Stopped(task)' = Stopped(task) /\ LateTick(task)' = LateTick(task')
        /\ Started(task)' = Started(task')
    BY <1>3 DEF Stopped, LateTick, Started, HeadOf
  <1>8. HeardAt(clock, Started(task), LateTick(task), Started(task'), LateTick(task'))
    BY <1>1, <1>3, HeardLate DEF NodesInv, TaskBounds
  <1>9. /\ Started(task) \in Nat /\ LateTick(task) \in {0, Stall + 1}
        /\ Started(task') \in Nat /\ LateTick(task') \in {0, Stall + 1}
        /\ task.pollUntil \in Nat /\ task.failures \in Nat /\ task.failures < Failures
        /\ Started(task) <= clock /\ Stopped(task) \in Nat /\ task.due \in BOOLEAN
    BY <1>1, ClockTypes DEF NodesInv, TaskBounds
  <1>10. /\ InUse(task) /\ StallSeen(task)
         /\ Deadline(task) <= Stopped(task) + StaleAtMost
    BY DEF NodesInv, Leaving, InUse
  <1>11. CASE Left(task, task')
    BY <1>2, <1>5, <1>11 DEF Left, NodesInv, BareWaits, Leaving, InUse
  <1>12. CASE Kept(task, task') /\ task.step # "open"
    <2>1. /\ task'.step = task.step /\ task'.pollUntil = task.pollUntil /\ ~task'.due
          /\ task'.failures = task.failures /\ clock - Started(task') <= Stall
      BY <1>12 DEF Kept, SameBut, Fields
    <2>2. task.step \in {"ws", "poll"} /\ task.due = TRUE /\ task'.due = FALSE
      BY <1>1, <1>12, <2>1 DEF Tasks
    <2> DEFINE d == DeadlineAt(task.step, TRUE, clock, Started(task), task.pollUntil,
                               task.failures, LateTick(task))
               n == DeadlineAt(task.step, FALSE, clock, Started(task'), task.pollUntil,
                               task.failures, LateTick(task'))
    <2>3. /\ n <= d
          /\ SeenAt(task.step, FALSE, clock, Started(task'), task.pollUntil, task.failures)
      BY <1>1, <1>8, <1>9, <1>10, <2>1, <2>2, KeptDeadline DEF StallSeen
    <2>4. Deadline(task) = d
      BY <2>2 DEF Deadline
    <2>5. Deadline(task)' = n
      BY <1>7, <2>1, <2>2 DEF Deadline
    <2>6. StallSeen(task)'
      BY <1>7, <2>1, <2>2, <2>3 DEF StallSeen
    <2>7. d \in Int /\ n \in Int
      BY <1>1, <1>9, <2>2, DeadlineTyped
    <2> HIDE DEF d, n
    <2>8. Leaving(task)'
      BY <1>7, <1>9, <1>10, <2>3, <2>4, <2>5, <2>6, <2>7, RoundsCount DEF Leaving
    <2> QED
      BY <1>2, <1>5, <2>1, <2>2, <2>8 DEF NodesInv, BareWaits
  <1>13. CASE Failed(task, task') /\ task.step \in {"ws", "open"}
    <2>1. ~task'.due /\ task'.due = FALSE
      BY <1>1, <1>13 DEF Failed, Tasks
    <2> DEFINE d == DeadlineAt(task.step, task.due, clock, Started(task), task.pollUntil,
                               task.failures, LateTick(task))
               n == DeadlineAt(task'.step, FALSE, clock, Started(task'), task'.pollUntil,
                               task'.failures, LateTick(task'))
    <2>2. task.step = "ws" => clock <= Started(task) + Stall + 1
      BY <1>10 DEF StallSeen, SeenAt
    <2>3. /\ n <= d
          /\ SeenAt(task'.step, FALSE, clock, Started(task'), task'.pollUntil, task'.failures)
          /\ task'.step \in {"poll", "wait"}
      <3> DEFINE t == Started(task')
                 next == LateTick(task')
                 v == task.pollUntil
                 k == task.failures
      <3>1. /\ k + 1 >= Failures =>
                 /\ DeadlineAt("poll", FALSE, clock, t, clock + PollFor, 0, next) <= d
                 /\ SeenAt("poll", FALSE, clock, t, clock + PollFor, 0)
            /\ DeadlineAt("wait", FALSE, clock, t, v, k + 1, next) <= d
            /\ SeenAt("wait", FALSE, clock, t, v, k + 1)
        <4>1. task.step \in {"open", "ws"}
          BY <1>13
        <4> HIDE DEF t, next, k, v
        <4>2. t \in Nat /\ next \in {0, Stall + 1}
          BY <1>9 DEF t, next
        <4>3. HeardAt(clock, Started(task), LateTick(task), t, next)
          BY <1>8 DEF t, next
        <4>4. /\ clock \in Nat /\ Started(task) \in Nat /\ v \in Nat /\ k \in Nat
              /\ LateTick(task) \in {0, Stall + 1} /\ task.due \in BOOLEAN
              /\ Started(task) <= clock /\ k < Failures
          BY <1>1, <1>9 DEF k, v
        <4> DEFINE step == task.step
                   due == task.due
                   s == Started(task)
                   late == LateTick(task)
        <4>5. d = DeadlineAt(step, due, clock, s, v, k, late)
          BY DEF k, v
        <4>6. step = "ws" => clock <= s + Stall + 1
          BY <2>2
        <4> HIDE DEF d, step, due, s, late
        <4>7. /\ step \in {"open", "ws"} /\ due \in BOOLEAN /\ s \in Nat /\ s <= clock
              /\ late \in {0, Stall + 1} /\ HeardAt(clock, s, late, t, next)
          BY <4>1, <4>3, <4>4 DEF step, due, s, late
        <4>8. /\ k + 1 >= Failures =>
                 /\ DeadlineAt("poll", FALSE, clock, t, clock + PollFor, 0, next) <=
                      DeadlineAt(step, due, clock, s, v, k, late)
                 /\ SeenAt("poll", FALSE, clock, t, clock + PollFor, 0)
              /\ DeadlineAt("wait", FALSE, clock, t, v, k + 1, next) <=
                   DeadlineAt(step, due, clock, s, v, k, late)
              /\ SeenAt("wait", FALSE, clock, t, v, k + 1)
          <5>1. /\ step \in {"open", "ws"} /\ clock \in Nat /\ s \in Nat /\ v \in Nat
                /\ k \in Nat /\ late \in {0, Stall + 1} /\ t \in Nat
                /\ next \in {0, Stall + 1} /\ s <= clock /\ k < Failures
                /\ HeardAt(clock, s, late, t, next) /\ (step = "ws" => clock <= s + Stall + 1)
            BY <4>2, <4>4, <4>6, <4>7 DEF s, late
          <5> QED
            BY <5>1, FailedDeadline, ZenonT(60)
        <4> QED
          BY <4>5, <4>8
      <3> HIDE DEF t, next, d
      <3>2. CASE k + 1 >= Failures
        <4>1. task'.step = "poll" /\ task'.failures = 0 /\ task'.pollUntil = clock + PollFor
          BY <1>13, <3>2 DEF Failed
        <4> QED
          BY <3>1, <3>2, <4>1 DEF t, next
      <3>3. CASE ~(k + 1 >= Failures)
        <4>1. task'.step = "wait" /\ task'.failures = k + 1 /\ task'.pollUntil = v
          BY <1>13, <3>3 DEF Failed
        <4> QED
          BY <3>1, <4>1 DEF t, next
      <3> QED
        BY <3>2, <3>3
    <2>4. Deadline(task) = d
      BY DEF Deadline
    <2>5. Deadline(task)' = n
      BY <1>7, <2>1 DEF Deadline
    <2>6. StallSeen(task)'
      BY <1>7, <2>1, <2>3 DEF StallSeen
    <2>7. d \in Int /\ n \in Int
      BY <1>1, <1>9, <1>13, <2>1, <2>3, ClockTypes, DeadlineTyped
    <2> HIDE DEF d, n
    <2>8. Leaving(task)'
      BY <1>7, <1>9, <1>10, <2>3, <2>4, <2>5, <2>6, <2>7, RoundsCount DEF Leaving
    <2> QED
      BY <1>2, <1>5, <2>3, <2>8 DEF NodesInv, BareWaits
  <1> QED
    BY <1>6, <1>11, <1>12, <1>13

\* What the invariant says of the hub's fields.
LEMMA InvFacts ==
  ASSUME NodesInv
  PROVE  /\ NodeTypes /\ task \in Tasks /\ clock \in Nat /\ task.node \in Nodes
         /\ task.step \in TaskSteps /\ task.due \in BOOLEAN
         /\ task.pollUntil \in Nat /\ task.failures \in Nat /\ task.failures < Failures
         /\ Started(task) \in Nat /\ Started(task) <= clock
         /\ LateTick(task) \in {0, Stall + 1} /\ Stopped(task) \in Nat
         /\ HeadOf(task.node) \in Nat /\ HeadOf(task.node) <= clock
         /\ task.picked \in Nat /\ task.picked <= clock
         /\ task.since \in Nat /\ task.since <= clock
         /\ task.aliveAt \in Nat /\ task.aliveAt <= clock
         /\ task.nodeHead \in Nat /\ task.nodeHead <= task.aliveAt
  <1>1. NodeTypes /\ task \in Tasks /\ clock \in Nat /\ TaskBounds(task)
    BY DEF NodesInv, TaskBounds, NodeTypes
  <1>2. /\ task.node \in Nodes /\ task.step \in TaskSteps /\ task.due \in BOOLEAN
        /\ task.picked \in Nat /\ task.since \in Nat /\ task.aliveAt \in Nat
        /\ task.nodeHead \in Nat
    BY <1>1 DEF Tasks
  <1>3. /\ task.picked <= clock /\ task.since <= clock /\ task.aliveAt <= clock
        /\ task.nodeHead <= task.aliveAt /\ task.failures < Failures
    BY <1>1 DEF TaskBounds
  <1>4. HeadOf(task.node) \in Nat /\ HeadOf(task.node) <= clock
    BY <1>1, <1>2, HeadTyped
  <1> QED
    BY <1>1, <1>2, <1>3, <1>4, ClockTypes

\* So is what it is made of after a step.
LEMMA NextTypes ==
  ASSUME NodeTypes', TaskBounds(task)'
  PROVE  /\ clock' \in Nat /\ Started(task)' \in Nat /\ LateTick(task)' \in {0, Stall + 1}
         /\ task'.pollUntil \in Nat /\ task'.failures \in Nat /\ task'.failures < Failures
         /\ Started(task)' <= clock'
  <1>1. /\ task' \in Tasks /\ task'.failures < Failures
        /\ task'.since <= clock' /\ task'.aliveAt <= clock'
    BY DEF TaskBounds
  <1>2. clock' \in Nat /\ HeadOf(task.node)' \in Nat
    BY <1>1 DEF NodeTypes, HeadOf, Tasks
  <1> QED
    BY <1>1, <1>2 DEF Tasks, Started, Greater, LateTick

\* A step that does not put the deadline off keeps the invariant.
LEMMA NotPutOff ==
  ASSUME NodesInv, InUse(task), InUse(task)', NodeTypes', TaskBounds(task)',
         Stopped(task)' = Stopped(task), StallSeen(task)', Deadline(task)' <= Deadline(task)
  PROVE  NodesInv'
  <1>1. Deadline(task) <= Stopped(task) + StaleAtMost
    BY DEF NodesInv, Leaving
  <1>2. Deadline(task) \in Int
    <2>1. task.step \in {"open", "wait", "ws", "poll"}
      BY DEF InUse
    <2> QED
      BY <2>1, InvFacts, DeadlineTyped DEF Deadline
  <1>3. Deadline(task)' \in Int
    <2>1. task'.step \in {"open", "wait", "ws", "poll"}
      BY DEF InUse
    <2> QED
      BY <2>1, NextTypes, DeadlineTyped DEF Deadline
  <1>4. Stopped(task) \in Nat /\ StaleAtMost \in Int
    BY InvFacts, RoundsCount, NodesAssumption
  <1>5. Leaving(task)'
    BY <1>1, <1>2, <1>3, <1>4 DEF Leaving
  <1> QED
    BY <1>5 DEF NodesInv, BareWaits, InUse

\* A node that may stop only now is left in time, whatever the hub is at.
LEMMA StopsNow ==
  ASSUME NodeTypes', TaskBounds(task)', InUse(task)', StallSeen(task)', Stopped(task)' = clock'
  PROVE  Leaving(task)'
  <1>1. task'.step \in {"open", "wait", "ws", "poll"}
    BY DEF InUse
  <1>2. Deadline(task)' <= clock' + StaleAtMost
    BY <1>1, NextTypes, DeadlineNow DEF Deadline, StallSeen
  <1> QED
    BY <1>2 DEF Leaving

-----------------------------------------------------------------------------
LEMMA NodesStart ==
  ASSUME NodesInit
  PROVE  NodesInv
  <1> DEFINE first == [step |-> "pick", due |-> FALSE, node |-> 1,
                       downUntil |-> [u \in Nodes |-> 0], netTick |-> Unread,
                       netAt |-> -NetEvery, picked |-> 0, nodeHead |-> 0, aliveAt |-> 0,
                       since |-> 0, failures |-> 0, pollUntil |-> 0, until |-> 0]
  <1>1. /\ 1 \in Nodes /\ -NetEvery \in Int /\ Unread \in Int /\ 0 \in Nat /\ 0 \in Int
        /\ Failures > 0 /\ Retry \in Nat /\ TimeLimit \in Nat /\ MaxTurns \in Nat
        /\ [u \in Nodes |-> 0] \in [Nodes -> Nat]
    BY NodesAssumption DEF Nodes, Unread
  <1>2. task = first /\ clock = 0 /\ turns = 0
    BY DEF NodesInit
  <1>3. first \in Tasks
    BY <1>1, Zenon DEF Tasks, TaskSteps
  <1>4. /\ first.netTick = Unread /\ first.picked = 0 /\ first.since = 0 /\ first.aliveAt = 0
        /\ first.nodeHead = 0 /\ first.failures = 0 /\ first.step = "pick"
        /\ first.downUntil = [u \in Nodes |-> 0]
    OBVIOUS
  <1>5. NodeTypes
    BY <1>1 DEF NodesInit, NodeTypes
  <1> HIDE DEF first
  <1>6. TaskBounds(task)
    BY <1>1, <1>2, <1>3, <1>4 DEF TaskBounds, Unread
  <1> QED
    BY <1>2, <1>4, <1>5, <1>6 DEF NodesInv, BareWaits, Leaving, InUse

LEMMA PickKeeps ==
  ASSUME NodesInv, Pick
  PROVE  NodesInv'
  <1>1. PICK h \in WithYardstick(task) : task' = Picked(h)
    BY DEF Pick
  <1>2. NodeTypes /\ task \in Tasks /\ clock \in Nat
    BY InvFacts
  <1>3. UNCHANGED <<clock, health, frozenAt, wellSince, turns>>
    BY DEF Pick
  <1>4. /\ h \in Tasks /\ SameBut(h, task, {"netTick", "netAt"})
        /\ h.netTick = task.netTick \/ h.netTick = clock
    BY <1>2, YardstickShape
  <1>5. /\ task' \in Tasks
        /\ \A u \in Nodes : \/ task'.downUntil[u] = h.downUntil[u]
                            \/ task'.downUntil[u] = clock + Retry
    BY <1>1, <1>2, <1>4, PickedShape
  <1>6. \/ /\ task'.step = "open" /\ task'.picked = clock /\ task'.aliveAt = clock
           /\ task'.since = clock /\ task'.nodeHead = HeadOf(task'.node) /\ task'.failures = 0
           /\ task'.netTick = h.netTick
        \/ /\ task'.step = "bare" /\ ~task'.due /\ clock < task'.until
           /\ \A u \in Nodes : task'.until <= task'.downUntil[u]
           /\ SameBut(task', h, {"step", "due", "downUntil", "until"})
    BY <1>1, <1>2, <1>4, PickedShape
  <1>7. NodeTypes'
    BY <1>2, <1>3 DEF NodeTypes
  <1>8. Unread <= h.netTick /\ h.netTick <= clock /\ h.downUntil = task.downUntil
    BY <1>2, <1>4 DEF NodesInv, TaskBounds, Unread, SameBut, Fields
  <1>9. \A u \in Nodes : task'.downUntil[u] <= clock + Retry
    BY <1>2, <1>5, <1>8, NodesAssumption DEF NodesInv, TaskBounds
  <1>10. CASE task'.step = "open"
    <2>1. /\ task'.picked = clock /\ task'.aliveAt = clock /\ task'.since = clock
          /\ task'.nodeHead = HeadOf(task'.node) /\ task'.failures = 0
          /\ task'.netTick = h.netTick
      BY <1>6, <1>10
    <2>2. HeadOf(task'.node) \in Nat /\ HeadOf(task'.node) <= clock
      BY <1>2, <1>5, HeadTyped DEF Tasks
    <2>3. TaskBounds(task)'
      BY <1>2, <1>3, <1>5, <1>8, <1>9, <2>1, <2>2, NodesAssumption DEF TaskBounds
    <2>4. Stopped(task)' = clock'
      BY <1>2, <1>3, <2>1, <2>2 DEF Stopped, Greater, HeadOf
    <2>5. InUse(task)' /\ StallSeen(task)'
      BY <1>10 DEF InUse, StallSeen, SeenAt
    <2>6. Leaving(task)'
      BY <1>7, <2>3, <2>4, <2>5, StopsNow
    <2> QED
      BY <1>7, <1>10, <2>3, <2>6 DEF NodesInv, BareWaits
  <1>11. CASE task'.step = "bare"
    <2>1. /\ ~task'.due /\ clock < task'.until
          /\ \A u \in Nodes : task'.until <= task'.downUntil[u]
          /\ SameBut(task', h, {"step", "due", "downUntil", "until"})
      BY <1>6, <1>11
    <2>2. /\ task'.picked = task.picked /\ task'.aliveAt = task.aliveAt
          /\ task'.since = task.since /\ task'.nodeHead = task.nodeHead
          /\ task'.failures = task.failures /\ task'.netTick = h.netTick
      BY <1>4, <2>1 DEF SameBut, Fields
    <2>3. TaskBounds(task)'
      BY <1>2, <1>3, <1>5, <1>8, <1>9, <2>2 DEF NodesInv, TaskBounds
    <2> QED
      BY <1>3, <1>7, <1>11, <2>1, <2>3 DEF NodesInv, BareWaits, Leaving, InUse
  <1> QED
    BY <1>6, <1>10, <1>11

LEMMA OpenSocketKeeps ==
  ASSUME NodesInv, OpenSocket
  PROVE  NodesInv'
  <1> DEFINE g == [task EXCEPT !.step = "ws", !.since = clock, !.due = FALSE]
  <1>1. task.step = "open" /\ task' \in {g, SocketFailed(task)}
        /\ UNCHANGED <<clock, health, frozenAt, wellSince, turns>>
    BY DEF OpenSocket
  <1>2. NodeTypes /\ task \in Tasks /\ clock \in Nat
    BY InvFacts
  <1>3. CASE task' = SocketFailed(task)
    <2>1. Failed(task, task') /\ Moved(task, task', TRUE)
      BY <1>2, <1>3, FailureMoves
    <2> QED
      BY <1>1, <2>1, MovedKeeps
  <1>4. CASE task' = g
    <2>1. task' \in Tasks
      BY <1>2, <1>4, Zenon DEF Tasks, TaskSteps
    <2>2. /\ task'.step = "ws" /\ task'.since = clock /\ ~task'.due /\ task'.due = FALSE
          /\ SameBut(task', task, {"step", "since", "due"})
      BY <1>2, <1>4, Zenon DEF Tasks, SameBut, Fields
    <2> HIDE DEF g
    <2>3. /\ task'.node = task.node /\ task'.picked = task.picked
          /\ task'.aliveAt = task.aliveAt /\ task'.nodeHead = task.nodeHead
          /\ task'.failures = task.failures /\ task'.pollUntil = task.pollUntil
          /\ task'.netTick = task.netTick /\ task'.downUntil = task.downUntil
      BY <2>2 DEF SameBut, Fields
    <2>4. NodeTypes'
      BY <1>1, <1>2 DEF NodeTypes
    <2>5. TaskBounds(task)'
      BY <1>1, <1>2, <2>1, <2>2, <2>3 DEF NodesInv, TaskBounds
    <2>6. /\ Stopped(task)' = Stopped(task) /\ LateTick(task)' = LateTick(task)
          /\ Started(task)' = clock
      <3>1. Started(task)' = clock
        BY <2>2, <2>3, InvFacts DEF Started, Greater
      <3> QED
        BY <1>1, <2>3, <3>1 DEF Stopped, LateTick, HeadOf
    <2> DEFINE d == clock + Rounds(task.failures) + LateTick(task)
    <2> HIDE DEF Rounds
    <2>7. d \in Int
      BY <1>2, InvFacts, RoundsCount, NodesAssumption
    <2>8. Deadline(task) = d
      BY <1>1 DEF Deadline, DeadlineAt
    <2>9. Deadline(task)' = d
      BY <1>1, <2>2, <2>3, <2>6 DEF Deadline, DeadlineAt
    <2>10. StallSeen(task)'
      BY <1>1, <1>2, <2>2, <2>6, NodesAssumption DEF StallSeen, SeenAt
    <2> HIDE DEF d
    <2>13. Deadline(task)' <= Deadline(task)
      BY <2>7, <2>8, <2>9
    <2>14. InUse(task) /\ InUse(task)'
      BY <1>1, <2>2 DEF InUse
    <2> QED
      BY <2>4, <2>5, <2>6, <2>10, <2>13, <2>14, NotPutOff
  <1> QED
    BY <1>1, <1>3, <1>4

\* What a node answers leaves the hub's fields in their bounds.
LEMMA HearingKeeps ==
  ASSUME NodesInv
  PROVE  LET p == Progressed(task, HeadOf(task.node))
         IN  p \in Tasks /\ p.since <= clock /\ p.aliveAt <= clock
  <1> DEFINE p == Progressed(task, HeadOf(task.node))
  <1>1. task \in Tasks /\ clock \in Nat /\ HeadOf(task.node) \in Nat
    BY InvFacts
  <1>2. /\ p \in Tasks /\ SameBut(p, task, {"nodeHead", "aliveAt"})
        /\ HeadOf(task.node) > task.nodeHead => p.aliveAt = clock
        /\ ~(HeadOf(task.node) > task.nodeHead) => p = task
    BY <1>1, ProgressedShape
  <1> HIDE DEF p
  <1>3. p.since = task.since /\ p.aliveAt \in {task.aliveAt, clock}
    BY <1>2 DEF SameBut, Fields
  <1>4. p.since <= clock /\ p.aliveAt <= clock
    BY <1>1, <1>3, InvFacts
  <1> QED
    BY <1>2, <1>4 DEF p

\* A unit of the socket.
LEMMA StreamMoves ==
  ASSUME NodesInv, Stream
  PROVE  Moved(task, task', TRUE)
  <1> DEFINE p == Progressed(task, HeadOf(task.node))
  <1>1. NodeTypes /\ task \in Tasks /\ clock \in Nat /\ HeadOf(task.node) \in Nat
    BY InvFacts
  <1>2. p \in Tasks /\ p.since <= clock /\ p.aliveAt <= clock
    BY HearingKeeps
  <1>3. ASSUME task' \in Checked(p, TRUE) PROVE Moved(task, task', TRUE)
    <2>1. Moved(p, task', TRUE)
      BY <1>1, <1>2, <1>3, CheckMoves
    <2> QED
      BY <1>1, <2>1, HeardFirst, InvFacts
  <1>4. ASSUME task' \in Checked(task, TRUE) PROVE Moved(task, task', TRUE)
    BY <1>1, <1>4, CheckMoves, InvFacts
  <1>5. ASSUME task' = SocketFailed(task) PROVE Moved(task, task', TRUE)
    BY <1>1, <1>5, FailureMoves
  <1> QED
    BY <1>3, <1>4, <1>5 DEF Stream

LEMMA StreamKeeps ==
  ASSUME NodesInv, Stream
  PROVE  NodesInv'
  <1>1. task.step = "ws" /\ task.due /\ UNCHANGED <<clock, health, frozenAt, wellSince, turns>>
    BY DEF Stream
  <1> QED
    BY <1>1, StreamMoves, MovedKeeps

\* Polling comes to its end: the socket is tried again.
LEMMA ReopenKeeps ==
  ASSUME NodesInv, task.step = "poll", task.due, clock >= task.pollUntil,
         task' = [task EXCEPT !.step = "open"],
         UNCHANGED <<clock, health, frozenAt, wellSince, turns>>
  PROVE  NodesInv'
  <1>1. NodeTypes /\ task \in Tasks /\ clock \in Nat /\ task.due = TRUE
    BY InvFacts
  <1>2. task' \in Tasks
    BY <1>1, Zenon DEF Tasks, TaskSteps
  <1>3. task'.step = "open" /\ SameBut(task', task, {"step"})
    BY <1>1, Zenon DEF Tasks, SameBut, Fields
  <1>4. /\ task'.node = task.node /\ task'.picked = task.picked /\ task'.due = TRUE
        /\ task'.aliveAt = task.aliveAt /\ task'.nodeHead = task.nodeHead
        /\ task'.failures = task.failures /\ task'.pollUntil = task.pollUntil
        /\ task'.netTick = task.netTick /\ task'.downUntil = task.downUntil
        /\ task'.since = task.since
    BY <1>1, <1>3 DEF SameBut, Fields
  <1>5. NodeTypes'
    BY <1>1 DEF NodeTypes
  <1>6. TaskBounds(task)'
    BY <1>1, <1>2, <1>4 DEF NodesInv, TaskBounds
  <1>7. /\ Stopped(task)' = Stopped(task) /\ LateTick(task)' = LateTick(task)
        /\ Started(task)' = Started(task)
    BY <1>4 DEF Stopped, LateTick, Started, HeadOf
  <1> DEFINE s == Started(task)
             u == task.pollUntil
             k == task.failures
             late == LateTick(task)
  <1>8. /\ s \in Nat /\ u \in Nat /\ k \in Nat /\ late \in {0, Stall + 1} /\ k < Failures
        /\ clock >= u
    BY InvFacts
  <1>9. SeenAt("poll", TRUE, clock, s, u, k)
    BY <1>1 DEF NodesInv, Leaving, InUse, StallSeen
  <1> HIDE DEF s, u, k, late
  <1>10. DeadlineAt("open", TRUE, clock, s, u, k, late) <=
           DeadlineAt("poll", TRUE, clock, s, u, k, late)
    BY <1>1, <1>8, <1>9, ReopenDeadline
  <1>11. Deadline(task) = DeadlineAt("poll", TRUE, clock, s, u, k, late)
    BY <1>1 DEF Deadline, s, u, k, late
  <1>12. Deadline(task)' = DeadlineAt("open", TRUE, clock, s, u, k, late)
    BY <1>3, <1>4, <1>7 DEF Deadline, s, u, k, late
  <1>13. StallSeen(task)'
    BY <1>3 DEF StallSeen, SeenAt
  <1>14. InUse(task) /\ InUse(task)'
    BY <1>3 DEF InUse
  <1> QED
    BY <1>5, <1>6, <1>7, <1>10, <1>11, <1>12, <1>13, <1>14, NotPutOff

\* A unit of polling.
LEMMA PollMoves ==
  ASSUME NodesInv, PollOnce
  PROVE  \/ clock >= task.pollUntil /\ task' = [task EXCEPT !.step = "open"]
         \/ Moved(task, task', FALSE)
  <1> DEFINE p == Progressed(task, HeadOf(task.node))
  <1>1. NodeTypes /\ task \in Tasks /\ clock \in Nat /\ HeadOf(task.node) \in Nat
    BY InvFacts
  <1>2. p \in Tasks /\ p.since <= clock /\ p.aliveAt <= clock
    BY HearingKeeps
  <1>3. ASSUME task' \in Checked(p, FALSE) PROVE Moved(task, task', FALSE)
    <2>1. Moved(p, task', FALSE)
      BY <1>1, <1>2, <1>3, CheckMoves
    <2> QED
      BY <1>1, <2>1, HeardFirst, InvFacts
  <1>4. ASSUME task' \in Checked(task, FALSE) PROVE Moved(task, task', FALSE)
    BY <1>1, <1>4, CheckMoves, InvFacts
  <1> QED
    BY <1>3, <1>4 DEF PollOnce

LEMMA PollOnceKeeps ==
  ASSUME NodesInv, PollOnce
  PROVE  NodesInv'
  <1>1. task.step = "poll" /\ task.due /\ UNCHANGED <<clock, health, frozenAt, wellSince, turns>>
    BY DEF PollOnce
  <1>2. ASSUME Moved(task, task', FALSE) PROVE NodesInv'
    BY <1>1, <1>2, MovedKeeps
  <1> QED
    BY <1>1, <1>2, PollMoves, ReopenKeeps

LEMMA ResumeKeeps ==
  ASSUME NodesInv, Resume
  PROVE  NodesInv'
  <1>1. NodeTypes /\ task \in Tasks /\ clock \in Nat /\ task.due = TRUE
    BY InvFacts DEF Resume
  <1>2. UNCHANGED <<clock, health, frozenAt, wellSince, turns>>
    BY DEF Resume
  <1>3. NodeTypes'
    BY <1>1, <1>2 DEF NodeTypes
  <1>4. ASSUME NEW step \in TaskSteps, task' = [task EXCEPT !.step = step]
        PROVE  /\ TaskBounds(task)' /\ task'.step = step /\ task'.due = TRUE
               /\ Stopped(task)' = Stopped(task) /\ LateTick(task)' = LateTick(task)
               /\ task'.failures = task.failures
    <2>1. task' \in Tasks
      BY <1>1, <1>4, Zenon DEF Tasks
    <2>2. task'.step = step /\ SameBut(task', task, {"step"})
      BY <1>1, <1>4, Zenon DEF Tasks, SameBut, Fields
    <2>3. /\ task'.node = task.node /\ task'.picked = task.picked /\ task'.due = TRUE
          /\ task'.aliveAt = task.aliveAt /\ task'.nodeHead = task.nodeHead
          /\ task'.failures = task.failures /\ task'.netTick = task.netTick
          /\ task'.downUntil = task.downUntil /\ task'.since = task.since
      BY <1>1, <2>2 DEF SameBut, Fields
    <2>4. TaskBounds(task)'
      BY <1>2, <2>1, <2>3 DEF NodesInv, TaskBounds
    <2> QED
      BY <1>2, <2>2, <2>3, <2>4 DEF Stopped, LateTick, HeadOf
  <1>5. CASE task.step = "wait" /\ task' = [task EXCEPT !.step = "open"]
    <2>1. "open" \in TaskSteps
      BY DEF TaskSteps
    <2>2. /\ TaskBounds(task)' /\ task'.step = "open" /\ task'.due = TRUE
          /\ Stopped(task)' = Stopped(task) /\ LateTick(task)' = LateTick(task)
          /\ task'.failures = task.failures
      BY <1>4, <1>5, <2>1
    <2> DEFINE d == clock + Rounds(task.failures) + LateTick(task)
    <2> HIDE DEF Rounds
    <2>3. d \in Int
      BY <1>1, InvFacts, RoundsCount, NodesAssumption
    <2>4. Deadline(task) = d
      BY <1>1, <1>5, <2>3, InvFacts, RoundsCount DEF Deadline, DeadlineAt
    <2>5. Deadline(task)' = d
      BY <1>2, <2>2 DEF Deadline, DeadlineAt
    <2> HIDE DEF d
    <2>6. Deadline(task)' <= Deadline(task)
      BY <2>3, <2>4, <2>5
    <2>7. InUse(task) /\ InUse(task)' /\ StallSeen(task)'
      BY <1>5, <2>2 DEF InUse, StallSeen, SeenAt
    <2> QED
      BY <1>3, <2>2, <2>6, <2>7, NotPutOff
  <1>6. CASE task.step = "bare" /\ task' = [task EXCEPT !.step = "pick"]
    <2>1. "pick" \in TaskSteps
      BY DEF TaskSteps
    <2>2. TaskBounds(task)' /\ task'.step = "pick"
      BY <1>4, <1>6, <2>1
    <2> QED
      BY <1>3, <2>2 DEF NodesInv, BareWaits, Leaving, InUse
  <1>7. CASE task.step = "bare" /\ clock < task.until /\ task' = [task EXCEPT !.due = FALSE]
    <2>1. task' \in Tasks
      BY <1>1, <1>7, Zenon DEF Tasks
    <2>2. SameBut(task', task, {"due"})
      BY <1>1, <1>7, Zenon DEF Tasks, SameBut, Fields
    <2>3. /\ task'.step = "bare" /\ task'.picked = task.picked
          /\ task'.aliveAt = task.aliveAt /\ task'.nodeHead = task.nodeHead
          /\ task'.failures = task.failures /\ task'.netTick = task.netTick
          /\ task'.downUntil = task.downUntil /\ task'.since = task.since
          /\ task'.until = task.until
      BY <1>7, <2>2 DEF SameBut, Fields
    <2>4. TaskBounds(task)'
      BY <1>2, <2>1, <2>3 DEF NodesInv, TaskBounds
    <2> QED
      BY <1>2, <1>3, <1>7, <2>3, <2>4 DEF NodesInv, BareWaits, Leaving, InUse
  <1>8. clock >= task.until \/ clock < task.until
    BY <1>1 DEF Tasks
  <1> QED
    BY <1>5, <1>6, <1>7, <1>8 DEF Resume

LEMMA ElapseKeeps ==
  ASSUME NodesInv, Elapse
  PROVE  NodesInv'
  <1>1. NodeTypes /\ task \in Tasks /\ clock \in Nat /\ task.due = FALSE
    BY InvFacts DEF Elapse
  <1>2. /\ UNCHANGED <<health, frozenAt, wellSince, turns>> /\ clock < TimeLimit
        /\ clock' = clock + 1 /\ task' = [task EXCEPT !.due = TRUE]
        /\ task.step \in {"ws", "poll", "wait", "bare"}
    BY DEF Elapse
  <1>3. NodeTypes'
    BY <1>1, <1>2, NodesAssumption DEF NodeTypes
  <1>4. task' \in Tasks
    BY <1>1, <1>2, Zenon DEF Tasks
  <1>5. SameBut(task', task, {"due"}) /\ task'.due = TRUE
    BY <1>1, <1>2, Zenon DEF Tasks, SameBut, Fields
  <1>6. /\ task'.step = task.step /\ task'.picked = task.picked /\ task'.node = task.node
        /\ task'.aliveAt = task.aliveAt /\ task'.nodeHead = task.nodeHead
        /\ task'.failures = task.failures /\ task'.netTick = task.netTick
        /\ task'.downUntil = task.downUntil /\ task'.since = task.since
        /\ task'.until = task.until /\ task'.pollUntil = task.pollUntil
    BY <1>5 DEF SameBut, Fields
  <1>7. TaskBounds(task)'
    <2>1. Unread <= task.netTick /\ task.netTick <= clock + 1 /\ task.picked <= clock + 1
      BY <1>1, InvFacts DEF NodesInv, TaskBounds, Unread, Tasks
    <2>2. \A u \in Nodes : task.downUntil[u] <= clock + 1 + Retry
      BY <1>1, NodesAssumption DEF NodesInv, TaskBounds, Tasks
    <2>3. task.since <= clock + 1 /\ task.aliveAt <= clock + 1
      BY <1>1, InvFacts
    <2> QED
      BY <1>2, <1>4, <1>6, <2>1, <2>2, <2>3, InvFacts DEF TaskBounds
  <1>8. BareWaits(task)'
    BY <1>5, <1>6 DEF NodesInv, BareWaits
  <1>9. CASE ~InUse(task)
    BY <1>3, <1>6, <1>7, <1>8, <1>9 DEF NodesInv, Leaving, InUse
  <1>10. CASE InUse(task)
    <2> DEFINE s == Started(task)
               u == task.pollUntil
               k == task.failures
               late == LateTick(task)
    <2>1. task.step \in {"wait", "ws", "poll"}
      BY <1>2, <1>10 DEF InUse
    <2>2. s \in Nat /\ u \in Nat /\ k \in Nat /\ late \in {0, Stall + 1} /\ k < Failures
      BY InvFacts
    <2>3. SeenAt(task.step, FALSE, clock, s, u, k)
      BY <1>1, <1>10 DEF NodesInv, Leaving, StallSeen
    <2>4. Started(task)' = s
      BY <1>6 DEF Started
    <2>5. InUse(task)'
      BY <1>6, <1>10 DEF InUse
    <2> HIDE DEF s, u, k, late
    <2>6. /\ DeadlineAt(task.step, TRUE, clock + 1, s, u, k, late) <=
                DeadlineAt(task.step, FALSE, clock, s, u, k, late)
          /\ SeenAt(task.step, TRUE, clock + 1, s, u, k)
      BY <1>1, <2>1, <2>2, <2>3, ElapsedDeadline
    <2>7. StallSeen(task)'
      BY <1>2, <1>5, <1>6, <2>4, <2>6 DEF StallSeen, u, k
    <2>8. CASE health[task.node] = "well"
      <3>1. Stopped(task)' = clock'
        BY <1>1, <1>2, <1>6, <2>8, InvFacts DEF Stopped, HeadOf, Greater
      <3> QED
        BY <1>3, <1>7, <1>8, <2>5, <2>7, <3>1, StopsNow DEF NodesInv
    <2>9. CASE health[task.node] # "well"
      <3>1. HeadOf(task.node)' = HeadOf(task.node)
        BY <1>2, <1>6, <2>9 DEF HeadOf
      <3>2. Stopped(task)' = Stopped(task)
        BY <1>6, <3>1 DEF Stopped
      <3>3. LateTick(task)' = late
        BY <1>6, <3>1 DEF LateTick, late
      <3> DEFINE d == DeadlineAt(task.step, FALSE, clock, s, u, k, late)
      <3>5. Deadline(task) = d
        BY <1>1 DEF Deadline, s, u, k, late
      <3>6. Deadline(task)' = DeadlineAt(task.step, TRUE, clock + 1, s, u, k, late)
        BY <1>2, <1>5, <1>6, <2>4, <3>3 DEF Deadline, u, k
      <3>7. Deadline(task)' <= Deadline(task)
        BY <2>6, <3>5, <3>6
      <3> QED
        BY <1>3, <1>7, <1>10, <2>5, <2>7, <3>2, <3>7, NotPutOff
    <2> QED
      BY <2>8, <2>9
  <1> QED
    BY <1>9, <1>10

\* A node that freezes, dies or recovers.
LEMMA TurnKeeps ==
  ASSUME NodesInv, NEW u \in Nodes, Turn(u)
  PROVE  NodesInv'
  <1>1. NodeTypes /\ task \in Tasks /\ clock \in Nat /\ task.node \in Nodes
    BY InvFacts
  <1>2. PICK s \in {"well", "frozen", "dead"} :
          /\ health' = [health EXCEPT ![u] = s]
          /\ frozenAt' = [frozenAt EXCEPT ![u] = HeadOf(u)]
          /\ wellSince' = [wellSince EXCEPT ![u] = IF s = "well" THEN clock ELSE @]
    BY DEF Turn
  <1>3. UNCHANGED <<clock, task>> /\ turns < MaxTurns /\ turns' = turns + 1
    BY DEF Turn
  <1>4. HeadOf(u) \in Nat /\ HeadOf(u) <= clock
    BY <1>1, HeadTyped
  <1>5. NodeTypes'
    BY <1>1, <1>2, <1>3, <1>4, NodesAssumption DEF NodeTypes
  <1>6. HeadOf(task.node)' \in {HeadOf(task.node), clock}
    BY <1>1, <1>2, <1>3 DEF NodeTypes, HeadOf
  <1>7. TaskBounds(task)' /\ BareWaits(task)'
    BY <1>3 DEF NodesInv, TaskBounds, BareWaits
  <1>8. CASE ~InUse(task)
    BY <1>3, <1>5, <1>7, <1>8 DEF NodesInv, Leaving, InUse
  <1>9. CASE InUse(task)
    <2>1. InUse(task)' /\ StallSeen(task)'
      BY <1>3, <1>9 DEF NodesInv, Leaving, InUse, StallSeen, Started
    <2>2. CASE HeadOf(task.node)' = clock
      <3>1. Stopped(task)' = clock'
        BY <1>1, <1>3, <2>2, InvFacts DEF Stopped, Greater
      <3> QED
        BY <1>5, <1>7, <2>1, <3>1, StopsNow DEF NodesInv
    <2>3. CASE HeadOf(task.node)' = HeadOf(task.node)
      <3>1. /\ Stopped(task)' = Stopped(task) /\ LateTick(task)' = LateTick(task)
            /\ Started(task)' = Started(task)
        BY <1>3, <2>3 DEF Stopped, LateTick, Started
      <3>2. Deadline(task)' = Deadline(task)
        BY <1>3, <3>1 DEF Deadline
      <3>3. Leaving(task)'
        BY <2>1, <1>9, <3>1, <3>2 DEF NodesInv, Leaving
      <3> QED
        BY <1>5, <1>7, <3>3 DEF NodesInv
    <2> QED
      BY <1>6, <2>2, <2>3
  <1> QED
    BY <1>8, <1>9

LEMMA NodesStep ==
  ASSUME NodesInv, [NodesNext]_nodeVars
  PROVE  NodesInv'
  <1>1. CASE UNCHANGED nodeVars
    BY <1>1 DEF nodeVars, NodesInv, NodeTypes, TaskBounds, BareWaits, Leaving, InUse,
       StallSeen, Deadline, Stopped, Started, LateTick, HeadOf
  <1> QED
    BY <1>1, PickKeeps, OpenSocketKeeps, StreamKeeps, PollOnceKeeps, ResumeKeeps,
       ElapseKeeps, TurnKeeps DEF NodesNext

-----------------------------------------------------------------------------
(* The choice of the node: what the invariant says. *)

\* The hub's fields keep their types: no head is ahead of the network, no wait
\* longer than NODE_RETRY_S, no date in the future (TickHub's fields, tickstream.py).
THEOREM NodesTypeCorrect == NodesSpec => []NodesTypeOK
  <1>1. NodesInit => NodesInv
    BY NodesStart
  <1>2. NodesInv /\ [NodesNext]_nodeVars => NodesInv'
    BY NodesStep
  <1>3. NodesInv => NodesTypeOK
    <2> SUFFICES ASSUME NodesInv PROVE NodesTypeOK
      OBVIOUS
    <2>1. NodeTypes /\ TaskBounds(task) /\ clock \in Nat
      BY InvFacts DEF NodesInv
    <2>2. /\ task.downUntil \in [Nodes -> Nat] /\ task.failures \in Nat
          /\ task.netTick \in Int /\ Failures \in Nat /\ Retry \in Nat
          /\ TimeLimit \in Nat /\ MaxTurns \in Nat
      BY <2>1, NodesAssumption DEF TaskBounds, Tasks
    <2>3. clock \in 0..TimeLimit /\ turns \in 0..MaxTurns
      BY <2>1, <2>2 DEF NodeTypes
    <2>4. frozenAt \in [Nodes -> 0..clock] /\ wellSince \in [Nodes -> 0..clock]
      BY <2>1 DEF NodeTypes
    <2>5. task.downUntil \in [Nodes -> 0..(clock + Retry)]
      BY <2>1, <2>2 DEF TaskBounds
    <2>6. task.netTick \in Unread..clock /\ task.failures \in 0..(Failures - 1)
      BY <2>1, <2>2 DEF TaskBounds, Unread
    <2>7. {task.picked, task.nodeHead, task.aliveAt, task.since} \subseteq 0..clock
      BY <2>1, InvFacts
    <2>8. /\ task.step \in {"pick", "open", "wait", "ws", "poll", "bare"}
          /\ task.node \in Nodes
      BY InvFacts DEF TaskSteps
    <2> QED
      BY <2>1, <2>3, <2>4, <2>5, <2>6, <2>7, <2>8 DEF NodesTypeOK, NodeTypes
  <1> QED
    BY <1>1, <1>2, <1>3, PTL DEF NodesSpec

\* However its socket fails, reconnects or is polled in between, a node that
\* stopped is left within a round of the stall clock for each socket that may
\* fail, one of polling and one for a last tick that is heard late
\* (tickstream.py _check_health, _run_ws, _run).
THEOREM StoppedNodesAreLeft == NodesSpec => []StoppedNodeIsLeft
  <1>1. NodesInit => NodesInv
    BY NodesStart
  <1>2. NodesInv /\ [NodesNext]_nodeVars => NodesInv'
    BY NodesStep
  <1>3. NodesInv => StoppedNodeIsLeft
    <2> SUFFICES ASSUME NodesInv, OnNode
                 PROVE  clock - Greater(HeadOf(task.node), task.picked) <= StaleAtMost
      BY DEF StoppedNodeIsLeft
    <2>1. task.step \in {"open", "wait", "ws", "poll"} /\ InUse(task)
      BY DEF OnNode, InUse
    <2>2. StallSeen(task) /\ Deadline(task) <= Stopped(task) + StaleAtMost
      BY <2>1 DEF NodesInv, Leaving
    <2>3. clock <= Deadline(task) /\ Deadline(task) \in Int
      BY <2>1, <2>2, InvFacts, DeadlineAhead, DeadlineTyped DEF Deadline, StallSeen
    <2>4. clock \in Nat /\ Stopped(task) \in Nat /\ StaleAtMost \in Int
      BY InvFacts, RoundsCount, NodesAssumption
    <2>5. clock - Stopped(task) <= StaleAtMost
      BY <2>2, <2>3, <2>4
    <2> QED
      BY <2>5 DEF Stopped
  <1> QED
    BY <1>1, <1>2, <1>3, PTL DEF NodesSpec

\* The bare feed ends no later than the first wait of a node that is well by then
\* (tickstream.py _run: the bare feed runs until the earliest mark is over).
THEOREM BareFeedsEnd == NodesSpec => []BareFeedEnds
  <1>1. NodesInit => NodesInv
    BY NodesStart
  <1>2. NodesInv /\ [NodesNext]_nodeVars => NodesInv'
    BY NodesStep
  <1>3. NodesInv => BareFeedEnds
    <2> SUFFICES ASSUME NodesInv, task.step = "bare", ~task.due, NEW u \in Nodes
                 PROVE  clock - Greater(wellSince[u], task.downUntil[u] - Retry) <= Retry
      BY DEF BareFeedEnds
    <2>1. clock < task.until /\ task.until <= task.downUntil[u]
      BY DEF NodesInv, BareWaits
    <2>2. clock \in Nat /\ task.until \in Nat /\ task.downUntil[u] \in Nat /\ Retry \in Nat
          /\ wellSince[u] \in Nat
      BY InvFacts, NodesAssumption DEF NodeTypes, Tasks
    <2> QED
      BY <2>1, <2>2 DEF Greater
  <1> QED
    BY <1>1, <1>2, <1>3, PTL DEF NodesSpec

\* The reason a node is left is never one a well node has, but that its last tick
\* was heard longer ago than the lag allows.
LEMMA WellIsKept ==
  ASSUME NodesInv, NEW socket \in BOOLEAN, Moved(task, task', socket), NEW u \in Nodes,
         task'.downUntil[u] # task.downUntil[u], health[u] = "well"
  PROVE  u = task.node /\ clock - task.nodeHead > Lag
  <1>1. NodeTypes /\ task \in Tasks /\ clock \in Nat /\ Lag \in Nat /\ Stall \in Nat
    BY InvFacts, NodesAssumption
  <1>2. Left(task, task')
    BY DEF Moved, Kept, Failed, SameBut, Fields
  <1>3. u = task.node
    BY <1>1, <1>2 DEF Left, Tasks
  <1>4. HeadOf(u) = clock
    BY <1>1, HeadTyped
  <1>5. ~(clock - Started(task) > Stall /\ (health[u] = "dead" \/ HeadOf(u) <= task.nodeHead))
    <2>1. task.nodeHead <= Started(task)
      BY InvFacts DEF Started, Greater
    <2> QED
      BY <1>1, <1>4, <2>1, InvFacts
  <1>6. Behind(task', task'.nodeHead)
    BY <1>2, <1>3, <1>5 DEF Left
  <1>7. task'.netTick <= clock /\ task'.netTick \in Int /\ task'.nodeHead \in Nat
        /\ task'.nodeHead >= task.nodeHead
    <2>1. task'.netTick <= clock
      BY <1>1 DEF NodesInv, TaskBounds, Moved
    <2>2. task'.nodeHead >= task.nodeHead
      BY <1>1, <1>3, <1>4, InvFacts DEF Moved, Heard
    <2> QED
      BY <2>1, <2>2 DEF Moved, Tasks
  <1> QED
    BY <1>1, <1>3, <1>6, <1>7, InvFacts DEF Behind

\* No step throws out a well node but the one in use, and that one only when the
\* last tick heard of it is further behind the network than the lag that is
\* allowed: not for an old yardstick, another node's head or a silent socket
\* (tickstream.py _pick_node, _network_tick, _check_health).
THEOREM WellNodesAreKept == NodesSpec => WellNodeIsKept
  <1> DEFINE Keeps == \A u \in Nodes :
               task'.downUntil[u] # task.downUntil[u] /\ health[u] = "well"
                 => u = task.node /\ clock - task.nodeHead > Lag
  <1>1. NodesInit => NodesInv
    BY NodesStart
  <1>2. NodesInv /\ [NodesNext]_nodeVars => NodesInv'
    BY NodesStep
  <1>3. NodesInv /\ [NodesNext]_nodeVars => [Keeps]_nodeVars
    <2> SUFFICES ASSUME NodesInv, NodesNext PROVE Keeps
      BY DEF nodeVars
    <2>1. NodeTypes /\ task \in Tasks /\ clock \in Nat /\ Lag \in Nat
          /\ HeadOf(task.node) \in Nat
      BY InvFacts, NodesAssumption
    <2>2. ASSUME NEW socket \in BOOLEAN, Moved(task, task', socket) PROVE Keeps
      BY <2>2, WellIsKept
    <2>3. ASSUME task'.downUntil = task.downUntil PROVE Keeps
      BY <2>3
    <2>4. CASE Pick
      <3>1. PICK h \in WithYardstick(task) : task' = Picked(h)
        BY <2>4 DEF Pick
      <3>2. /\ h \in Tasks /\ SameBut(h, task, {"netTick", "netAt"})
            /\ h.netTick = task.netTick \/ h.netTick = clock
        BY <2>1, YardstickShape
      <3>3. \A u \in Nodes : task'.downUntil[u] = h.downUntil[u] \/ Unfit(h, u)
        BY <2>1, <3>1, <3>2, PickedShape
      <3>4. h.downUntil = task.downUntil /\ h.netTick <= clock /\ h.netTick \in Int
        BY <2>1, <3>2 DEF SameBut, Fields, NodesInv, TaskBounds, Tasks
      <3>5. ASSUME NEW u \in Nodes, health[u] = "well" PROVE ~Unfit(h, u)
        <4>1. HeadOf(u) = clock
          BY <2>1, <3>5, HeadTyped
        <4> QED
          BY <2>1, <3>4, <3>5, <4>1 DEF Unfit, Behind
      <3> QED
        BY <3>3, <3>4, <3>5
    <2>5. CASE OpenSocket
      <3>1. CASE task' = SocketFailed(task)
        <4>1. Moved(task, task', TRUE)
          BY <2>1, <3>1, FailureMoves
        <4> QED
          BY <2>2, <4>1
      <3>2. CASE task' = [task EXCEPT !.step = "ws", !.since = clock, !.due = FALSE]
        <4>1. task'.downUntil = task.downUntil
          BY <2>1, <3>2, Zenon DEF Tasks
        <4> QED
          BY <2>3, <4>1
      <3> QED
        BY <2>5, <3>1, <3>2 DEF OpenSocket
    <2>6. CASE Stream
      <3>1. Moved(task, task', TRUE)
        BY <2>6, StreamMoves
      <3> QED
        BY <2>2, <3>1
    <2>7. CASE PollOnce
      <3>1. CASE task' = [task EXCEPT !.step = "open"]
        <4>1. task'.downUntil = task.downUntil
          BY <2>1, <3>1, Zenon DEF Tasks
        <4> QED
          BY <2>3, <4>1
      <3>2. CASE Moved(task, task', FALSE)
        BY <2>2, <3>2
      <3> QED
        BY <2>7, <3>1, <3>2, PollMoves
    <2>8. CASE Resume
      <3>1. task' \in {[task EXCEPT !.step = "open"], [task EXCEPT !.step = "pick"],
                       [task EXCEPT !.due = FALSE]}
        BY <2>8 DEF Resume
      <3>2. task'.downUntil = task.downUntil
        BY <2>1, <3>1, Zenon DEF Tasks
      <3> QED
        BY <2>3, <3>2
    <2>9. CASE Elapse
      <3>1. task'.downUntil = task.downUntil
        <4>1. task' = [task EXCEPT !.due = TRUE]
          BY <2>9 DEF Elapse
        <4> QED
          BY <2>1, <4>1, Zenon DEF Tasks
      <3> QED
        BY <2>3, <3>1
    <2>10. CASE \E u \in Nodes : Turn(u)
      BY <2>3, <2>10 DEF Turn
    <2> QED
      BY <2>4, <2>5, <2>6, <2>7, <2>8, <2>9, <2>10 DEF NodesNext
  <1>4. WellNodeIsKept <=> [][Keeps]_nodeVars
    BY DEF WellNodeIsKept
  <1> QED
    BY <1>1, <1>2, <1>3, <1>4, PTL DEF NodesSpec

-----------------------------------------------------------------------------
(* The ring: what its helpers do to a sequence of entries. *)

Ascending(s) == \A i, j \in 1..Len(s) : i < j => s[i].tick < s[j].tick

\* No two entries share a tick.
Apart(s) == \A i, j \in 1..Len(s) : i # j => s[i].tick # s[j].tick

LEMMA EntryFields ==
  ASSUME NEW s \in Seq(Entry), NEW i \in 1..Len(s)
  PROVE  s[i] \in Entry /\ s[i].tick \in Nat /\ s[i].tick \in Ticks
  <1>1. s[i] \in Entry
    OBVIOUS
  <1> QED
    BY <1>1, SizeAssumption DEF Entry, Ticks

LEMMA DomainOf ==
  ASSUME NEW s \in Seq(Entry)
  PROVE  DOMAIN s = 1..Len(s) /\ Len(s) \in Nat
  OBVIOUS

\* A new entry goes to the end; what makes room for it is the first one.
LEMMA PushShape ==
  ASSUME NEW s \in Seq(Entry), Len(s) <= Size, NEW e \in Entry
  PROVE  /\ Push(s, e) \in Seq(Entry) /\ Len(Push(s, e)) \in 1..Size
         /\ Push(s, e)[Len(Push(s, e))] = e
         /\ Len(s) < Size => /\ Len(Push(s, e)) = Len(s) + 1
                             /\ \A i \in 1..Len(s) : Push(s, e)[i] = s[i]
         /\ Len(s) = Size => /\ Len(Push(s, e)) = Size
                             /\ \A i \in 1..(Size - 1) : Push(s, e)[i] = s[i + 1]
  <1>1. Size \in Nat \ {0} /\ Len(s) \in Nat
    BY SizeAssumption
  <1>2. CASE Len(s) < Size
    <2>1. Push(s, e) = Append(s, e)
      BY <1>1, <1>2 DEF Push
    <2> QED
      BY <1>1, <1>2, <2>1
  <1>3. CASE Len(s) = Size
    <2>1. Push(s, e) = Append(Tail(s), e)
      BY <1>3 DEF Push
    <2>2. s # <<>>
      BY <1>1, <1>3
    <2>3. Tail(s) \in Seq(Entry) /\ Len(Tail(s)) = Size - 1
          /\ \A i \in 1..(Size - 1) : Tail(s)[i] = s[i + 1]
      BY <1>1, <1>3, <2>2
    <2> QED
      BY <1>1, <1>3, <2>1, <2>3
  <1> QED
    BY <1>1, <1>2, <1>3

\* The entry of one tick is replaced, the others and the ticks stay.
LEMMA SwapShape ==
  ASSUME NEW s \in Seq(Entry), NEW e \in Entry
  PROVE  /\ Swap(s, e) \in Seq(Entry) /\ Len(Swap(s, e)) = Len(s)
         /\ \A i \in 1..Len(s) : /\ Swap(s, e)[i] = IF s[i].tick = e.tick THEN e ELSE s[i]
                                 /\ Swap(s, e)[i].tick = s[i].tick
  <1>1. Swap(s, e) = [i \in 1..Len(s) |-> IF s[i].tick = e.tick THEN e ELSE s[i]]
    BY DEF Swap
  <1>2. \A i \in 1..Len(s) : (IF s[i].tick = e.tick THEN e ELSE s[i]) \in Entry
    BY EntryFields
  <1> QED
    BY <1>1, <1>2

\* The places of an entry that came last, once the others are in order.
LEMMA PlacesFound ==
  ASSUME NEW s \in Seq(Entry), Len(s) > 1,
         \A i, j \in 1..(Len(s) - 1) : i < j => s[i].tick < s[j].tick
  PROVE  \E p \in Bijection(1..Len(s), 1..Len(s)) :
           \A i, j \in 1..Len(s) : i < j => s[p[i]].tick <= s[p[j]].tick
  <1> DEFINE n == Len(s)
             later == {i \in 1..n : i = n \/ s[i].tick > s[n].tick}
  <1>1. n \in Nat /\ n > 1
    OBVIOUS
  <1>2. PICK k \in later : \A i \in later : k <= i
    <2>1. later \in SUBSET Nat /\ n \in later
      BY <1>1
    <2> HIDE DEF later
    <2> QED
      BY <2>1, LeastFound
  <1>3. k \in 1..n
    BY <1>2
  <1>4. \A i \in 1..n : i < k => s[i].tick <= s[n].tick
    BY <1>1, <1>2, <1>3, EntryFields
  <1>5. \A i \in 1..n : k <= i /\ i < n => s[i].tick > s[n].tick
    BY <1>1, <1>2, <1>3, EntryFields
  <1> HIDE DEF later
  <1> DEFINE p == [i \in 1..n |-> IF i < k THEN i ELSE IF i = k THEN n ELSE i - 1]
  <1>6. p \in [1..n -> 1..n]
    BY <1>1, <1>3
  <1>7. IsInjective(p)
    BY <1>1, <1>3 DEF IsInjective
  <1>8. \A t \in 1..n : \E i \in 1..n : p[i] = t
    <2> SUFFICES ASSUME NEW t \in 1..n PROVE \E i \in 1..n : p[i] = t
      OBVIOUS
    <2>1. CASE t < k
      BY <1>3, <2>1
    <2>2. CASE t = n
      BY <1>3, <2>2
    <2>3. CASE k <= t /\ t < n
      <3>1. t + 1 \in 1..n /\ p[t + 1] = t
        BY <1>1, <1>3, <2>3
      <3> QED
        BY <3>1
    <2> QED
      BY <1>1, <1>3, <2>1, <2>2, <2>3
  <1>9. p \in Bijection(1..n, 1..n)
    BY <1>6, <1>7, <1>8 DEF Bijection, Injection, Surjection
  <1>10. ASSUME NEW i \in 1..n, NEW j \in 1..n, i < j PROVE s[p[i]].tick <= s[p[j]].tick
    <2>1. CASE j < k
      <3>1. p[i] = i /\ p[j] = j /\ i \in 1..(n - 1) /\ j \in 1..(n - 1)
        BY <1>1, <1>3, <1>10, <2>1
      <3> QED
        BY <1>10, <3>1, EntryFields
    <2>2. CASE i < k /\ j = k
      <3>1. p[i] = i /\ p[j] = n
        BY <1>10, <2>2
      <3> QED
        BY <1>4, <2>2, <3>1
    <2>3. CASE i < k /\ j > k
      <3>1. p[i] = i /\ p[j] = j - 1 /\ i \in 1..(n - 1) /\ j - 1 \in 1..(n - 1) /\ i < j - 1
        BY <1>1, <1>3, <1>10, <2>3
      <3> QED
        BY <3>1, EntryFields
    <2>4. CASE i = k
      <3>1. p[i] = n /\ p[j] = j - 1 /\ j - 1 \in 1..n /\ k <= j - 1 /\ j - 1 < n
        BY <1>1, <1>3, <1>10, <2>4
      <3> QED
        BY <1>1, <1>5, <3>1, EntryFields
    <2>5. CASE i > k
      <3>1. /\ p[i] = i - 1 /\ p[j] = j - 1 /\ i - 1 \in 1..(n - 1) /\ j - 1 \in 1..(n - 1)
            /\ i - 1 < j - 1
        BY <1>1, <1>3, <1>10, <2>5
      <3> QED
        BY <3>1, EntryFields
    <2> QED
      BY <1>3, <1>10, <2>1, <2>2, <2>3, <2>4, <2>5
  <1> QED
    BY <1>9, <1>10

\* Sorted, the entries are the same and in order.
LEMMA SortedShape ==
  ASSUME NEW s \in Seq(Entry), Len(s) > 1,
         \A i, j \in 1..(Len(s) - 1) : i < j => s[i].tick < s[j].tick,
         \A i \in 1..(Len(s) - 1) : s[i].tick # s[Len(s)].tick
  PROVE  /\ Sorted(s) \in Seq(Entry) /\ Len(Sorted(s)) = Len(s) /\ Ascending(Sorted(s))
         /\ \A i \in 1..Len(s) : \E j \in 1..Len(s) : Sorted(s)[i] = s[j]
         /\ \A j \in 1..Len(s) : \E i \in 1..Len(s) : Sorted(s)[i] = s[j]
  <1> DEFINE n == Len(s)
             InPlace(p) == \A i, j \in 1..n : i < j => s[p[i]].tick <= s[p[j]].tick
             p == CHOOSE q \in Bijection(1..n, 1..n) : InPlace(q)
             r == [i \in 1..n |-> s[p[i]]]
  <1>1. p \in Bijection(1..n, 1..n) /\ InPlace(p)
    <2>1. \E q \in Bijection(1..n, 1..n) : InPlace(q)
      BY PlacesFound
    <2> HIDE DEF InPlace, n
    <2> QED
      BY <2>1
  <1>2. Sorted(s) = r
    BY Zenon DEF Sorted
  <1> HIDE DEF p
  <1>3. /\ p \in [1..n -> 1..n] /\ \A i, j \in 1..n : p[i] = p[j] => i = j
        /\ \A t \in 1..n : \E i \in 1..n : p[i] = t
    BY <1>1 DEF Bijection, Injection, Surjection, IsInjective
  <1>4. n \in Nat /\ \A i \in 1..n : s[i] \in Entry
    OBVIOUS
  <1>5. r \in Seq(Entry) /\ Len(r) = n
    BY <1>3, <1>4
  <1>6. \A i, j \in 1..n : i # j => s[i].tick # s[j].tick
    BY EntryFields
  <1>7. ASSUME NEW i \in 1..n, NEW j \in 1..n, i < j PROVE r[i].tick < r[j].tick
    <2>1. p[i] \in 1..n /\ p[j] \in 1..n /\ p[i] # p[j]
      <3>1. i # j
        BY <1>7
      <3> QED
        BY <1>3, <3>1
    <2>2. s[p[i]].tick <= s[p[j]].tick /\ s[p[i]].tick # s[p[j]].tick
      BY <1>1, <1>6, <1>7, <2>1
    <2>3. s[p[i]].tick \in Nat /\ s[p[j]].tick \in Nat
      BY <2>1, EntryFields
    <2> QED
      BY <2>2, <2>3
  <1>8. /\ \A i \in 1..n : \E j \in 1..n : r[i] = s[j]
        /\ \A j \in 1..n : \E i \in 1..n : r[i] = s[j]
    <2>1. \A i \in 1..n : r[i] = s[p[i]] /\ p[i] \in 1..n
      BY <1>3
    <2>2. ASSUME NEW j \in 1..n PROVE \E i \in 1..n : r[i] = s[j]
      <3>1. PICK i \in 1..n : p[i] = j
        BY <1>3
      <3> QED
        BY <3>1
    <2> QED
      BY <2>1, <2>2
  <1>9. Ascending(r)
    BY <1>5, <1>7 DEF Ascending
  <1> HIDE DEF r
  <1> QED
    BY <1>2, <1>5, <1>8, <1>9

\* A late entry is sorted in, any other one is in its place.
LEMMA InOrderShape ==
  ASSUME NEW s \in Seq(Entry), Len(s) >= 1,
         \A i, j \in 1..(Len(s) - 1) : i < j => s[i].tick < s[j].tick,
         \A i \in 1..(Len(s) - 1) : s[i].tick # s[Len(s)].tick
  PROVE  /\ InOrder(s) \in Seq(Entry) /\ Len(InOrder(s)) = Len(s) /\ Ascending(InOrder(s))
         /\ \A i \in 1..Len(s) : \E j \in 1..Len(s) : InOrder(s)[i] = s[j]
         /\ \A j \in 1..Len(s) : \E i \in 1..Len(s) : InOrder(s)[i] = s[j]
  <1>1. CASE Len(s) > 1 /\ s[Len(s) - 1].tick > s[Len(s)].tick
    BY <1>1, SortedShape DEF InOrder
  <1>2. CASE ~(Len(s) > 1 /\ s[Len(s) - 1].tick > s[Len(s)].tick)
    <2>1. InOrder(s) = s
      BY <1>2 DEF InOrder
    <2>2. ASSUME NEW i \in 1..Len(s), NEW j \in 1..Len(s), i < j PROVE s[i].tick < s[j].tick
      <3>1. CASE j < Len(s)
        BY <2>2, <3>1
      <3>2. CASE j = Len(s)
        <4>1. Len(s) - 1 \in 1..Len(s) /\ i <= Len(s) - 1 /\ Len(s) > 1
          BY <2>2, <3>2
        <4>2. s[Len(s) - 1].tick < s[Len(s)].tick
          BY <1>2, <4>1, EntryFields
        <4>3. i = Len(s) - 1 \/ s[i].tick < s[Len(s) - 1].tick
          BY <2>2, <4>1
        <4>4. /\ s[i].tick \in Nat /\ s[Len(s) - 1].tick \in Nat /\ s[Len(s)].tick \in Nat
              /\ i \in 1..Len(s) /\ Len(s) \in 1..Len(s)
          BY <2>2, <4>1, EntryFields
        <4> DEFINE a == s[i].tick
                   b == s[Len(s) - 1].tick
                   c == s[Len(s)].tick
        <4>5. a \in Nat /\ b \in Nat /\ c \in Nat /\ b < c /\ (a = b \/ a < b)
          BY <4>2, <4>3, <4>4
        <4> HIDE DEF a, b, c
        <4>6. a < c
          BY <4>5
        <4> QED
          BY <3>2, <4>6 DEF a, c
      <3> QED
        BY <2>2, <3>1, <3>2
    <2> QED
      BY <2>1, <2>2 DEF Ascending
  <1> QED
    BY <1>1, <1>2

\* As many entries with ticks of their own need as many ticks.
LEMMA TicksSuffice ==
  ASSUME NEW s \in Seq(Entry), Apart(s), Len(s) >= 1, NEW lo \in Int, NEW hi \in Int,
         \A i \in 1..Len(s) : lo <= s[i].tick /\ s[i].tick <= hi
  PROVE  Len(s) <= hi - lo + 1
  <1> DEFINE n == Len(s)
             f == [i \in 1..n |-> s[i].tick]
  <1>1. n \in Nat /\ n >= 1
    OBVIOUS
  <1>2. f \in [1..n -> lo..hi]
    BY EntryFields
  <1>3. IsInjective(f)
    BY DEF IsInjective, Apart
  <1>4. f \in Injection(1..n, lo..hi)
    BY <1>2, <1>3 DEF Injection
  <1>5. IsFiniteSet(lo..hi) /\ Cardinality(lo..hi) = IF lo > hi THEN 0 ELSE hi - lo + 1
    BY FS_Interval
  <1>6. Cardinality(1..n) <= Cardinality(lo..hi)
    BY <1>4, <1>5, FS_Injection
  <1>7. Cardinality(1..n) = n
    BY <1>1, FS_Interval
  <1> HIDE DEF n
  <1>8. n <= hi - lo + 1
    BY <1>1, <1>5, <1>6, <1>7
  <1> QED
    BY <1>8 DEF n

-----------------------------------------------------------------------------
(* The ring: the invariant. *)

RingTypes ==
  /\ head \in Ticks /\ running \in BOOLEAN
  /\ buffer \in Seq(Entry) /\ Len(buffer) <= Size
  /\ details \in Seq(Entry) /\ Len(details) <= Size
  /\ accepted \subseteq Ticks /\ \A t \in accepted : t <= head

\* Each tick has one detail, and it is the entry the ring has; they came in an
\* order that is out by no more than a tick may be late, and those that may still
\* be delivered again are all there.
DetailsInv ==
  /\ Apart(details)
  /\ \A i \in 1..Len(details) : details[i].tick <= head
  /\ \A i, j \in 1..Len(details) : i < j => details[j].tick >= details[i].tick - MaxLate
  /\ \A t \in accepted : t >= head - MaxLate => \E j \in 1..Len(details) : details[j].tick = t
  /\ \A i \in 1..Len(buffer) : \A j \in 1..Len(details) :
       buffer[i].tick = details[j].tick => buffer[i] = details[j]

\* The ring is in order, its ticks were accepted, and what it does not hold of
\* those is older than all it does.
RingOrder ==
  /\ Ascending(buffer)
  /\ \A i \in 1..Len(buffer) : buffer[i].tick \in accepted
  /\ \A t \in accepted :
       \/ \E i \in 1..Len(buffer) : buffer[i].tick = t
       \/ Len(buffer) = Size /\ t < buffer[1].tick

RingInv == RingTypes /\ RingOrder /\ DetailsInv

LEMMA InTicksOf ==
  ASSUME NEW s \in Seq(Entry), NEW t
  PROVE  t \in TicksOf(s) <=> \E i \in 1..Len(s) : s[i].tick = t
  <1>1. DOMAIN s = 1..Len(s)
    OBVIOUS
  <1> QED
    BY <1>1, Zenon DEF TicksOf

LEMMA RingTyping ==
  ASSUME RingTypes
  PROVE  /\ head \in Nat /\ Size \in Nat /\ Size >= 1 /\ MaxLate \in Nat /\ Size > 2 * MaxLate
         /\ Len(buffer) \in 0..Size /\ Len(details) \in 0..Size
         /\ buffer \in Seq(Entry) /\ details \in Seq(Entry)
         /\ \A i \in 1..Len(buffer) : buffer[i] \in Entry /\ buffer[i].tick \in Nat
         /\ \A i \in 1..Len(details) : details[i] \in Entry /\ details[i].tick \in Nat
         /\ accepted \subseteq Nat
  BY SizeAssumption, RingAssumption, EntryFields DEF RingTypes, Ticks

\* A tick that may be delivered and has no detail was never accepted.
LEMMA UnknownIsNew ==
  ASSUME RingInv, NEW e \in Entry, e.tick >= head - MaxLate, ~Known(e.tick)
  PROVE  /\ e.tick \notin accepted
         /\ \A i \in 1..Len(buffer) : buffer[i].tick # e.tick
         /\ \A i \in 1..Len(details) : details[i].tick # e.tick
  <1>1. \A i \in 1..Len(details) : details[i].tick # e.tick
    BY InTicksOf DEF Known, RingInv, RingTypes
  <1>2. e.tick \notin accepted
    BY <1>1 DEF RingInv, DetailsInv
  <1> QED
    BY <1>1, <1>2 DEF RingInv, RingOrder

\* The oldest entry of a full ring is older than what may still be delivered.
LEMMA OldestIsOld ==
  ASSUME RingInv, Len(buffer) = Size
  PROVE  buffer[1].tick <= head - MaxLate
  <1>1. /\ head \in Nat /\ Size \in Nat /\ Size >= 1 /\ MaxLate \in Nat /\ Size > 2 * MaxLate
        /\ buffer \in Seq(Entry) /\ \A i \in 1..Len(buffer) : buffer[i].tick \in Nat
    BY RingTyping DEF RingInv
  <1>2. Apart(buffer)
    BY <1>1 DEF RingInv, RingOrder, Ascending, Apart
  <1>3. \A i \in 1..Len(buffer) : buffer[1].tick <= buffer[i].tick /\ buffer[i].tick <= head
    <2> SUFFICES ASSUME NEW i \in 1..Len(buffer)
                 PROVE  buffer[1].tick <= buffer[i].tick /\ buffer[i].tick <= head
      OBVIOUS
    <2>1. 1 \in 1..Len(buffer) /\ (i = 1 \/ 1 < i)
      BY <1>1
    <2>2. buffer[i].tick <= head
      BY DEF RingInv, RingOrder, RingTypes
    <2> QED
      BY <1>1, <2>1, <2>2 DEF RingInv, RingOrder, Ascending
  <1>4. buffer[1].tick \in Int
    BY <1>1
  <1>5. Len(buffer) <= head - buffer[1].tick + 1
    BY <1>1, <1>2, <1>3, <1>4, TicksSuffice
  <1> QED
    BY <1>1, <1>4, <1>5

\* A new tick: the ring.
LEMMA AcceptBuffer ==
  ASSUME RingInv, NEW e \in Entry, e.tick >= head - MaxLate, e.tick <= head, Accept(e)
  PROVE  /\ buffer' \in Seq(Entry) /\ Len(buffer') <= Size /\ RingOrder'
         /\ \A i \in 1..Len(buffer') :
              buffer'[i] = e \/ \E j \in 1..Len(buffer) : buffer'[i] = buffer[j]
  <1> DEFINE r == Push(buffer, e)
  <1>1. buffer' = InOrder(r) /\ accepted' = accepted \cup {e.tick} /\ ~Known(e.tick)
    BY DEF Accept
  <1>2. /\ head \in Nat /\ Size \in Nat /\ Size >= 1 /\ MaxLate \in Nat
        /\ Len(buffer) \in 0..Size /\ buffer \in Seq(Entry) /\ e.tick \in Nat
        /\ \A i \in 1..Len(buffer) : buffer[i].tick \in Nat
        /\ accepted \subseteq Nat
    BY RingTyping, SizeAssumption DEF RingInv, Entry, Ticks
  <1>3. /\ r \in Seq(Entry) /\ Len(r) \in 1..Size /\ r[Len(r)] = e
        /\ Len(buffer) < Size => /\ Len(r) = Len(buffer) + 1
                                 /\ \A i \in 1..Len(buffer) : r[i] = buffer[i]
        /\ Len(buffer) = Size => /\ Len(r) = Size
                                 /\ \A i \in 1..(Size - 1) : r[i] = buffer[i + 1]
    <2>1. Len(buffer) <= Size
      BY <1>2
    <2> QED
      BY <1>2, <2>1, PushShape, Zenon
  <1> HIDE DEF r
  <1>4. /\ e.tick \notin accepted
        /\ \A i \in 1..Len(buffer) : buffer[i].tick # e.tick
    BY <1>1, UnknownIsNew
  <1>5. /\ \A i \in 1..(Len(r) - 1) : \E j \in 1..Len(buffer) : r[i] = buffer[j]
        /\ \A i, j \in 1..(Len(r) - 1) : i < j => r[i].tick < r[j].tick
    <2>1. CASE Len(buffer) < Size
      <3>1. \A i \in 1..(Len(r) - 1) : i \in 1..Len(buffer) /\ r[i] = buffer[i]
        BY <1>2, <1>3, <2>1
      <3> QED
        BY <3>1 DEF RingInv, RingOrder, Ascending
    <2>2. CASE Len(buffer) = Size
      <3>1. \A i \in 1..(Len(r) - 1) : i + 1 \in 1..Len(buffer) /\ r[i] = buffer[i + 1]
        BY <1>2, <1>3, <2>2
      <3>2. \A i, j \in 1..(Len(r) - 1) : i < j => i + 1 < j + 1
        BY <1>3
      <3> QED
        BY <3>1, <3>2 DEF RingInv, RingOrder, Ascending
    <2> QED
      BY <1>2, <2>1, <2>2
  <1>6. \A i \in 1..(Len(r) - 1) : r[i].tick # r[Len(r)].tick
    BY <1>3, <1>4, <1>5
  <1>7. /\ buffer' \in Seq(Entry) /\ Len(buffer') = Len(r) /\ Ascending(buffer')
        /\ \A i \in 1..Len(r) : \E j \in 1..Len(r) : buffer'[i] = r[j]
        /\ \A j \in 1..Len(r) : \E i \in 1..Len(r) : buffer'[i] = r[j]
    <2>1. Len(r) >= 1
      BY <1>2, <1>3
    <2> QED
      BY <1>1, <1>3, <1>5, <1>6, <2>1, InOrderShape, Zenon
  <1>8. \A i \in 1..Len(buffer') :
          buffer'[i] = e \/ \E j \in 1..Len(r) - 1 : buffer'[i] = r[j]
    <2> SUFFICES ASSUME NEW i \in 1..Len(r)
                 PROVE  buffer'[i] = e \/ \E j \in 1..Len(r) - 1 : buffer'[i] = r[j]
      BY <1>7
    <2>1. PICK j \in 1..Len(r) : buffer'[i] = r[j]
      BY <1>7
    <2>2. j = Len(r) \/ j \in 1..Len(r) - 1
      BY <1>3
    <2> QED
      BY <1>3, <2>1, <2>2
  <1>9. \A i \in 1..Len(buffer') :
          buffer'[i] = e \/ \E j \in 1..Len(buffer) : buffer'[i] = buffer[j]
    BY <1>5, <1>8
  <1>10. \A i \in 1..Len(buffer') : buffer'[i].tick \in accepted'
    BY <1>1, <1>9 DEF RingInv, RingOrder
  <1>11. \E i \in 1..Len(buffer') : buffer'[i] = e
    <2>1. Len(r) \in 1..Len(r)
      BY <1>2, <1>3
    <2>2. PICK i \in 1..Len(r) : buffer'[i] = r[Len(r)]
      BY <1>7, <2>1
    <2> QED
      BY <1>3, <1>7, <2>2
  <1>12. ASSUME NEW t \in accepted', ~(\E i \in 1..Len(buffer') : buffer'[i].tick = t)
         PROVE  Len(buffer') = Size /\ t < buffer'[1].tick
    <2>1. t \in accepted /\ t \in Nat
      BY <1>1, <1>2, <1>11, <1>12
    <2>2. CASE Len(buffer) < Size
      <3>1. ~(\E i \in 1..Len(buffer) : buffer[i].tick = t)
        <4>1. ASSUME NEW i \in 1..Len(buffer), buffer[i].tick = t PROVE FALSE
          <5>1. i \in 1..Len(r) /\ r[i] = buffer[i]
            BY <1>2, <1>3, <2>2
          <5> QED
            BY <1>7, <1>12, <4>1, <5>1
        <4> QED
          BY <4>1
      <3> QED
        BY <1>2, <2>1, <2>2, <3>1 DEF RingInv, RingOrder
    <2>3. CASE Len(buffer) = Size
      <3>1. t <= buffer[1].tick
        <4>1. ASSUME NEW i \in 1..Len(buffer), buffer[i].tick = t PROVE i = 1
          <5>1. CASE i > 1
            <6>1. i - 1 \in 1..(Size - 1) /\ i - 1 \in 1..Len(r) /\ (i - 1) + 1 = i
              BY <1>2, <1>3, <2>3, <5>1
            <6>2. r[i - 1] = buffer[i]
              BY <1>3, <2>3, <6>1
            <6>3. PICK k \in 1..Len(r) : buffer'[k] = r[i - 1]
              BY <1>7, <6>1
            <6>4. buffer'[k].tick = t /\ k \in 1..Len(buffer')
              BY <1>7, <4>1, <6>2, <6>3
            <6> QED
              BY <1>12, <6>4
          <5> QED
            BY <5>1
        <4>2. 1 \in 1..Len(buffer)
          BY <1>2, <2>3
        <4> QED
          BY <1>2, <2>1, <4>1, <4>2 DEF RingInv, RingOrder
      <3>2. buffer[1].tick < e.tick
        <4>1. buffer[1].tick <= head - MaxLate /\ buffer[1].tick # e.tick /\ buffer[1].tick \in Nat
          BY <1>2, <1>4, <2>3, OldestIsOld
        <4> QED
          BY <1>2, <4>1
      <3>3. \A j \in 1..(Len(r) - 1) : buffer[1].tick < r[j].tick
        <4>1. \A j \in 1..(Len(r) - 1) : r[j] = buffer[j + 1] /\ j + 1 \in 1..Len(buffer) /\ 1 < j + 1
          BY <1>2, <1>3, <2>3
        <4>2. 1 \in 1..Len(buffer)
          BY <1>2, <2>3
        <4> QED
          BY <4>1, <4>2 DEF RingInv, RingOrder, Ascending
      <3>4. 1 \in 1..Len(buffer') /\ Len(buffer') = Size
        BY <1>2, <1>3, <1>7, <2>3
      <3>5. buffer[1].tick < buffer'[1].tick
        BY <1>8, <3>2, <3>3, <3>4
      <3>6. buffer'[1].tick \in Nat /\ buffer[1].tick \in Nat
        BY <1>2, <1>7, <2>3, <3>4, EntryFields
      <3> QED
        BY <2>1, <3>1, <3>4, <3>5, <3>6
    <2> QED
      BY <1>2, <2>2, <2>3
  <1> QED
    BY <1>3, <1>7, <1>9, <1>10, <1>12 DEF RingOrder

\* When the details are full and a new one comes, the first one that goes is of a
\* tick that is not delivered any more.
LEMMA FirstDetailIsOld ==
  ASSUME RingInv, Len(details) = Size, NEW e \in Entry, ~Known(e.tick),
         e.tick >= head - MaxLate, e.tick <= head
  PROVE  details[1].tick < head - MaxLate
  <1> DEFINE s == Append(details, e)
             lo == details[1].tick - MaxLate
  <1>1. /\ head \in Nat /\ Size \in Nat /\ Size >= 1 /\ MaxLate \in Nat /\ Size > 2 * MaxLate
        /\ details \in Seq(Entry) /\ \A i \in 1..Len(details) : details[i].tick \in Nat
        /\ 1 \in 1..Len(details) /\ e.tick \in Nat
    BY RingTyping, SizeAssumption DEF RingInv, Entry, Ticks
  <1>2. /\ s \in Seq(Entry) /\ Len(s) = Size + 1 /\ s[Size + 1] = e
        /\ \A i \in 1..Size : s[i] = details[i]
    BY <1>1
  <1>3. \A i \in 1..Size : details[i].tick # e.tick
    BY <1>1, UnknownIsNew
  <1> HIDE DEF s
  <1>4. \A i \in 1..Len(s) : i \in 1..Size \/ i = Size + 1
    BY <1>1, <1>2
  <1>5. Apart(s)
    BY <1>2, <1>3, <1>4 DEF RingInv, DetailsInv, Apart
  <1>6. lo \in Int /\ lo <= e.tick
    <2>1. details[1].tick <= head
      BY <1>1 DEF RingInv, DetailsInv
    <2> QED
      BY <1>1, <2>1
  <1>7. \A i \in 1..Size : lo <= details[i].tick /\ details[i].tick <= head
    <2> SUFFICES ASSUME NEW i \in 1..Size
                 PROVE  lo <= details[i].tick /\ details[i].tick <= head
      OBVIOUS
    <2>1. i = 1 \/ details[i].tick >= details[1].tick - MaxLate
      BY <1>1 DEF RingInv, DetailsInv
    <2>2. details[i].tick <= head
      BY DEF RingInv, DetailsInv
    <2> QED
      BY <1>1, <2>1, <2>2
  <1>8. \A i \in 1..Len(s) : lo <= s[i].tick /\ s[i].tick <= head
    BY <1>2, <1>4, <1>6, <1>7
  <1>9. Len(s) >= 1
    BY <1>1, <1>2
  <1> HIDE DEF lo
  <1>10. Len(s) <= head - lo + 1
    <2>1. head \in Int
      BY <1>1
    <2> QED
      BY <1>2, <1>5, <1>6, <1>8, <1>9, <2>1, TicksSuffice, Zenon
  <1> QED
    BY <1>1, <1>2, <1>10 DEF lo

\* A new tick: the details.
LEMMA AcceptDetails ==
  ASSUME RingInv, NEW e \in Entry, e.tick >= head - MaxLate, e.tick <= head, Accept(e),
         head' = head
  PROVE  details' \in Seq(Entry) /\ Len(details') <= Size /\ DetailsInv'
  <1> DEFINE r == Push(details, e)
             n == Len(details)
  <1>1. details' = r /\ accepted' = accepted \cup {e.tick} /\ ~Known(e.tick)
    BY DEF Accept
  <1>2. /\ head \in Nat /\ Size \in Nat /\ Size >= 1 /\ MaxLate \in Nat
        /\ n \in 0..Size /\ details \in Seq(Entry) /\ e.tick \in Nat
        /\ \A i \in 1..n : details[i].tick \in Nat
        /\ accepted \subseteq Nat
    BY RingTyping, SizeAssumption DEF RingInv, Entry, Ticks
  <1>3. /\ r \in Seq(Entry) /\ Len(r) \in 1..Size /\ r[Len(r)] = e
        /\ n < Size => Len(r) = n + 1 /\ \A i \in 1..n : r[i] = details[i]
        /\ n = Size => Len(r) = Size /\ \A i \in 1..(Size - 1) : r[i] = details[i + 1]
    <2>1. n <= Size
      BY <1>2
    <2> QED
      BY <1>2, <2>1, PushShape, Zenon
  <1> HIDE DEF r, n
  <1>4. PICK d \in {0, 1} : /\ Len(r) = n + 1 - d /\ (d = 1 => n = Size)
                            /\ \A i \in 1..(Len(r) - 1) : i + d \in 1..n /\ r[i] = details[i + d]
    <2>1. CASE n < Size
      BY <1>2, <1>3, <2>1
    <2>2. CASE n = Size
      BY <1>2, <1>3, <2>2
    <2> QED
      BY <1>2, <2>1, <2>2
  <1>5. /\ \A i \in 1..n : details[i].tick # e.tick
        /\ \A i \in 1..Len(buffer) : buffer[i].tick # e.tick
    BY <1>1, UnknownIsNew DEF n
  <1>6. \A i \in 1..Len(r) : i \in 1..(Len(r) - 1) \/ i = Len(r)
    BY <1>2, <1>3
  <1>7. Apart(r)
    <2> SUFFICES ASSUME NEW i \in 1..Len(r), NEW j \in 1..Len(r), i # j
                 PROVE  r[i].tick # r[j].tick
      BY DEF Apart
    <2>1. CASE i \in 1..(Len(r) - 1) /\ j \in 1..(Len(r) - 1)
      <3>1. i + d # j + d
        BY <2>1
      <3> QED
        BY <1>4, <2>1, <3>1 DEF RingInv, DetailsInv, Apart, n
    <2>2. CASE i \in 1..(Len(r) - 1) /\ j = Len(r)
      BY <1>3, <1>4, <1>5, <2>2
    <2>3. CASE i = Len(r) /\ j \in 1..(Len(r) - 1)
      BY <1>3, <1>4, <1>5, <2>3
    <2> QED
      BY <1>6, <2>1, <2>2, <2>3
  <1>8. \A i \in 1..Len(r) : r[i].tick <= head
    BY <1>3, <1>4, <1>6 DEF RingInv, DetailsInv, n
  <1>9. ASSUME NEW i \in 1..Len(r), NEW j \in 1..Len(r), i < j
        PROVE  r[j].tick >= r[i].tick - MaxLate
    <2>1. i \in 1..(Len(r) - 1)
      BY <1>6, <1>9
    <2>2. CASE j \in 1..(Len(r) - 1)
      <3>1. i + d < j + d
        BY <1>9
      <3> QED
        BY <1>4, <2>1, <2>2, <3>1 DEF RingInv, DetailsInv, n
    <2>3. CASE j = Len(r)
      <3>1. r[i].tick <= head /\ r[i].tick \in Nat
        BY <1>2, <1>4, <1>8, <2>1
      <3> QED
        BY <1>2, <1>3, <2>3, <3>1
    <2> QED
      BY <1>6, <2>2, <2>3
  <1>10. ASSUME NEW t \in accepted', t >= head - MaxLate
         PROVE  \E j \in 1..Len(r) : r[j].tick = t
    <2>1. CASE t = e.tick
      <3>1. Len(r) \in 1..Len(r)
        BY <1>2, <1>3
      <3> QED
        BY <1>3, <2>1, <3>1
    <2>2. CASE t # e.tick
      <3>1. PICK j \in 1..n : details[j].tick = t
        BY <1>1, <1>10, <2>2 DEF RingInv, DetailsInv, n
      <3>2. j - d \in 1..(Len(r) - 1)
        <4>1. CASE d = 0
          BY <1>2, <1>4, <4>1
        <4>2. CASE d = 1
          <5>1. details[1].tick < head - MaxLate
            BY <1>1, <1>4, <4>2, FirstDetailIsOld DEF n
          <5>2. j # 1
            BY <1>2, <1>10, <3>1, <5>1
          <5> QED
            BY <1>2, <1>4, <4>2, <5>2
        <4> QED
          BY <4>1, <4>2
      <3>3. r[j - d] = details[j] /\ j - d \in 1..Len(r)
        <4>1. (j - d) + d = j
          OBVIOUS
        <4> QED
          BY <1>3, <1>4, <3>2, <4>1
      <3> QED
        BY <3>1, <3>3
    <2> QED
      BY <2>1, <2>2
  <1>11. ASSUME NEW i \in 1..Len(buffer'), NEW j \in 1..Len(r), buffer'[i].tick = r[j].tick
         PROVE  buffer'[i] = r[j]
    <2>1. buffer'[i] = e \/ \E k \in 1..Len(buffer) : buffer'[i] = buffer[k]
      BY AcceptBuffer
    <2>2. r[j] = e \/ \E k \in 1..n : r[j] = details[k]
      BY <1>3, <1>4, <1>6
    <2> QED
      BY <1>5, <1>11, <2>1, <2>2 DEF RingInv, DetailsInv, n
  <1>12. Len(r) <= Size
    BY <1>2, <1>3
  <1> QED
    BY <1>1, <1>3, <1>7, <1>8, <1>9, <1>10, <1>11, <1>12 DEF DetailsInv

\* Content for a bare tick changes no tick, and the ring and the details alike.
LEMMA UpgradeKeeps ==
  ASSUME RingInv, NEW e \in Entry, Upgrade(e), head' = head, running' = running
  PROVE  RingInv'
  <1>1. /\ buffer' = Swap(buffer, e) /\ details' = Swap(details, e) /\ accepted' = accepted
    BY DEF Upgrade
  <1>2. buffer \in Seq(Entry) /\ details \in Seq(Entry)
    BY DEF RingInv, RingTypes
  <1>3. /\ buffer' \in Seq(Entry) /\ Len(buffer') = Len(buffer)
        /\ \A i \in 1..Len(buffer) :
             /\ buffer'[i] = IF buffer[i].tick = e.tick THEN e ELSE buffer[i]
             /\ buffer'[i].tick = buffer[i].tick
    BY <1>1, <1>2, SwapShape
  <1>4. /\ details' \in Seq(Entry) /\ Len(details') = Len(details)
        /\ \A i \in 1..Len(details) :
             /\ details'[i] = IF details[i].tick = e.tick THEN e ELSE details[i]
             /\ details'[i].tick = details[i].tick
    BY <1>1, <1>2, SwapShape
  <1>5. RingTypes'
    BY <1>1, <1>3, <1>4 DEF RingInv, RingTypes
  <1>6. RingOrder'
    <2>1. Ascending(buffer)'
      BY <1>3 DEF RingInv, RingOrder, Ascending
    <2>2. \A i \in 1..Len(buffer') : buffer'[i].tick \in accepted'
      BY <1>1, <1>3 DEF RingInv, RingOrder
    <2>3. ASSUME NEW t \in accepted'
          PROVE  \/ \E i \in 1..Len(buffer') : buffer'[i].tick = t
                 \/ Len(buffer') = Size /\ t < buffer'[1].tick
      <3>1. CASE \E i \in 1..Len(buffer) : buffer[i].tick = t
        BY <1>3, <3>1
      <3>2. CASE Len(buffer) = Size /\ t < buffer[1].tick
        <4>1. 1 \in 1..Len(buffer)
          BY <3>2, SizeAssumption
        <4> QED
          BY <1>3, <3>2, <4>1
      <3> QED
        BY <1>1, <3>1, <3>2 DEF RingInv, RingOrder
    <2> QED
      BY <2>1, <2>2, <2>3 DEF RingOrder
  <1>7. DetailsInv'
    <2>1. Apart(details)'
      BY <1>4 DEF RingInv, DetailsInv, Apart
    <2>2. /\ \A i \in 1..Len(details') : details'[i].tick <= head'
          /\ \A i, j \in 1..Len(details') :
               i < j => details'[j].tick >= details'[i].tick - MaxLate
      BY <1>4 DEF RingInv, DetailsInv
    <2>3. \A t \in accepted' :
            t >= head' - MaxLate => \E j \in 1..Len(details') : details'[j].tick = t
      BY <1>1, <1>4 DEF RingInv, DetailsInv
    <2>4. \A i \in 1..Len(buffer') : \A j \in 1..Len(details') :
            buffer'[i].tick = details'[j].tick => buffer'[i] = details'[j]
      BY <1>3, <1>4 DEF RingInv, DetailsInv
    <2> QED
      BY <2>1, <2>2, <2>3, <2>4 DEF DetailsInv
  <1> QED
    BY <1>5, <1>6, <1>7 DEF RingInv

\* What is received and not ignored is recent.
LEMMA ReceivedIsRecent ==
  ASSUME RingInv, Receive
  PROVE  \E e \in Entry : /\ e.tick >= head - MaxLate /\ e.tick <= head
                          /\ Accept(e) \/ Upgrade(e)
  <1>1. PICK e \in Entry : /\ \/ e.tick \in (head - MaxLate)..head
                              \/ buffer # <<>> /\ e.tick + Size < NewestOf(buffer)
                           /\ Ingest(e)
    BY DEF Receive
  <1>2. ~FarBehind(e) /\ (Accept(e) \/ Upgrade(e))
    BY <1>1 DEF Ingest
  <1>3. /\ head \in Nat /\ Size \in Nat /\ MaxLate \in Nat /\ buffer \in Seq(Entry)
        /\ \A i \in 1..Len(buffer) : buffer[i].tick \in Nat
    BY RingTyping DEF RingInv
  <1>4. e.tick \in Nat
    BY SizeAssumption DEF Entry, Ticks
  <1>5. ~(buffer # <<>> /\ e.tick + Size < NewestOf(buffer))
    <2> SUFFICES ASSUME buffer # <<>>, e.tick + Size < NewestOf(buffer) PROVE FALSE
      OBVIOUS
    <2>1. Len(buffer) \in 1..Len(buffer)
      BY <1>3
    <2>2. NewestOf(buffer) \in Nat
      BY <1>3, <2>1 DEF NewestOf
    <2>3. ~(e.tick < NewestOf(buffer) - Size)
      BY <1>2 DEF FarBehind
    <2> QED
      BY <1>3, <1>4, <2>2, <2>3
  <1>6. e.tick >= head - MaxLate /\ e.tick <= head
    BY <1>1, <1>3, <1>4, <1>5
  <1> QED
    BY <1>2, <1>6

LEMMA ReceiveKeeps ==
  ASSUME RingInv, Receive
  PROVE  RingInv'
  <1>1. PICK e \in Entry : /\ e.tick >= head - MaxLate /\ e.tick <= head
                           /\ Accept(e) \/ Upgrade(e)
    BY ReceivedIsRecent
  <1>2. head' = head /\ running' = running
    BY DEF Receive
  <1>3. CASE Accept(e)
    <2>1. RingOrder' /\ DetailsInv'
      BY <1>1, <1>2, <1>3, AcceptBuffer, AcceptDetails
    <2>2. /\ buffer' \in Seq(Entry) /\ Len(buffer') <= Size
          /\ details' \in Seq(Entry) /\ Len(details') <= Size
      BY <1>1, <1>2, <1>3, AcceptBuffer, AcceptDetails
    <2>3. accepted' = accepted \cup {e.tick} /\ e.tick \in Ticks
      BY <1>3 DEF Accept, Entry
    <2>4. RingTypes'
      BY <1>1, <1>2, <2>2, <2>3 DEF RingInv, RingTypes
    <2> QED
      BY <2>1, <2>4 DEF RingInv
  <1>4. CASE Upgrade(e)
    BY <1>2, <1>4, UpgradeKeeps
  <1> QED
    BY <1>1, <1>3, <1>4

\* A ring that stands by, or starts again empty.
LEMMA EnsureRunningKeeps ==
  ASSUME RingInv, EnsureRunning, head' = head
  PROVE  RingInv'
  <1>1. running' = TRUE
    BY DEF EnsureRunning
  <1>2. CASE UNCHANGED <<buffer, details, accepted>>
    BY <1>1, <1>2 DEF RingInv, RingTypes, RingOrder, Ascending, DetailsInv, Apart
  <1>3. CASE buffer' = <<>> /\ details' = <<>> /\ accepted' = {}
    <2>1. RingTypes'
      BY <1>1, <1>3, SizeAssumption DEF RingInv, RingTypes
    <2>2. RingOrder' /\ DetailsInv'
      BY <1>3 DEF RingOrder, Ascending, DetailsInv, Apart
    <2> QED
      BY <2>1, <2>2 DEF RingInv
  <1> QED
    BY <1>2, <1>3 DEF EnsureRunning

LEMMA RingStart ==
  ASSUME Init
  PROVE  RingInv
  <1>1. RingTypes
    <2>1. 1 \in Ticks /\ <<>> \in Seq(Entry) /\ Len(<<>>) <= Size
      BY SizeAssumption DEF Ticks
    <2>2. /\ head = 1 /\ running = FALSE /\ buffer = <<>> /\ details = <<>>
          /\ accepted = {}
      BY DEF Init
    <2> QED
      BY <2>1, <2>2 DEF RingTypes
  <1>2. RingOrder /\ DetailsInv
    BY DEF Init, RingOrder, Ascending, DetailsInv, Apart
  <1> QED
    BY <1>1, <1>2 DEF RingInv

LEMMA RingStep ==
  ASSUME RingInv, [Next]_vars
  PROVE  RingInv'
  <1>1. ASSUME UNCHANGED <<head, buffer, details, accepted>>, running' \in BOOLEAN
        PROVE  RingInv'
    BY <1>1 DEF RingInv, RingTypes, RingOrder, Ascending, DetailsInv, Apart
  <1>2. CASE UNCHANGED vars
    BY <1>1, <1>2 DEF vars, RingInv, RingTypes
  <1>3. CASE NewTick
    <2>1. head' = head + 1 /\ head < MaxTick /\ UNCHANGED <<running, buffer, details, accepted>>
      BY <1>3 DEF NewTick, hub
    <2>2. head \in Nat /\ head >= 1 /\ MaxTick \in Nat /\ MaxLate \in Nat
      BY SizeAssumption DEF RingInv, RingTypes, Ticks
    <2>3. RingTypes'
      BY <2>1, <2>2, RingTyping DEF RingInv, RingTypes, Ticks
    <2>4. RingOrder'
      BY <2>1 DEF RingInv, RingOrder, Ascending
    <2>5. DetailsInv'
      <3>1. \A i \in 1..Len(details) : details[i].tick <= head + 1
        BY <2>2, RingTyping DEF RingInv, DetailsInv
      <3>2. \A t \in accepted :
              t >= head + 1 - MaxLate => \E j \in 1..Len(details) : details[j].tick = t
        <4>1. \A t \in accepted : t >= head + 1 - MaxLate => t >= head - MaxLate
          BY <2>2, RingTyping DEF RingInv
        <4> QED
          BY <4>1 DEF RingInv, DetailsInv
      <3>3. /\ \A i \in 1..Len(details') : details'[i].tick <= head'
            /\ \A t \in accepted' :
                 t >= head' - MaxLate => \E j \in 1..Len(details') : details'[j].tick = t
        <4>1. head' = head + 1 /\ details' = details /\ accepted' = accepted
          BY <2>1
        <4>2. \A i \in 1..Len(details') : details'[i].tick <= head'
          BY <3>1, <4>1, Zenon
        <4>3. \A t \in accepted' :
                t >= head' - MaxLate => \E j \in 1..Len(details') : details'[j].tick = t
          <5> SUFFICES ASSUME NEW t \in accepted', t >= head' - MaxLate
                       PROVE  \E j \in 1..Len(details') : details'[j].tick = t
            OBVIOUS
          <5>1. t \in accepted /\ t >= head + 1 - MaxLate
            BY <2>2, <4>1, RingTyping DEF RingInv
          <5>2. PICK j \in 1..Len(details) : details[j].tick = t
            BY <3>2, <5>1
          <5> QED
            BY <4>1, <5>2
        <4> QED
          BY <4>2, <4>3
      <3>4. /\ Apart(details)'
            /\ \A i, j \in 1..Len(details') :
                 i < j => details'[j].tick >= details'[i].tick - MaxLate
            /\ \A i \in 1..Len(buffer') : \A j \in 1..Len(details') :
                 buffer'[i].tick = details'[j].tick => buffer'[i] = details'[j]
        BY <2>1 DEF RingInv, DetailsInv, Apart
      <3> QED
        BY <3>3, <3>4 DEF DetailsInv
    <2> QED
      BY <2>3, <2>4, <2>5 DEF RingInv
  <1>4. CASE Receive
    BY <1>4, ReceiveKeeps
  <1>5. CASE Idle
    BY <1>1, <1>5 DEF Idle
  <1>6. ASSUME NEW p \in Pages, Connect(p) \/ Poll(p) PROVE RingInv'
    BY <1>6, EnsureRunningKeeps DEF Connect, Poll
  <1>7. ASSUME NEW p \in Pages, ReadBacklog(p) \/ Send(p) \/ Close(p) PROVE RingInv'
    BY <1>1, <1>7 DEF ReadBacklog, Send, Close, hub, RingInv, RingTypes
  <1> QED
    BY <1>2, <1>3, <1>4, <1>5, <1>6, <1>7 DEF Next

\* However late and however often ticks are delivered, the ring holds the newest
\* that were accepted, each once and in order (tickstream.py TickHub.ingest).
THEOREM RingHoldsNewest == Spec => []BufferIsNewest
  <1>1. Init => RingInv
    BY RingStart
  <1>2. RingInv /\ [Next]_vars => RingInv'
    BY RingStep
  <1>3. RingInv => BufferIsNewest
    <2> SUFFICES ASSUME RingInv PROVE BufferIsNewest
      OBVIOUS
    <2>1. buffer \in Seq(Entry) /\ DOMAIN buffer = 1..Len(buffer)
      BY DEF RingInv, RingTypes
    <2>2. \A i, j \in DOMAIN buffer : i < j => buffer[i].tick < buffer[j].tick
      BY <2>1 DEF RingInv, RingOrder, Ascending
    <2>3. TicksOf(buffer) \subseteq accepted
      BY <2>1, InTicksOf DEF RingInv, RingOrder
    <2>4. \A t \in accepted \ TicksOf(buffer) : Len(buffer) = Size /\ t < buffer[1].tick
      BY <2>1, InTicksOf DEF RingInv, RingOrder
    <2> QED
      BY <2>2, <2>3, <2>4 DEF BufferIsNewest
  <1> QED
    BY <1>1, <1>2, <1>3, PTL DEF Spec

\* What may still be delivered has its detail, which knows as much as the ring
\* does, although the two let go of different ticks (TickHub.ingest, detail).
THEOREM DetailsBehindTicks == Spec => []DetailBehindEveryTick
  <1>1. Init => RingInv
    BY RingStart
  <1>2. RingInv /\ [Next]_vars => RingInv'
    BY RingStep
  <1>3. RingInv => DetailBehindEveryTick
    <2> SUFFICES ASSUME RingInv, NEW i \in DOMAIN buffer, buffer[i].tick >= head - MaxLate
                 PROVE  \E j \in DOMAIN details : details[j] = buffer[i]
      BY DEF DetailBehindEveryTick
    <2>1. i \in 1..Len(buffer) /\ DOMAIN details = 1..Len(details)
      BY DEF RingInv, RingTypes
    <2>2. PICK j \in 1..Len(details) : details[j].tick = buffer[i].tick
      BY <2>1 DEF RingInv, RingOrder, DetailsInv
    <2>3. details[j] = buffer[i]
      BY <2>1, <2>2 DEF RingInv, DetailsInv
    <2> QED
      BY <2>1, <2>3
  <1> QED
    BY <1>1, <1>2, <1>3, PTL DEF Spec

-----------------------------------------------------------------------------
(* The streams: what a page is sent. *)

\* Of places up to the last, in one piece: which one comes how many-th.
LEMMA PlacesCounted ==
  ASSUME NEW n \in Nat, NEW a \in 1..n
  PROVE  /\ Cardinality(a..n) = n - a + 1
         /\ \A k \in 1..(n - a + 1) :
              (CHOOSE i \in a..n : Cardinality({j \in a..n : j <= i}) = k) = a + k - 1
  <1>1. Cardinality(a..n) = n - a + 1
    BY FS_Interval
  <1>2. \A i \in a..n : Cardinality({j \in a..n : j <= i}) = i - a + 1
    <2> SUFFICES ASSUME NEW i \in a..n PROVE Cardinality({j \in a..n : j <= i}) = i - a + 1
      OBVIOUS
    <2>1. {j \in a..n : j <= i} = a..i
      OBVIOUS
    <2>2. Cardinality(a..i) = i - a + 1
      BY FS_Interval
    <2> QED
      BY <2>1, <2>2
  <1>3. ASSUME NEW k \in 1..(n - a + 1)
        PROVE  (CHOOSE i \in a..n : Cardinality({j \in a..n : j <= i}) = k) = a + k - 1
    <2> DEFINE P(i) == Cardinality({j \in a..n : j <= i}) = k
    <2>1. a + k - 1 \in a..n /\ P(a + k - 1)
      <3>1. a + k - 1 \in a..n
        OBVIOUS
      <3>2. Cardinality({j \in a..n : j <= a + k - 1}) = (a + k - 1) - a + 1
        BY <1>2, <3>1
      <3>3. (a + k - 1) - a + 1 = k
        OBVIOUS
      <3> QED
        BY <3>1, <3>2, <3>3
    <2>2. \A i \in a..n : P(i) => i = a + k - 1
      <3> SUFFICES ASSUME NEW i \in a..n, P(i) PROVE i = a + k - 1
        OBVIOUS
      <3>1. i - a + 1 = k
        BY <1>2
      <3> QED
        BY <3>1
    <2> HIDE DEF P
    <2>3. (CHOOSE i \in a..n : P(i)) = a + k - 1
      BY <2>1, <2>2
    <2> QED
      BY <2>3 DEF P
  <1> QED
    BY <1>1, <1>3

\* The entries at places up to the last, in one piece.
LEMMA EntriesInOnePiece ==
  ASSUME NEW s, NEW n \in Nat, NEW a \in 1..n
  PROVE  EntriesAt(s, a..n) = [k \in 1..(n - a + 1) |-> s[a + k - 1]]
  <1> DEFINE At(k) == CHOOSE i \in a..n : Cardinality({j \in a..n : j <= i}) = k
             size == Cardinality(a..n)
  <1>1. size = n - a + 1 /\ \A k \in 1..(n - a + 1) : At(k) = a + k - 1
    BY PlacesCounted
  <1>2. EntriesAt(s, a..n) = [k \in 1..size |-> s[At(k)]]
    BY Zenon DEF EntriesAt
  <1> HIDE DEF At, size
  <1> QED
    BY <1>1, <1>2

\* The rows a page is sent are the newest ones after the tick it has, in one piece.
LEMMA RecentShape ==
  ASSUME NEW s \in Seq(Entry), Ascending(s), NEW after \in Nat
  PROVE  /\ Recent(s, after) \in Seq(Entry)
         /\ \A i \in 1..Len(Recent(s, after)) :
              \E j \in 1..Len(s) : Recent(s, after)[i] = s[j]
         /\ Len(Recent(s, after)) = 0 => \A j \in 1..Len(s) : s[j].tick <= after
         /\ Len(Recent(s, after)) > 0 =>
              \A j \in 1..Len(s) : s[j].tick >= Recent(s, after)[1].tick =>
                \E i \in 1..Len(Recent(s, after)) : Recent(s, after)[i] = s[j]
  <1> DEFINE n == Len(s)
             limit == IF after = 0 THEN First ELSE Backlog
             newer == {i \in DOMAIN s : s[i].tick > after}
             most == {i \in newer : Cardinality({j \in newer : j > i}) < limit}
             r == EntriesAt(s, most)
  <1>1. Recent(s, after) = r
    BY Zenon DEF Recent
  <1>2. /\ n \in Nat /\ limit \in Nat /\ limit >= 1
        /\ \A i \in 1..n : s[i] \in Entry /\ s[i].tick \in Nat
    BY SizeAssumption, EntryFields
  <1>3. newer \subseteq 1..n /\ \A i \in 1..n : i \in newer <=> s[i].tick > after
    OBVIOUS
  <1> HIDE DEF limit, newer
  <1>4. most \subseteq newer
    OBVIOUS
  <1>5. IsFiniteSet(newer) /\ \A i : IsFiniteSet({j \in newer : j > i})
    <2>1. IsFiniteSet(1..n)
      BY <1>2, FS_Interval
    <2>2. IsFiniteSet(newer)
      BY <1>3, <2>1, FS_Subset
    <2> QED
      BY <2>2, FS_Subset
  <1>6. ASSUME NEW i \in most, NEW j \in 1..n, i < j PROVE j \in most
    <2>1. j \in newer
      BY <1>2, <1>3, <1>4, <1>6 DEF Ascending
    <2> DEFINE A == {x \in newer : x > j}
               B == {x \in newer : x > i}
    <2>2. A \subseteq B
      BY <1>2, <1>3, <1>4, <1>6
    <2>3. IsFiniteSet(A) /\ IsFiniteSet(B)
      BY <1>5
    <2>4. Cardinality(B) < limit
      BY <1>6
    <2> HIDE DEF A, B
    <2>5. Cardinality(A) <= Cardinality(B) /\ Cardinality(A) \in Nat /\ Cardinality(B) \in Nat
      BY <2>2, <2>3, FS_Subset, FS_CardinalityType
    <2>6. Cardinality(A) < limit
      BY <1>2, <2>4, <2>5
    <2> QED
      BY <2>1, <2>6 DEF A
  <1>7. CASE newer = {}
    <2>1. most = {} /\ Cardinality(most) = 0
      BY <1>4, <1>7, FS_EmptySet
    <2> DEFINE At(k) == CHOOSE i \in most : Cardinality({j \in most : j <= i}) = k
               size == Cardinality(most)
    <2>2. r = [k \in 1..size |-> s[At(k)]]
      BY Zenon DEF EntriesAt
    <2>3. size = 0
      BY <2>1
    <2> HIDE DEF size, At, r, most
    <2>4. r \in Seq(Entry) /\ Len(r) = 0
      BY <2>2, <2>3
    <2>5. \A j \in 1..n : s[j].tick <= after
      BY <1>2, <1>3, <1>7
    <2> HIDE DEF n
    <2>6. /\ \A i \in 1..Len(r) : FALSE
          /\ ~(Len(r) > 0)
      BY <2>4
    <2> QED
      BY <1>1, <2>4, <2>5, <2>6, Zenon DEF n
  <1>8. CASE newer # {}
    <2>1. PICK b \in newer : \A x \in newer : x <= b
      <3>1. newer \in SUBSET (0..n)
        BY <1>2, <1>3
      <3> QED
        BY <1>2, <1>8, <3>1, GreatestFound
    <2>2. b \in most
      <3>0. newer \subseteq Nat
        BY <1>2, <1>3
      <3>1. {j \in newer : j > b} = {}
        <4>1. \A j \in newer : ~(j > b)
          BY <2>1, <3>0
        <4> QED
          BY <4>1
      <3>2. Cardinality({j \in newer : j > b}) = 0
        BY <3>1, FS_EmptySet
      <3> QED
        BY <1>2, <2>1, <3>2
    <2>3. PICK a \in most : \A x \in most : a <= x
      <3> HIDE DEF most
      <3>1. most \in SUBSET Nat /\ most # {}
        BY <1>2, <1>3, <1>4, <2>2
      <3> QED
        BY <3>1, LeastFound
    <2>4. a \in 1..n
      BY <1>3, <1>4, <2>3
    <2>5. most = a..n
      <3>1. \A x \in most : x \in a..n
        BY <1>2, <1>3, <1>4, <2>3, <2>4
      <3>2. \A x \in a..n : x \in most
        <4> SUFFICES ASSUME NEW x \in a..n PROVE x \in most
          OBVIOUS
        <4>1. x = a \/ (a < x /\ x \in 1..n)
          BY <1>2, <2>4
        <4> QED
          BY <1>6, <2>3, <4>1
      <3> HIDE DEF most
      <3> QED
        BY <3>1, <3>2
    <2> HIDE DEF most
    <2>6. r = [k \in 1..(n - a + 1) |-> s[a + k - 1]]
      <3>1. r = EntriesAt(s, a..n)
        BY <2>5, Zenon
      <3> HIDE DEF r
      <3> QED
        BY <1>2, <2>4, <3>1, EntriesInOnePiece
    <2> HIDE DEF r
    <2>7. \A k \in 1..(n - a + 1) : a + k - 1 \in 1..n
      BY <1>2, <2>4
    <2>8. r \in Seq(Entry) /\ Len(r) = n - a + 1 /\ Len(r) > 0
      <3> DEFINE m == n - a + 1
      <3>1. m \in Nat /\ m > 0
        BY <1>2, <2>4
      <3>2. \A k \in 1..m : s[a + k - 1] \in Entry
        BY <2>7
      <3>3. r = [k \in 1..m |-> s[a + k - 1]]
        BY <2>6
      <3> HIDE DEF m
      <3>4. r \in Seq(Entry) /\ Len(r) = m
        BY <3>1, <3>2, <3>3
      <3> QED
        BY <3>1, <3>4 DEF m
    <2>9. \A i \in 1..Len(r) : \E j \in 1..n : r[i] = s[j]
      <3> SUFFICES ASSUME NEW i \in 1..Len(r) PROVE \E j \in 1..n : r[i] = s[j]
        OBVIOUS
      <3>1. i \in 1..(n - a + 1)
        BY <2>8
      <3>2. r[i] = s[a + i - 1]
        BY <2>6, <3>1
      <3> QED
        BY <2>7, <3>1, <3>2
    <2>10. r[1] = s[a]
      BY <1>2, <2>4, <2>6
    <2>11. ASSUME NEW j \in 1..n, s[j].tick >= r[1].tick
           PROVE  \E i \in 1..Len(r) : r[i] = s[j]
      <3>1. a <= j
        <4>1. CASE j < a
          <5>1. s[j].tick < s[a].tick
            BY <2>4, <4>1 DEF Ascending
          <5> QED
            BY <1>2, <2>4, <2>10, <2>11, <5>1
        <4> QED
          BY <2>4, <4>1
      <3>2. j - a + 1 \in 1..Len(r) /\ a + (j - a + 1) - 1 = j
        BY <1>2, <2>4, <2>8, <3>1
      <3>3. r[j - a + 1] = s[j]
        BY <2>6, <2>8, <3>2
      <3> QED
        BY <3>2, <3>3
    <2> QED
      BY <1>1, <2>8, <2>9, <2>11
  <1> QED
    BY <1>7, <1>8

PageStates ==
  [pc : {"off", "open", "live"}, sub : BOOLEAN, after : 0..MaxTick, back : Seq(Ticks),
   q : Seq(Ticks), floor : 0..MaxTick + 1, got : SUBSET Ticks, last : 0..MaxTick,
   id : 0..MaxTick]

\* The page has the tick or will get it.
Owed(pg, t) ==
  \/ t \in pg.got
  \/ \E i \in 1..Len(pg.back) : pg.back[i] = t
  \/ \E i \in 1..Len(pg.q) : pg.q[i] = t

\* The stream leaves out nothing of the ring from its first tick on.
Between(pg, buf) ==
  pg.pc = "live" /\ pg.sub =>
    \A i \in 1..Len(buf) : buf[i].tick >= pg.floor => Owed(pg, buf[i].tick)

PageTypes ==
  /\ page \in [Pages -> PageStates]
  /\ \A p \in Pages : Len(page[p].q) <= QueueSize

PagesInv == PageTypes /\ \A p \in Pages : Between(page[p], buffer)

LEMMA PageTyping ==
  ASSUME NEW g \in PageStates
  PROVE  /\ g.pc \in {"off", "open", "live"} /\ g.sub \in BOOLEAN
         /\ g.back \in Seq(Ticks) /\ g.q \in Seq(Ticks)
         /\ g.after \in 0..MaxTick /\ g.floor \in 0..MaxTick + 1 /\ g.got \in SUBSET Ticks
         /\ g.last \in 0..MaxTick /\ g.id \in 0..MaxTick
  BY Zenon DEF PageStates

\* No queue got longer.
NoLonger == \A p \in Pages : Len(page'[p].q) <= Len(page[p].q)

LEMMA QueueLengths ==
  ASSUME PagesInv
  PROVE  /\ QueueSize \in Nat
         /\ \A p \in Pages : Len(page[p].q) \in Nat /\ Len(page[p].q) <= QueueSize
  <1>1. \A p \in Pages : page[p].q \in Seq(Ticks) /\ Len(page[p].q) <= QueueSize
    BY PageTyping DEF PagesInv, PageTypes
  <1> QED
    BY <1>1, SizeAssumption

\* One page moves; the ring stays or starts again empty.
LEMMA PageMoves ==
  ASSUME PagesInv, NEW p \in Pages, NEW g \in PageStates, page' = [page EXCEPT ![p] = g],
         Len(g.q) <= Len(page[p].q), Between(g, buffer),
         buffer' = buffer \/ Len(buffer') = 0
  PROVE  PagesInv' /\ NoLonger
  <1>1. /\ page' \in [Pages -> PageStates]
        /\ \A x \in Pages : page'[x] = IF x = p THEN g ELSE page[x]
    BY DEF PagesInv, PageTypes
  <1>2. /\ NoLonger
        /\ \A x \in Pages : Len(page'[x].q) <= QueueSize
    <2>1. g.q \in Seq(Ticks) /\ Len(g.q) \in Nat
      BY PageTyping
    <2> QED
      BY <1>1, <2>1, QueueLengths DEF NoLonger
  <1>3. ASSUME NEW x \in Pages PROVE Between(page'[x], buffer')
    <2>1. Between(page'[x], buffer)
      BY <1>1 DEF PagesInv
    <2>2. CASE buffer' = buffer
      BY <2>1, <2>2
    <2>3. CASE Len(buffer') = 0
      <3>1. \A i \in 1..Len(buffer') : FALSE
        BY <2>3
      <3> QED
        BY <3>1 DEF Between
    <2> QED
      BY <2>2, <2>3
  <1> QED
    BY <1>1, <1>2, <1>3 DEF PagesInv, PageTypes

LEMMA ConnectKeeps ==
  ASSUME RingInv, PagesInv, NEW p \in Pages, Connect(p)
  PROVE  PagesInv' /\ NoLonger
  <1>1. PICK after \in {page[p].id, page[p].last} :
          page' = [page EXCEPT ![p] = [@ EXCEPT !.pc = "open", !.sub = TRUE,
                                                !.after = after, !.id = after]]
    BY DEF Connect
  <1> DEFINE h == page[p]
             g == [h EXCEPT !.pc = "open", !.sub = TRUE, !.after = after, !.id = after]
  <1>2. h \in PageStates
    BY DEF PagesInv, PageTypes
  <1>3. page' = [page EXCEPT ![p] = g]
    BY <1>1, Zenon DEF PagesInv, PageTypes
  <1>4. after \in 0..MaxTick
    BY <1>2, PageTyping
  <1> HIDE DEF h
  <1>5. g \in PageStates
    BY <1>2, <1>4, Zenon DEF PageStates
  <1>6. g.q = h.q /\ g.pc = "open"
    BY <1>2, Zenon DEF PageStates
  <1> HIDE DEF g
  <1>7. Between(g, buffer)
    BY <1>6 DEF Between
  <1>8. buffer' = buffer \/ Len(buffer') = 0
    BY DEF Connect, EnsureRunning
  <1>9. Len(g.q) <= Len(page[p].q)
    BY <1>6, QueueLengths DEF h
  <1> QED
    BY <1>3, <1>5, <1>7, <1>8, <1>9, PageMoves

LEMMA CloseKeeps ==
  ASSUME RingInv, PagesInv, NEW p \in Pages, Close(p)
  PROVE  PagesInv' /\ NoLonger
  <1> DEFINE h == page[p]
             g == [h EXCEPT !.pc = "off", !.sub = FALSE, !.back = <<>>, !.q = <<>>]
  <1>1. page' = [page EXCEPT ![p] = g]
    BY Zenon DEF Close, PagesInv, PageTypes
  <1>2. h \in PageStates
    BY DEF PagesInv, PageTypes
  <1> HIDE DEF h
  <1>3. <<>> \in Seq(Ticks)
    OBVIOUS
  <1>4. g \in PageStates
    BY <1>2, <1>3, Zenon DEF PageStates
  <1>5. g.q = <<>> /\ g.pc = "off"
    BY <1>2, Zenon DEF PageStates
  <1> HIDE DEF g
  <1>6. Between(g, buffer)
    BY <1>5 DEF Between
  <1>7. buffer' = buffer
    BY DEF Close, hub
  <1>8. Len(g.q) <= Len(page[p].q)
    BY <1>5, QueueLengths
  <1> QED
    BY <1>1, <1>4, <1>6, <1>7, <1>8, PageMoves

\* What the page gets with the next event.
LEMMA SeeShape ==
  ASSUME NEW h \in PageStates, NEW t \in Ticks
  PROVE  /\ See(h, t) \in PageStates
         /\ See(h, t).pc = h.pc /\ See(h, t).sub = h.sub /\ See(h, t).floor = h.floor
         /\ See(h, t).back = h.back /\ See(h, t).q = h.q
         /\ See(h, t).got = h.got \cup {t}
  <1> DEFINE got == h.got \cup {t}
             last == IF t > h.last THEN t ELSE h.last
             g == [h EXCEPT !.got = got, !.last = last, !.id = t]
  <1>1. See(h, t) = g
    BY Zenon DEF See
  <1>2. t \in 0..MaxTick /\ last \in 0..MaxTick
    BY PageTyping, SizeAssumption DEF Ticks
  <1>3. got \in SUBSET Ticks
    BY PageTyping
  <1> HIDE DEF last
  <1>4. g \in PageStates
    BY <1>2, <1>3, Zenon DEF PageStates
  <1>5. /\ g.pc = h.pc /\ g.sub = h.sub /\ g.floor = h.floor
        /\ g.back = h.back /\ g.q = h.q /\ g.got = h.got \cup {t}
    BY Zenon DEF PageStates
  <1> QED
    BY <1>1, <1>4, <1>5, Zenon

\* A tick at the front of what waits, handed over, leaves nothing owed behind.
LEMMA HandedOver ==
  ASSUME NEW S, NEW s \in Seq(S), s # <<>>
  PROVE  /\ Head(s) \in S /\ Tail(s) \in Seq(S) /\ Len(Tail(s)) <= Len(s)
         /\ \A t : (\E i \in 1..Len(s) : s[i] = t) =>
              t = Head(s) \/ \E i \in 1..Len(Tail(s)) : Tail(s)[i] = t
  <1>1. Len(s) \in Nat /\ Len(s) > 0 /\ Len(Tail(s)) = Len(s) - 1
    OBVIOUS
  <1>2. Head(s) \in S /\ Tail(s) \in Seq(S)
    OBVIOUS
  <1>3. ASSUME NEW t, NEW i \in 1..Len(s), s[i] = t
        PROVE  t = Head(s) \/ \E j \in 1..Len(Tail(s)) : Tail(s)[j] = t
    <2>1. CASE i = 1
      BY <1>3, <2>1
    <2>2. CASE i # 1
      <3>1. i - 1 \in 1..Len(Tail(s)) /\ Tail(s)[i - 1] = s[i]
        BY <1>1, <2>2
      <3> QED
        BY <1>3, <3>1
    <2> QED
      BY <2>1, <2>2
  <1> QED
    BY <1>1, <1>2, <1>3

LEMMA SendKeeps ==
  ASSUME RingInv, PagesInv, NEW p \in Pages, Send(p)
  PROVE  PagesInv' /\ NoLonger
  <1> DEFINE h == page[p]
  <1>1. h \in PageStates /\ Between(h, buffer)
    BY DEF PagesInv, PageTypes
  <1>2. h.back \in Seq(Ticks) /\ h.q \in Seq(Ticks)
    BY <1>1, PageTyping
  <1>3. ASSUME NEW g \in PageStates, Len(g.q) <= Len(h.q), page' = [page EXCEPT ![p] = g],
               g.pc = h.pc, g.sub = h.sub, g.floor = h.floor,
               \A t \in Ticks : Owed(h, t) => Owed(g, t)
        PROVE  PagesInv' /\ NoLonger
    <2>1. Between(g, buffer)
      BY <1>1, <1>3, EntryFields DEF Between, RingInv, RingTypes
    <2>2. buffer' = buffer
      BY DEF Send, hub
    <2> QED
      BY <1>3, <2>1, <2>2, PageMoves
  <1>4. CASE /\ h.back # <<>>
             /\ page' = [page EXCEPT ![p] = See([@ EXCEPT !.back = Tail(h.back)], Head(h.back))]
    <2> DEFINE m == [h EXCEPT !.back = Tail(h.back)]
               g == See(m, Head(h.back))
    <2>1. page' = [page EXCEPT ![p] = g]
      BY <1>4, Zenon DEF PagesInv, PageTypes
    <2>2. /\ Head(h.back) \in Ticks /\ Tail(h.back) \in Seq(Ticks)
          /\ \A t : (\E i \in 1..Len(h.back) : h.back[i] = t) =>
               t = Head(h.back) \/ \E i \in 1..Len(Tail(h.back)) : Tail(h.back)[i] = t
      BY <1>2, <1>4, HandedOver
    <2> HIDE DEF h
    <2>3. m \in PageStates
      BY <1>1, <2>2, Zenon DEF PageStates
    <2>4. /\ m.pc = h.pc /\ m.sub = h.sub /\ m.floor = h.floor
          /\ m.back = Tail(h.back) /\ m.q = h.q /\ m.got = h.got
      BY <1>1, Zenon DEF PageStates
    <2> HIDE DEF m
    <2>5. /\ g \in PageStates
          /\ g.pc = m.pc /\ g.sub = m.sub /\ g.floor = m.floor
          /\ g.back = m.back /\ g.q = m.q /\ g.got = m.got \cup {Head(h.back)}
      BY <2>2, <2>3, SeeShape
    <2> HIDE DEF g
    <2>6. \A t \in Ticks : Owed(h, t) => Owed(g, t)
      BY <2>2, <2>4, <2>5 DEF Owed
    <2>7. Len(g.q) <= Len(h.q)
      BY <1>2, <2>4, <2>5
    <2> QED
      BY <1>3, <2>1, <2>4, <2>5, <2>6, <2>7
  <1>5. CASE /\ h.back = <<>> /\ h.q # <<>>
             /\ page' = [page EXCEPT ![p] = See([@ EXCEPT !.q = Tail(h.q)], Head(h.q))]
    <2> DEFINE m == [h EXCEPT !.q = Tail(h.q)]
               g == See(m, Head(h.q))
    <2>1. page' = [page EXCEPT ![p] = g]
      BY <1>5, Zenon DEF PagesInv, PageTypes
    <2>2. /\ Head(h.q) \in Ticks /\ Tail(h.q) \in Seq(Ticks) /\ Len(Tail(h.q)) <= Len(h.q)
          /\ \A t : (\E i \in 1..Len(h.q) : h.q[i] = t) =>
               t = Head(h.q) \/ \E i \in 1..Len(Tail(h.q)) : Tail(h.q)[i] = t
      BY <1>2, <1>5, HandedOver
    <2> HIDE DEF h
    <2>3. m \in PageStates
      BY <1>1, <2>2, Zenon DEF PageStates
    <2>4. /\ m.pc = h.pc /\ m.sub = h.sub /\ m.floor = h.floor
          /\ m.back = h.back /\ m.q = Tail(h.q) /\ m.got = h.got
      BY <1>1, Zenon DEF PageStates
    <2> HIDE DEF m
    <2>5. /\ g \in PageStates
          /\ g.pc = m.pc /\ g.sub = m.sub /\ g.floor = m.floor
          /\ g.back = m.back /\ g.q = m.q /\ g.got = m.got \cup {Head(h.q)}
      BY <2>2, <2>3, SeeShape
    <2> HIDE DEF g
    <2>6. \A t \in Ticks : Owed(h, t) => Owed(g, t)
      BY <2>2, <2>4, <2>5 DEF Owed
    <2>7. Len(g.q) <= Len(h.q)
      BY <2>2, <2>4, <2>5
    <2> QED
      BY <1>3, <2>1, <2>4, <2>5, <2>6, <2>7
  <1> QED
    BY <1>4, <1>5 DEF Send

LEMMA ReadBacklogKeeps ==
  ASSUME RingInv, PagesInv, NEW p \in Pages, ReadBacklog(p)
  PROVE  PagesInv' /\ NoLonger
  <1> DEFINE h    == page[p]
             rows == Recent(buffer, h.after)
             back == [i \in DOMAIN rows |-> rows[i].tick]
             floor == IF rows = <<>> THEN h.after + 1 ELSE rows[1].tick
             g == [h EXCEPT !.pc = "live", !.back = back, !.floor = floor]
  <1>1. page' = [page EXCEPT ![p] = g]
    BY Zenon DEF ReadBacklog, PagesInv, PageTypes
  <1>2. h \in PageStates
    BY DEF PagesInv, PageTypes
  <1>3. /\ h.after \in 0..MaxTick /\ h.after \in Nat /\ MaxTick \in Nat
        /\ buffer \in Seq(Entry) /\ Ascending(buffer)
        /\ \A i \in 1..Len(buffer) : buffer[i].tick \in Ticks /\ buffer[i].tick \in Nat
    <2>1. h.after \in 0..MaxTick /\ MaxTick \in Nat
      BY <1>2, PageTyping, SizeAssumption
    <2>2. buffer \in Seq(Entry) /\ Ascending(buffer)
      BY DEF RingInv, RingTypes, RingOrder
    <2> QED
      BY <2>1, <2>2, EntryFields
  <1> HIDE DEF h
  <1>4. /\ rows \in Seq(Entry)
        /\ Len(rows) = 0 => \A j \in 1..Len(buffer) : buffer[j].tick <= h.after
        /\ Len(rows) > 0 =>
             \A j \in 1..Len(buffer) : buffer[j].tick >= rows[1].tick =>
               \E i \in 1..Len(rows) : rows[i] = buffer[j]
    BY <1>3, RecentShape
  <1> HIDE DEF rows
  <1>5. \A i \in 1..Len(rows) : rows[i].tick \in Ticks
    BY <1>4, EntryFields
  <1>6. back \in Seq(Ticks) /\ Len(back) = Len(rows) /\ \A i \in 1..Len(rows) : back[i] = rows[i].tick
    BY <1>4, <1>5
  <1>7. rows = <<>> \/ Len(rows) > 0
    BY <1>4
  <1>8. floor \in 0..MaxTick + 1
    <2>1. CASE rows = <<>>
      BY <1>3, <2>1
    <2>2. CASE rows # <<>>
      <3>1. rows[1].tick \in Ticks
        BY <1>4, <1>5, <1>7, <2>2
      <3> QED
        BY <1>3, <2>2, <3>1 DEF Ticks
    <2> QED
      BY <2>1, <2>2
  <1> HIDE DEF back
  <1>9. ASSUME NEW j \in 1..Len(buffer), buffer[j].tick >= floor
        PROVE  \E i \in 1..Len(back) : back[i] = buffer[j].tick
    <2>1. CASE rows = <<>>
      <3>1. buffer[j].tick <= h.after
        BY <1>4, <2>1
      <3> QED
        BY <1>3, <1>9, <2>1, <3>1
    <2>2. CASE rows # <<>>
      <3>1. PICK i \in 1..Len(rows) : rows[i] = buffer[j]
        BY <1>4, <1>7, <1>9, <2>2
      <3> QED
        BY <1>6, <3>1
    <2> QED
      BY <2>1, <2>2
  <1> HIDE DEF floor
  <1>10. g \in PageStates
    BY <1>2, <1>6, <1>8, Zenon DEF PageStates
  <1>11. g.q = h.q /\ g.back = back /\ g.floor = floor
    BY <1>2, Zenon DEF PageStates
  <1> HIDE DEF g
  <1>12. Between(g, buffer)
    BY <1>9, <1>11 DEF Between, Owed
  <1>13. buffer' = buffer
    BY DEF ReadBacklog, hub
  <1>14. Len(g.q) <= Len(page[p].q)
    BY <1>11, QueueLengths DEF h
  <1> QED
    BY <1>1, <1>10, <1>12, <1>13, <1>14, PageMoves

LEMMA PollKeeps ==
  ASSUME RingInv, RingInv', PagesInv, NEW p \in Pages, Poll(p)
  PROVE  PagesInv' /\ NoLonger
  <1> DEFINE h    == page[p]
             rows == Recent(buffer', h.last)
             new  == TicksOf(rows)
             all  == h.got \cup new
             last == IF new = {} THEN h.last ELSE NewestOf(buffer')
             g    == [h EXCEPT !.got = all, !.last = last]
  <1>1. page' = [page EXCEPT ![p] = g]
    BY Zenon DEF Poll, PagesInv, PageTypes
  <1>2. h \in PageStates /\ h.pc = "off"
    BY DEF Poll, PagesInv, PageTypes
  <1>3. /\ h.last \in 0..MaxTick /\ h.last \in Nat /\ h.got \subseteq Ticks
        /\ buffer' \in Seq(Entry) /\ Ascending(buffer')
    <2>1. h.last \in 0..MaxTick /\ h.got \subseteq Ticks
      BY <1>2, PageTyping
    <2>2. buffer' \in Seq(Entry) /\ Ascending(buffer)'
      BY DEF RingInv, RingTypes, RingOrder
    <2> QED
      BY <2>1, <2>2 DEF Ascending
  <1> HIDE DEF h
  <1>4. /\ rows \in Seq(Entry)
        /\ \A i \in 1..Len(rows) : \E j \in 1..Len(buffer') : rows[i] = buffer'[j]
    BY <1>3, RecentShape
  <1> HIDE DEF rows
  <1>5. \A t \in new : t \in Ticks
    BY <1>4, InTicksOf, EntryFields
  <1>6. last \in 0..MaxTick
    <2>1. CASE new = {}
      BY <1>3, <2>1
    <2>2. CASE new # {}
      <3>1. PICK t \in new : TRUE
        BY <2>2
      <3>2. PICK i \in 1..Len(rows) : rows[i].tick = t
        BY <1>4, <3>1, InTicksOf
      <3>3. Len(buffer') \in 1..Len(buffer')
        BY <1>3, <1>4, <3>2
      <3>4. buffer'[Len(buffer')].tick \in Ticks
        BY <1>3, <3>3, EntryFields
      <3> HIDE DEF new
      <3> QED
        BY <2>2, <3>4, SizeAssumption DEF NewestOf, Ticks
    <2> QED
      BY <2>1, <2>2
  <1>7. all \in SUBSET Ticks
    BY <1>3, <1>5
  <1> HIDE DEF all, last
  <1>8. g \in PageStates
    BY <1>2, <1>6, <1>7, Zenon DEF PageStates
  <1>9. g.q = h.q /\ g.pc = h.pc
    BY <1>2, Zenon DEF PageStates
  <1> HIDE DEF g
  <1>10. Between(g, buffer)
    BY <1>2, <1>9 DEF Between
  <1>11. buffer' = buffer \/ Len(buffer') = 0
    BY DEF Poll, EnsureRunning
  <1>12. Len(g.q) <= Len(page[p].q)
    BY <1>9, QueueLengths DEF h
  <1> QED
    BY <1>1, <1>8, <1>10, <1>11, <1>12, PageMoves

\* What the stream of one page gets with a tick: it is queued, or the stream is
\* dropped, or it was not subscribed.
Handed(h, t) ==
  IF ~h.sub THEN h
  ELSE IF Len(h.q) < QueueSize THEN [h EXCEPT !.q = Append(h.q, t)]
  ELSE [h EXCEPT !.sub = FALSE]

LEMMA HandedShape ==
  ASSUME NEW h \in PageStates, Len(h.q) <= QueueSize, NEW t \in Ticks
  PROVE  /\ Handed(h, t) \in PageStates
         /\ Len(Handed(h, t).q) <= QueueSize
         /\ Handed(h, t).pc = h.pc /\ Handed(h, t).floor = h.floor
         /\ Handed(h, t).sub => h.sub /\ Owed(Handed(h, t), t)
         /\ \A u : Owed(h, u) => Owed(Handed(h, t), u)
         /\ \/ Handed(h, t).q = h.q
            \/ Handed(h, t).q = Append(h.q, t)
  <1>1. h.q \in Seq(Ticks) /\ Append(h.q, t) \in Seq(Ticks) /\ QueueSize \in Nat
    BY PageTyping, SizeAssumption
  <1>2. CASE ~h.sub
    <2>1. Handed(h, t) = h
      BY <1>2, Zenon DEF Handed
    <2> QED
      BY <1>2, <2>1
  <1>3. CASE h.sub /\ Len(h.q) < QueueSize
    <2> DEFINE g == [h EXCEPT !.q = Append(h.q, t)]
    <2>1. Handed(h, t) = g
      BY <1>3, Zenon DEF Handed
    <2>2. g \in PageStates
      BY <1>1, Zenon DEF PageStates
    <2>3. /\ g.pc = h.pc /\ g.floor = h.floor /\ g.sub = h.sub
          /\ g.back = h.back /\ g.got = h.got /\ g.q = Append(h.q, t)
      BY Zenon DEF PageStates
    <2> HIDE DEF g
    <2>4. /\ Len(g.q) = Len(h.q) + 1 /\ g.q[Len(g.q)] = t
          /\ \A i \in 1..Len(h.q) : g.q[i] = h.q[i]
      BY <1>1, <2>3
    <2>5. /\ Len(g.q) <= QueueSize
          /\ Len(g.q) \in 1..Len(g.q)
          /\ \A i \in 1..Len(h.q) : i \in 1..Len(g.q)
      BY <1>1, <1>3, <2>4
    <2>6. Owed(g, t)
      BY <2>4, <2>5 DEF Owed
    <2>7. ASSUME NEW u, Owed(h, u) PROVE Owed(g, u)
      BY <2>3, <2>4, <2>5, <2>7 DEF Owed
    <2> QED
      BY <1>3, <2>1, <2>2, <2>3, <2>5, <2>6, <2>7
  <1>4. CASE h.sub /\ ~(Len(h.q) < QueueSize)
    <2> DEFINE g == [h EXCEPT !.sub = FALSE]
    <2>1. Handed(h, t) = g
      BY <1>4, Zenon DEF Handed
    <2>2. g \in PageStates
      BY Zenon DEF PageStates
    <2>3. /\ g.pc = h.pc /\ g.floor = h.floor /\ g.sub = FALSE
          /\ g.back = h.back /\ g.got = h.got /\ g.q = h.q
      BY Zenon DEF PageStates
    <2> HIDE DEF g
    <2>4. ASSUME NEW u, Owed(h, u) PROVE Owed(g, u)
      BY <2>3, <2>4 DEF Owed
    <2> QED
      BY <2>1, <2>2, <2>3, <2>4
  <1>5. h.sub \in BOOLEAN
    BY PageTyping
  <1> QED
    BY <1>2, <1>3, <1>4, <1>5

LEMMA FanShape ==
  ASSUME PagesInv, NEW t \in Ticks, Fan(t)
  PROVE  /\ page' \in [Pages -> PageStates]
         /\ \A p \in Pages : page'[p] = Handed(page[p], t)
  <1>1. \A p \in Pages : page[p] \in PageStates /\ Len(page[p].q) <= QueueSize
    BY DEF PagesInv, PageTypes
  <1>2. \A p \in Pages : Handed(page[p], t) \in PageStates
    BY <1>1, HandedShape
  <1>3. page' = [p \in Pages |-> Handed(page[p], t)]
    BY Zenon DEF Fan, Handed
  <1> QED
    BY <1>2, <1>3

\* A tick that comes in: each stream has it in its queue, or was dropped.
LEMMA ReceivePages ==
  ASSUME RingInv, RingInv', PagesInv, Receive
  PROVE  PagesInv'
  <1>1. PICK e \in Entry : /\ e.tick >= head - MaxLate /\ e.tick <= head
                           /\ Accept(e) \/ Upgrade(e)
    BY ReceivedIsRecent
  <1>2. e.tick \in Ticks
    BY DEF Entry
  <1>3. CASE Accept(e)
    <2>1. /\ page' \in [Pages -> PageStates]
          /\ \A p \in Pages : page'[p] = Handed(page[p], e.tick)
      BY <1>2, <1>3, FanShape DEF Accept
    <2>2. \A i \in 1..Len(buffer') :
            buffer'[i] = e \/ \E j \in 1..Len(buffer) : buffer'[i] = buffer[j]
      BY <1>1, <1>3, AcceptBuffer
    <2>3. ASSUME NEW p \in Pages
          PROVE  Len(page'[p].q) <= QueueSize /\ Between(page'[p], buffer')
      <3> DEFINE h == page[p]
                 g == Handed(h, e.tick)
      <3>1. page'[p] = g
        BY <2>1
      <3>2. h \in PageStates /\ Len(h.q) <= QueueSize /\ Between(h, buffer)
        BY DEF PagesInv, PageTypes
      <3> HIDE DEF h
      <3>3. /\ Len(g.q) <= QueueSize /\ g.pc = h.pc /\ g.floor = h.floor
            /\ g.sub => h.sub /\ Owed(g, e.tick)
            /\ \A u : Owed(h, u) => Owed(g, u)
        BY <1>2, <3>2, HandedShape
      <3> HIDE DEF g
      <3>4. Between(g, buffer')
        BY <2>2, <3>2, <3>3 DEF Between
      <3> QED
        BY <3>1, <3>3, <3>4
    <2> QED
      BY <2>1, <2>3 DEF PagesInv, PageTypes
  <1>4. CASE Upgrade(e)
    <2>1. page' = page /\ buffer' = Swap(buffer, e) /\ buffer \in Seq(Entry)
      BY <1>4 DEF Upgrade, RingInv, RingTypes
    <2>2. Len(buffer') = Len(buffer) /\ \A i \in 1..Len(buffer) : buffer'[i].tick = buffer[i].tick
      BY <2>1, SwapShape
    <2>3. \A p \in Pages : Between(page[p], buffer')
      BY <2>2 DEF PagesInv, Between
    <2> QED
      BY <2>1, <2>3 DEF PagesInv, PageTypes
  <1> QED
    BY <1>1, <1>3, <1>4

LEMMA PagesStart ==
  ASSUME Init
  PROVE  PagesInv
  <1>1. page = [p \in Pages |-> NewPage] /\ buffer = <<>>
    BY DEF Init
  <1>2. /\ 0 \in 0..MaxTick /\ 0 \in 0..MaxTick + 1
        /\ <<>> \in Seq(Ticks) /\ Len(<<>>) <= QueueSize
        /\ {} \in SUBSET Ticks
    BY SizeAssumption
  <1>3. NewPage \in PageStates
    BY <1>2 DEF NewPage, PageStates
  <1>4. NewPage.q = <<>> /\ NewPage.pc = "off"
    BY DEF NewPage
  <1>5. page \in [Pages -> PageStates] /\ \A p \in Pages : page[p] = NewPage
    BY <1>1, <1>3
  <1> QED
    BY <1>2, <1>4, <1>5 DEF PagesInv, PageTypes, Between

LEMMA PagesStep ==
  ASSUME RingInv, PagesInv, [Next]_vars
  PROVE  RingInv' /\ PagesInv'
  <1>1. RingInv'
    BY RingStep
  <1>2. ASSUME UNCHANGED <<page, buffer>> PROVE PagesInv'
    BY <1>2 DEF PagesInv, PageTypes
  <1>3. ASSUME (UNCHANGED vars) \/ NewTick \/ Idle PROVE PagesInv'
    BY <1>2, <1>3 DEF vars, NewTick, Idle, hub
  <1>4. ASSUME Receive PROVE PagesInv'
    BY <1>1, <1>4, ReceivePages
  <1>5. ASSUME NEW p \in Pages,
               Connect(p) \/ ReadBacklog(p) \/ Send(p) \/ Close(p) \/ Poll(p)
        PROVE  PagesInv'
    BY <1>1, <1>5, ConnectKeeps, ReadBacklogKeeps, SendKeeps, CloseKeeps, PollKeeps
  <1> QED
    BY <1>1, <1>3, <1>4, <1>5 DEF Next

\* A queue gets longer only with a tick that comes in for the first time.
LEMMA SentOnce ==
  ASSUME RingInv, PagesInv, [Next]_vars, NEW p \in Pages, Len(page'[p].q) > Len(page[p].q)
  PROVE  page'[p].q[Len(page'[p].q)] \notin accepted
  <1>1. Len(page[p].q) \in Nat /\ page[p] \in PageStates
    BY QueueLengths DEF PagesInv, PageTypes
  <1>2. ASSUME NoLonger PROVE FALSE
    <2>1. Len(page'[p].q) <= Len(page[p].q) /\ Len(page'[p].q) \in Nat
      <3>1. PagesInv'
        BY PagesStep
      <3>2. page'[p].q \in Seq(Ticks)
        BY <3>1, PageTyping DEF PagesInv, PageTypes
      <3> QED
        BY <1>2, <3>2 DEF NoLonger
    <2> QED
      BY <1>1, <2>1
  <1>3. ASSUME UNCHANGED page PROVE FALSE
    BY <1>1, <1>3
  <1>4. ASSUME (UNCHANGED vars) \/ NewTick \/ Idle PROVE FALSE
    BY <1>3, <1>4 DEF vars, NewTick, Idle
  <1>5. ASSUME NEW x \in Pages,
               Connect(x) \/ ReadBacklog(x) \/ Send(x) \/ Close(x) \/ Poll(x)
        PROVE  FALSE
    <2>1. RingInv'
      BY RingStep
    <2> QED
      BY <1>2, <1>5, <2>1, ConnectKeeps, ReadBacklogKeeps, SendKeeps, CloseKeeps, PollKeeps
  <1>6. Receive
    BY <1>4, <1>5 DEF Next
  <1>7. PICK e \in Entry : /\ e.tick >= head - MaxLate /\ e.tick <= head
                           /\ Accept(e) \/ Upgrade(e)
    BY <1>6, ReceivedIsRecent
  <1>8. Accept(e)
    BY <1>3, <1>7 DEF Upgrade
  <1>9. e.tick \notin accepted
    BY <1>7, <1>8, UnknownIsNew DEF Accept
  <1>10. e.tick \in Ticks
    BY DEF Entry
  <1>11. page'[p] = Handed(page[p], e.tick)
    BY <1>8, <1>10, FanShape DEF Accept
  <1>12. Handed(page[p], e.tick).q = page[p].q \/
         Handed(page[p], e.tick).q = Append(page[p].q, e.tick)
    BY <1>1, <1>10, QueueLengths, HandedShape
  <1>13. page'[p].q = Append(page[p].q, e.tick)
    BY <1>1, <1>11, <1>12
  <1>14. page[p].q \in Seq(Ticks)
    BY <1>1, PageTyping
  <1>15. page'[p].q[Len(page'[p].q)] = e.tick
    BY <1>10, <1>13, <1>14
  <1> QED
    BY <1>9, <1>15

\* Each stream is handed a tick once, however often upstream delivers it and
\* whatever the ring and its details have let go of (TickHub.ingest).
THEOREM SentOnlyOnce == Spec => NeverSentTwice
  <1> DEFINE Inv == RingInv /\ PagesInv
             Fresh == \A p \in Pages :
                        Len(page'[p].q) > Len(page[p].q) =>
                          page'[p].q[Len(page'[p].q)] \notin accepted
  <1>1. Init => Inv
    BY RingStart, PagesStart
  <1>2. Inv /\ [Next]_vars => Inv'
    BY RingStep, PagesStep
  <1>3. Inv /\ [Next]_vars => [Fresh]_vars
    BY SentOnce
  <1> HIDE DEF Inv, Fresh
  <1>4. Spec => [][Fresh]_vars
    BY <1>1, <1>2, <1>3, PTL DEF Spec
  <1>5. NeverSentTwice <=> [][Fresh]_vars
    BY DEF NeverSentTwice, Fresh
  <1> QED
    BY <1>4, <1>5

LEMMA OwedIsOwed ==
  ASSUME NEW h \in PageStates, NEW t, Owed(h, t)
  PROVE  t \in h.got \cup {h.back[i] : i \in DOMAIN h.back} \cup {h.q[i] : i \in DOMAIN h.q}
  <1>1. DOMAIN h.back = 1..Len(h.back) /\ DOMAIN h.q = 1..Len(h.q)
    BY PageTyping
  <1> QED
    BY <1>1 DEF Owed

\* Between subscribing, the backlog and the queue no tick is lost to a stream
\* that is still subscribed (server.py ticks_stream, TickHub.subscribe, recent).
THEOREM StreamsLoseNothing == Spec => []NothingFallsBetween
  <1> DEFINE Inv == RingInv /\ PagesInv
  <1>1. Init => Inv
    BY RingStart, PagesStart
  <1>2. Inv /\ [Next]_vars => Inv'
    BY RingStep, PagesStep
  <1>3. Inv => NothingFallsBetween
    <2> SUFFICES ASSUME RingInv, PagesInv, NEW p \in Pages, page[p].pc = "live", page[p].sub,
                        NEW t \in TicksOf(buffer), t >= page[p].floor
                 PROVE  t \in page[p].got
                              \cup {page[p].back[i] : i \in DOMAIN page[p].back}
                              \cup {page[p].q[i] : i \in DOMAIN page[p].q}
      BY DEF NothingFallsBetween
    <2>1. PICK i \in 1..Len(buffer) : buffer[i].tick = t
      BY InTicksOf DEF RingInv, RingTypes
    <2>2. page[p] \in PageStates /\ Owed(page[p], t)
      BY <2>1 DEF PagesInv, PageTypes, Between
    <2> QED
      BY <2>2, OwedIsOwed
  <1> HIDE DEF Inv
  <1> QED
    BY <1>1, <1>2, <1>3, PTL DEF Spec

LEMMA StreamTypes ==
  ASSUME RingInv, PagesInv
  PROVE  TypeOK
  <1>1. \A p \in Pages :
          /\ page[p].pc \in {"off", "open", "live"} /\ page[p].sub \in BOOLEAN
          /\ page[p].q \in Seq(Ticks) /\ Len(page[p].q) <= QueueSize
          /\ page[p].back \in Seq(Ticks) /\ page[p].got \subseteq Ticks
          /\ {page[p].after, page[p].last, page[p].id} \subseteq 0..MaxTick
          /\ page[p].floor \in 0..MaxTick + 1
    BY PageTyping DEF PagesInv, PageTypes
  <1> QED
    BY <1>1 DEF RingInv, RingTypes, TypeOK

\* The ring, its details and the pages keep their types: the queues and the ring
\* never grow past their bounds.
THEOREM StreamTypeCorrect == Spec => []TypeOK
  <1> DEFINE Inv == RingInv /\ PagesInv
  <1>1. Init => Inv
    BY RingStart, PagesStart
  <1>2. Inv /\ [Next]_vars => Inv'
    BY RingStep, PagesStep
  <1>3. Inv => TypeOK
    BY StreamTypes
  <1> HIDE DEF Inv
  <1> QED
    BY <1>1, <1>2, <1>3, PTL DEF Spec

-----------------------------------------------------------------------------
(* The two halves in one run. *)

\* While one half moves, the other stays as it began: every behaviour of the run
\* is one of the ring and one of the nodes.
THEOREM HalvesAreTheirOwn == TicksSpec => Spec /\ NodesSpec
  <1>1. TicksInit => Init /\ NodesInit
    BY DEF TicksInit
  <1>2. [TicksNext]_<<half, vars, nodeVars>> => [Next]_vars /\ [NodesNext]_nodeVars
    BY DEF TicksNext
  <1> QED
    BY <1>1, <1>2, PTL DEF TicksSpec, Spec, NodesSpec

\* Both halves of TickHub keep their types.
THEOREM TicksTypeCorrect == TicksSpec => []TicksTypeOK
  <1>1. TypeOK /\ NodesTypeOK => TicksTypeOK
    BY DEF TicksTypeOK
  <1> QED
    BY <1>1, HalvesAreTheirOwn, StreamTypeCorrect, NodesTypeCorrect, PTL
=============================================================================
