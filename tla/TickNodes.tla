------------------------------ MODULE TickNodes ------------------------------
(***************************************************************************)
(* Which node the live ticks come from: the failover of TickHub            *)
(* (qdr/tickstream.py), its health checks, the poll mode behind a failing  *)
(* socket and the bare feed behind failing nodes.                          *)
(*                                                                         *)
(* Time passes in units of HEALTH_EVERY_S, in which the network makes one  *)
(* unit of ticks: its head is the clock.  The hub does what is due at a    *)
(* moment before time passes.  A well node is at the network's head, a     *)
(* frozen one answers with the tick it froze at, a dead one not at all;    *)
(* what the socket of a node brings in a unit is an input.                 *)
(***************************************************************************)
EXTENDS Integers, FiniteSetsExt

CONSTANTS
  NodeCount,   \* QDR_BOB_URLS, in their order
  Stall,       \* STALL_S
  Lag,         \* LAG_TICKS
  NetEvery,    \* NETWORK_CHECK_S
  Retry,       \* NODE_RETRY_S
  PollFor,     \* POLL_BEFORE_WS_RETRY_S
  Failures,    \* WS_FAILURES_BEFORE_POLL
  TimeLimit,   \* bound: the clock
  MaxTurns     \* bound: how often a node's health changes

Nodes == 1..NodeCount

ASSUME NodesAssumption ==
  /\ {NodeCount, Stall, Lag, NetEvery, Retry, PollFor, Failures} \subseteq Nat \ {0}
  /\ {TimeLimit, MaxTurns} \subseteq Nat

\* Polling outlasts two rounds of the stall clock: 300 s against 30 s.
ASSUME PollAssumption == PollFor > 2 * Stall + 2

VARIABLES
  clock,     \* time, and the network's tick
  health,    \* each node: "well", "frozen" or "dead"
  frozenAt,  \* the tick a node that is not well stopped at
  wellSince, \* history: since when a node has been well
  turns,     \* how often a node's health changed
  task       \* TickHub's task

nodeVars == <<clock, health, frozenAt, wellSince, turns, task>>

Unread == -1

(* step is what the task does next: "pick" a node, "open" its socket, "wait"   *)
(* before it opens it again, "ws" or "poll" (a node's ticks), "bare" (the bare *)
(* feed).  due says that the current unit is still to be handled.  The other   *)
(* fields are TickHub's; picked is a history: when the node was picked.        *)
NodesInit ==
  /\ clock = 0 /\ turns = 0
  /\ health = [u \in Nodes |-> "well"]
  /\ frozenAt = [u \in Nodes |-> 0] /\ wellSince = [u \in Nodes |-> 0]
  /\ task = [step |-> "pick", due |-> FALSE, node |-> 1,
            downUntil |-> [u \in Nodes |-> 0], netTick |-> Unread, netAt |-> -NetEvery,
            picked |-> 0, nodeHead |-> 0, aliveAt |-> 0, since |-> 0, failures |-> 0,
            pollUntil |-> 0, until |-> 0]

Greater(a, b) == IF a >= b THEN a ELSE b

\* tick_number, asked of a node that answers.
HeadOf(u) == IF health[u] = "well" THEN clock ELSE frozenAt[u]

-----------------------------------------------------------------------------
(* Node health. *)

\* _network_tick: read at most every NetEvery; a failed read keeps the old.
WithYardstick(h) ==
  IF clock - h.netAt < NetEvery THEN {h}
  ELSE {[h EXCEPT !.netAt = clock, !.netTick = clock], [h EXCEPT !.netAt = clock]}

\* A head is too far behind the yardstick, when there is one.
Behind(h, head) == h.netTick # Unread /\ h.netTick - head > Lag

\* _mark_down
Marked(h, u) == [h EXCEPT !.downUntil[u] = clock + Retry]

\* _node_progress
Progressed(h, head) ==
  IF head > h.nodeHead
  THEN [h EXCEPT !.nodeHead = head, !.aliveAt = clock] ELSE h

\* A node went down: the next one is picked.
Dropped(h) == [Marked(h, h.node) EXCEPT !.step = "pick"]

\* A socket that failed: opened again after a while, or the node is polled.
SocketFailed(h) ==
  IF h.failures + 1 >= Failures
  THEN [h EXCEPT !.failures = 0, !.pollUntil = clock + PollFor, !.step = "poll", !.due = FALSE]
  ELSE [h EXCEPT !.failures = @ + 1, !.step = "wait", !.due = FALSE]

\* Mutant: a silent node that answers is a good one.
StuckMutant(h) == FALSE

\* A node that is asked has made no progress.
Stuck(h) == HeadOf(h.node) <= h.nodeHead

\* _check_health: what the hub's task may be after it, socket or polled.
Checked(h0, socket) ==
  LET h == [h0 EXCEPT !.due = FALSE]
      Yardstick(g) == {IF Behind(n, n.nodeHead) THEN Dropped(n) ELSE n : n \in WithYardstick(g)}
  IN  IF clock - Greater(h.aliveAt, h.since) <= Stall THEN Yardstick(h)
      ELSE IF health[h.node] = "dead" \/ Stuck(h) THEN {Dropped(h)}
      ELSE IF socket THEN {SocketFailed(Progressed(h, HeadOf(h.node)))}
      ELSE Yardstick(Progressed(h, HeadOf(h.node)))

-----------------------------------------------------------------------------
(* The task. *)

\* Mutant: the last wait has to be over.
ProbeAtMutant(downs) == Greater(Max(downs), clock + 1)

\* When the nodes are probed again: the first wait is over, but not at once.
ProbeAt(downs) == Greater(Min(downs), clock + 1)

\* Mutant: the head last heard decides, whichever node it was heard of.
UnfitMutant(h, u) == health[u] = "dead" \/ Behind(h, h.nodeHead)

\* What _pick_node finds wrong with a node that is not marked down.
Unfit(h, u) == health[u] = "dead" \/ Behind(h, HeadOf(u))

\* _pick_node, and where _run goes with its answer.
Picked(h) ==
  LET open  == {u \in Nodes : h.downUntil[u] <= clock}
      fit   == {u \in open : ~Unfit(h, u)}
      tried == IF fit = {} THEN open ELSE {u \in open : u < Min(fit)}
      down  == [u \in Nodes |-> IF u \in tried THEN clock + Retry ELSE h.downUntil[u]]
  IN  IF fit # {}
      THEN [h EXCEPT !.downUntil = down, !.step = "open", !.node = Min(fit), !.picked = clock,
                     !.nodeHead = HeadOf(Min(fit)), !.aliveAt = clock, !.since = clock,
                     !.failures = 0, !.pollUntil = 0]
      ELSE [h EXCEPT !.downUntil = down, !.step = "bare", !.due = FALSE,
                     !.until = ProbeAt({down[u] : u \in Nodes})]

Pick ==
  /\ task.step = "pick"
  /\ task' \in {Picked(h) : h \in WithYardstick(task)}
  /\ UNCHANGED <<clock, health, frozenAt, wellSince, turns>>

\* _run_ws up to its loop: the socket opens, or it does not.
OpenSocket ==
  /\ task.step = "open"
  /\ task' \in {[task EXCEPT !.step = "ws", !.since = clock, !.due = FALSE], SocketFailed(task)}
  /\ health[task.node] = "dead" => task' = SocketFailed(task)
  /\ UNCHANGED <<clock, health, frozenAt, wellSince, turns>>

\* One unit of _run_ws: it brings the node's ticks, nothing, or breaks.
Stream ==
  /\ task.step = "ws" /\ task.due
  /\ \/ task' \in Checked(Progressed(task, HeadOf(task.node)), TRUE) /\ health[task.node] # "dead"
     \/ task' \in Checked(task, TRUE)
     \/ task' = SocketFailed(task)
  /\ UNCHANGED <<clock, health, frozenAt, wellSince, turns>>

\* _poll_once, until it is time to try the socket again.
PollOnce ==
  /\ task.step = "poll" /\ task.due
  /\ IF clock >= task.pollUntil THEN task' = [task EXCEPT !.step = "open"]
     ELSE IF health[task.node] = "dead" THEN task' \in Checked(task, FALSE)
     ELSE task' \in Checked(Progressed(task, HeadOf(task.node)), FALSE)
  /\ UNCHANGED <<clock, health, frozenAt, wellSince, turns>>

\* The end of a wait, and of _run_bare: nodes are probed again.
Resume ==
  /\ task.due
  /\ \/ task.step = "wait" /\ task' = [task EXCEPT !.step = "open"]
     \/ task.step = "bare" /\ task' = IF clock >= task.until THEN [task EXCEPT !.step = "pick"]
                                    ELSE [task EXCEPT !.due = FALSE]
  /\ UNCHANGED <<clock, health, frozenAt, wellSince, turns>>

\* Time passes once everything due is done.
Elapse ==
  /\ clock < TimeLimit /\ ~task.due /\ task.step \in {"ws", "poll", "wait", "bare"}
  /\ clock' = clock + 1 /\ task' = [task EXCEPT !.due = TRUE]
  /\ UNCHANGED <<health, frozenAt, wellSince, turns>>

\* External: a node freezes, dies or recovers.
Turn(u) ==
  /\ ~task.due /\ turns < MaxTurns /\ turns' = turns + 1
  /\ \E s \in {"well", "frozen", "dead"} \ {health[u]} :
       /\ health' = [health EXCEPT ![u] = s]
       /\ frozenAt' = [frozenAt EXCEPT ![u] = HeadOf(u)]
       /\ wellSince' = [wellSince EXCEPT ![u] = IF s = "well" THEN clock ELSE @]
  /\ UNCHANGED <<clock, task>>

NodesNext == \/ Pick \/ OpenSocket \/ Stream \/ PollOnce \/ Resume \/ Elapse
             \/ \E u \in Nodes : Turn(u)

NodesSpec == NodesInit /\ [][NodesNext]_nodeVars

-----------------------------------------------------------------------------
(* Properties. *)

\* The task's fields keep their shape: no head is ahead of the network, no wait
\* is longer than NODE_RETRY_S, and failures start again with each round of polling.
NodesTypeOK ==
  /\ clock \in 0..TimeLimit /\ turns \in 0..MaxTurns
  /\ health \in [Nodes -> {"well", "frozen", "dead"}]
  /\ frozenAt \in [Nodes -> 0..clock] /\ wellSince \in [Nodes -> 0..clock]
  /\ task.step \in {"pick", "open", "wait", "ws", "poll", "bare"} /\ task.node \in Nodes
  /\ task.downUntil \in [Nodes -> 0..(clock + Retry)] /\ task.netTick \in Unread..clock
  /\ {task.picked, task.nodeHead, task.aliveAt, task.since} \subseteq 0..clock
  /\ task.failures \in 0..(Failures - 1)

OnNode == task.step \in {"open", "ws", "wait", "poll"}

\* A node that stopped is left: however its socket fails, reconnects or is
\* polled in between, and though the network's tick may never be read, it is not
\* kept, after it was picked and stopped, for longer than a round of the stall clock
\* for each socket that may fail, one of the polling it stopped in, and one more for
\* a last tick that is heard late (tickstream.py _check_health).
StaleAtMost == (Failures + 2) * (Stall + 2) - 2

StoppedNodeIsLeft ==
  OnNode => clock - Greater(HeadOf(task.node), task.picked) <= StaleAtMost

\* A well node is not thrown out over an old yardstick, another node's head or a
\* silent socket (tickstream.py _network_tick, _check_health): only the node in
\* use goes, and only when the last tick heard of it is further behind the
\* network, as it is now, than the lag that is allowed.
WellNodeIsKept ==
  [][ \A u \in Nodes :
        task'.downUntil[u] # task.downUntil[u] /\ health[u] = "well"
          => u = task.node /\ clock - task.nodeHead > Lag ]_nodeVars

\* The bare feed gives way to a node that is well: it lasts at most the wait of
\* the node that may be probed first (tickstream.py _run), and so at most Retry
\* beyond the later of the node's recovery and its being marked down, though
\* other nodes are probed and marked down again in between.
BareFeedEnds ==
  task.step = "bare" /\ ~task.due => \A u \in Nodes :
    health[u] = "well" => clock - Greater(wellSince[u], task.downUntil[u] - Retry) <= Retry
=============================================================================
