------------------------------ MODULE TickStream ------------------------------
(***************************************************************************)
(* The live ticks: the ring of qdr/tickstream.py TickHub, the stream that  *)
(* api/server.py makes of it, and the page (dashboard/ticks.js) that       *)
(* resumes the stream after a break.                                       *)
(*                                                                         *)
(* The hub lives on one event loop, so an action here is what runs between *)
(* two awaits.  Upstream is whatever node or feed the hub uses at the      *)
(* moment.  It delivers ticks in any order and any number of times, with   *)
(* content or, from the bare feed, by number only; they are at most        *)
(* MaxLate behind the network, or so far that they are not live any more.  *)
(***************************************************************************)
EXTENDS Integers, Sequences, FiniteSets, Functions

CONSTANTS
  Pages,     \* open ticks pages
  MaxTick,   \* bound: the network stops at this tick
  MaxLate,   \* how far behind the network a delivered tick may be
  Size,      \* QDR_TICKS_BUFFER
  QueueSize, \* maxsize of a subscriber's queue
  Backlog,   \* ticks a resumed stream may start with (60)
  First      \* ticks a new stream starts with (12)

ASSUME SizeAssumption ==
  /\ MaxTick \in Nat \ {0} /\ MaxLate \in Nat
  /\ Size \in Nat \ {0} /\ QueueSize \in Nat \ {0}
  /\ Backlog \in Nat \ {0} /\ First \in Nat \ {0}

\* The ring is long enough for what arrives late.
ASSUME RingAssumption == Size > 2 * MaxLate

Ticks == 1..MaxTick
Entry == [tick : Ticks, bare : BOOLEAN]

VARIABLES
  head,      \* the network's newest tick
  running,   \* TickHub._task is not done
  buffer,    \* TickHub.buffer, oldest first
  details,   \* TickHub.details, in the order of insertion
  accepted,  \* history: the ticks accepted since the buffer was last cleared
  page       \* each page and its stream

hub  == <<running, buffer, details, accepted>>
vars == <<head, running, buffer, details, accepted, page>>

(* A page is "off", its stream is "open" (subscribed, the backlog not read   *)
(* yet) or "live".  back is what is left of the backlog, floor the tick from *)
(* which on the stream owes the page everything.  got is S.seen, last is     *)
(* S.lastTick and id the browser's Last-Event-ID.                            *)
NewPage == [pc |-> "off", sub |-> FALSE, after |-> 0, back |-> <<>>, q |-> <<>>,
            floor |-> 0, got |-> {}, last |-> 0, id |-> 0]

Init ==
  /\ head = 1 /\ running = FALSE
  /\ buffer = <<>> /\ details = <<>> /\ accepted = {}
  /\ page = [p \in Pages |-> NewPage]

-----------------------------------------------------------------------------
(* The ring. *)

TicksOf(s)    == {s[i].tick : i \in DOMAIN s}
EntryOf(s, t) == CHOOSE e \in {s[i] : i \in DOMAIN s} : e.tick = t
NewestOf(s)   == s[Len(s)].tick

\* Mutant: nothing is dropped.
PushMutant(s, e) == Append(s, e)

\* deque.append at maxlen and OrderedDict.popitem(last=False) drop the front.
Push(s, e) == Append(IF Len(s) = Size THEN Tail(s) ELSE s, e)

\* The entry of e's tick becomes e, in place.
Swap(s, e) == [i \in DOMAIN s |-> IF s[i].tick = e.tick THEN e ELSE s[i]]

\* Mutant: a late tick stays where it arrived.
InOrderMutant(s) == s

\* sorted: one of the permutations that put the ticks in order.  No two entries
\* of the ring share a tick, so there is no other.
Sorted(s) ==
  LET places == 1..Len(s)
      p == CHOOSE q \in Bijection(places, places) :
             \A i, j \in places : i < j => s[q[i]].tick <= s[q[j]].tick
  IN  [i \in places |-> s[p[i]]]

\* A late tick is sorted in; otherwise the order is the one of arrival.
InOrder(s) ==
  IF Len(s) > 1 /\ s[Len(s) - 1].tick > s[Len(s)].tick THEN Sorted(s) ELSE s

\* Mutant: only the newest tick is compared.
KnownMutant(t) == buffer # <<>> /\ t = NewestOf(buffer)

\* Known ticks are those that still have a detail.
Known(t) == t \in TicksOf(details)

\* A tick already seen, unless content arrives for a bare one.
Seen(e) == Known(e.tick) /\ ~(EntryOf(details, e.tick).bare /\ ~e.bare)

FarBehind(e) == buffer # <<>> /\ e.tick < NewestOf(buffer) - Size

\* Mutant: a full queue loses the tick and keeps the subscriber.
FanMutant(t) ==
  page' = [p \in Pages |->
    IF page[p].sub /\ Len(page[p].q) < QueueSize
    THEN [page[p] EXCEPT !.q = Append(@, t)] ELSE page[p]]

\* A subscriber whose queue is full is dropped; its stream goes on without it.
Fan(t) ==
  page' = [p \in Pages |->
    IF ~page[p].sub THEN page[p]
    ELSE IF Len(page[p].q) < QueueSize THEN [page[p] EXCEPT !.q = Append(@, t)]
    ELSE [page[p] EXCEPT !.sub = FALSE]]

Accept(e) ==
  /\ ~Known(e.tick)
  /\ buffer'   = InOrder(Push(buffer, e))
  /\ details'  = Push(details, e)
  /\ accepted' = accepted \cup {e.tick}
  /\ Fan(e.tick)

\* Mutant: the summary is replaced, the detail is not.
UpgradeMutant(e) ==
  /\ Known(e.tick)
  /\ buffer' = Swap(buffer, e)
  /\ UNCHANGED <<details, accepted, page>>

\* Content for a tick known by number only: replaced, not sent again.
Upgrade(e) ==
  /\ Known(e.tick)
  /\ buffer'  = Swap(buffer, e)
  /\ details' = Swap(details, e)
  /\ UNCHANGED <<accepted, page>>

\* TickHub.ingest of one condensed tick; one already seen changes nothing.
Ingest(e) ==
  /\ ~Seen(e) /\ ~FarBehind(e)
  /\ Accept(e) \/ Upgrade(e)

-----------------------------------------------------------------------------
(* Upstream. *)

NewTick ==
  /\ head < MaxTick
  /\ head' = head + 1
  /\ UNCHANGED <<hub, page>>

Receive ==
  /\ running
  /\ \E e \in Entry :
       /\ \/ e.tick \in (head - MaxLate)..head
          \/ buffer # <<>> /\ e.tick + Size < NewestOf(buffer)
       /\ Ingest(e)
  /\ UNCHANGED <<head, running>>

\* _run ends by itself when nobody has watched for a while.
Idle ==
  /\ running /\ \A p \in Pages : ~page[p].sub
  /\ running' = FALSE
  /\ UNCHANGED <<head, buffer, details, accepted, page>>

\* ensure_running: after a gap the ring starts empty.
EnsureRunning ==
  /\ running' = TRUE
  /\ \/ UNCHANGED <<buffer, details, accepted>>
     \/ ~running /\ buffer' = <<>> /\ details' = <<>> /\ accepted' = {}

-----------------------------------------------------------------------------
(* The stream and the page. *)

\* The entries of s at the places S, in their order.
EntriesAt(s, S) ==
  [k \in 1..Cardinality(S) |-> s[CHOOSE i \in S : Cardinality({j \in S : j <= i}) = k]]

\* TickHub.recent: the newest ones, if more are waiting than may be sent.
Recent(buf, after) ==
  LET limit == IF after = 0 THEN First ELSE Backlog
      newer == {i \in DOMAIN buf : buf[i].tick > after}
  IN  EntriesAt(buf, {i \in newer : Cardinality({j \in newer : j > i}) < limit})

\* onTick: a tick the page has seen is dropped.
See(pg, t) == [pg EXCEPT !.got = @ \cup {t}, !.last = IF t > @ THEN t ELSE @, !.id = t]

(* ticks_stream up to its response: the browser resumes after the last event *)
(* it got, the page itself after the newest tick it has seen.                *)
Connect(p) ==
  /\ page[p].pc = "off"
  /\ EnsureRunning
  /\ \E after \in {page[p].id, page[p].last} :
       page' = [page EXCEPT ![p] = [@ EXCEPT !.pc = "open", !.sub = TRUE,
                                             !.after = after, !.id = after]]
  /\ UNCHANGED head

\* The stream's generator starts: the ticks the page missed.
ReadBacklog(p) ==
  /\ page[p].pc = "open"
  /\ LET rows == Recent(buffer, page[p].after) IN
       page' = [page EXCEPT ![p] = [@ EXCEPT
         !.pc = "live",
         !.back = [i \in DOMAIN rows |-> rows[i].tick],
         !.floor = IF rows = <<>> THEN page[p].after + 1 ELSE rows[1].tick]]
  /\ UNCHANGED <<head, hub>>

\* The next event reaches the page, the backlog's first.
Send(p) ==
  /\ page[p].pc = "live"
  /\ \/ /\ page[p].back # <<>>
        /\ page' = [page EXCEPT ![p] = See([@ EXCEPT !.back = Tail(page[p].back)], Head(page[p].back))]
     \/ /\ page[p].back = <<>> /\ page[p].q # <<>>
        /\ page' = [page EXCEPT ![p] = See([@ EXCEPT !.q = Tail(page[p].q)], Head(page[p].q))]
  /\ UNCHANGED <<head, hub>>

\* The stream ends: its time is over, the connection breaks, the tab is hidden.
Close(p) ==
  /\ page[p].pc # "off"
  /\ page' = [page EXCEPT ![p] = [@ EXCEPT !.pc = "off", !.sub = FALSE,
                                           !.back = <<>>, !.q = <<>>]]
  /\ UNCHANGED <<head, hub>>

\* /v1/ticks/recent: the page polls instead.
Poll(p) ==
  /\ page[p].pc = "off"
  /\ EnsureRunning
  /\ LET new == TicksOf(Recent(buffer', page[p].last))
         all == page[p].got \cup new
     IN  page' = [page EXCEPT ![p] = [@ EXCEPT
           !.got = all,
           !.last = IF new = {} THEN page[p].last ELSE NewestOf(buffer')]]
  /\ UNCHANGED head

Next ==
  \/ NewTick \/ Receive \/ Idle
  \/ \E p \in Pages : Connect(p) \/ ReadBacklog(p) \/ Send(p) \/ Close(p) \/ Poll(p)

Spec == Init /\ [][Next]_vars

-----------------------------------------------------------------------------
(* Properties. *)

\* Every variable has its type.
TypeOK ==
  /\ head \in Ticks /\ running \in BOOLEAN
  /\ buffer \in Seq(Entry) /\ Len(buffer) <= Size
  /\ details \in Seq(Entry) /\ Len(details) <= Size
  /\ accepted \subseteq Ticks
  /\ \A p \in Pages :
       /\ page[p].pc \in {"off", "open", "live"} /\ page[p].sub \in BOOLEAN
       /\ page[p].q \in Seq(Ticks) /\ Len(page[p].q) <= QueueSize
       /\ page[p].back \in Seq(Ticks) /\ page[p].got \subseteq Ticks
       /\ {page[p].after, page[p].last, page[p].id} \subseteq 0..MaxTick
       /\ page[p].floor \in 0..MaxTick + 1

(* The ring holds the newest ticks that were accepted, each once and in      *)
(* order, however late and however often they were delivered                 *)
(* (tests/test_tickstream.py:165, "drops duplicates and keeps order").       *)
BufferIsNewest ==
  /\ \A i, j \in DOMAIN buffer : i < j => buffer[i].tick < buffer[j].tick
  /\ TicksOf(buffer) \subseteq accepted
  /\ \A t \in accepted \ TicksOf(buffer) :
       Len(buffer) = Size /\ t < buffer[1].tick

(* The detail view answers from memory for what may still be delivered, and  *)
(* knows as much of a tick as the stream said (TickHub.detail: a bare one is *)
(* read from a node instead).                                                *)
DetailBehindEveryTick ==
  \A i \in DOMAIN buffer :
    buffer[i].tick >= head - MaxLate => \E j \in DOMAIN details : details[j] = buffer[i]

(* No tick is fanned out a second time: TickHub.ingest "returns False for a  *)
(* tick already seen", also where details and buffer dropped different ones. *)
NeverSentTwice ==
  [][\A p \in Pages :
       Len(page'[p].q) > Len(page[p].q) => page'[p].q[Len(page'[p].q)] \notin accepted]_vars

(* Between subscribing and reading the backlog, and between the backlog and  *)
(* the queue, no tick falls: what the ring holds from the stream's first     *)
(* tick on, the page has or will get (api/server.py:755).                    *)
NothingFallsBetween ==
  \A p \in Pages :
    page[p].pc = "live" /\ page[p].sub =>
      \A t \in TicksOf(buffer) : t >= page[p].floor =>
        t \in page[p].got \cup {page[p].back[i] : i \in DOMAIN page[p].back}
                          \cup {page[p].q[i] : i \in DOMAIN page[p].q}

(* "recent(after=...) never skips a tick a viewer has not had"               *)
(* (qdr/tickstream.py:710): a stream that resumes has, or will get, what the *)
(* ring holds after the oldest tick the page ever got.                       *)
ResumeSkipsNothing ==
  \A p \in Pages :
    page[p].pc = "live" /\ page[p].sub =>
      \A t \in TicksOf(buffer) : (\E u \in page[p].got : u < t) =>
        t \in page[p].got \cup {page[p].back[i] : i \in DOMAIN page[p].back}
                          \cup {page[p].q[i] : i \in DOMAIN page[p].q}

=============================================================================
