------------------------------- MODULE ApiCache -------------------------------
(***************************************************************************)
(* The answers api/server.py holds between requests.  Its endpoints run in *)
(* a pool of threads and share a dictionary each, without a lock: the      *)
(* steps between two looks at it interleave.                               *)
(*                                                                         *)
(* One endpoint is in view.  What it computes stands for its content: when *)
(* the store or the network was read for it, and for which question.       *)
(***************************************************************************)
EXTENDS Integers, FiniteSets

CONSTANTS
  Threads,     \* the requests that may be under way at one time
  Questions,   \* the parameters an endpoint may be asked with
  Ttl,         \* the endpoint's TTL
  MostEntries, \* the size at which the trend lines' dictionary is emptied, 64
  Horizon,     \* bound: the clock
  MaxAsked     \* bound: requests

ASSUME CacheAssumption ==
  /\ Ttl \in Nat \ {0} /\ MostEntries \in Nat /\ {Horizon, MaxAsked} \subseteq Nat
  /\ Threads # {} /\ IsFiniteSet(Threads) /\ Questions # {}

VARIABLES
  time,     \* the wall clock
  endpoint, \* the endpoint in view
  held,     \* its cache: question -> [at, key, data]; a slot's question is NoKey
  threads,  \* the request each thread handles
  asked     \* how many requests there were

cacheVars == <<time, endpoint, held, threads, asked>>

NoKey  == "any"
NoData == [read |-> -1, key |-> NoKey]

(* An endpoint either has one slot, or an entry per question.  slot: "again"  *)
(* looks at the data a second time to return it, "once" returns what it saw   *)
(* first.  It may fail, and is then answered from the slot.                   *)
Endpoint(slot, keyed, fails) == [slot |-> slot, keyed |-> keyed, fails |-> fails]

Pulse        == Endpoint("again", FALSE, TRUE)
Mining       == Endpoint("once", FALSE, TRUE)
PriceLatest  == Endpoint("again", FALSE, FALSE)
PriceNow     == Endpoint("again", FALSE, FALSE)
BurnLatest   == Endpoint("again", FALSE, FALSE)
PayoutStudy  == Endpoint("again", TRUE, FALSE)   \* one slot, which holds its question
MiningSeries == Endpoint("single", TRUE, FALSE)  \* entries, emptied before each is written
PriceSeriesOf == Endpoint("single", TRUE, FALSE)
PriceDaysOf  == Endpoint("single", TRUE, FALSE)
PriceAverage == Endpoint("single", TRUE, FALSE)
TrendLinesOf == Endpoint("many", TRUE, FALSE)    \* entries, emptied when they are many

Endpoints == {Pulse, Mining, PriceLatest, PriceNow, BurnLatest, PayoutStudy, MiningSeries,
              PriceSeriesOf, PriceDaysOf, PriceAverage, TrendLinesOf}

IsSlot(e) == e.slot \in {"again", "once"}

\* What a question finds, an empty entry when there is nothing.
Slot(e, q) == IF IsSlot(e) THEN NoKey ELSE q
Nothing == [at |-> 0, key |-> NoKey, data |-> NoData]
Entry(q) == IF Slot(endpoint, q) \in DOMAIN held THEN held[Slot(endpoint, q)] ELSE Nothing

(* One request.  asked: the question; start: its `now`; hit: what it found    *)
(* first; data: what it read; raced: the slot was written between its first   *)
(* look and its answer; told: its answer, marked when it is stale.            *)
Idle == [step |-> "idle", asked |-> NoKey, start |-> 0, hit |-> Nothing, data |-> NoData,
         raced |-> FALSE, told |-> NoData, marked |-> FALSE]

CacheInit ==
  /\ time = 0 /\ endpoint \in Endpoints /\ held = <<>>
  /\ threads = [t \in Threads |-> Idle] /\ asked = 0

-----------------------------------------------------------------------------

To(t, step) == [threads EXCEPT ![t] = [@ EXCEPT !.step = step]]

\* The thread's answer, and whether it is marked stale.
Told(t, data, marked) ==
  [threads EXCEPT ![t] = [@ EXCEPT !.step = "told", !.told = data, !.marked = marked,
                                   !.hit = Nothing, !.data = NoData]]

\* Now, and the first look.
Look(t) ==
  /\ threads[t].step \in {"idle", "told"} /\ asked < MaxAsked /\ asked' = asked + 1
  /\ \E q \in IF endpoint.keyed THEN Questions ELSE {NoKey} :
       threads' = [threads EXCEPT ![t] = [Idle EXCEPT !.step = "check", !.asked = q,
                                                      !.start = time, !.hit = Entry(q)]]
  /\ UNCHANGED <<time, endpoint, held>>

\* Mutant: the question the slot holds is not compared.
FitsMutant(t, e) == threads[t].start - e.at < Ttl

\* The entry is young enough and, in a slot that holds its question, of this one.
Fits(t, e) ==
  /\ threads[t].start - e.at < Ttl
  /\ endpoint.keyed => e.key = threads[t].asked

\* The entry the age is taken from: a slot is looked at again.
Dated(t) == IF IsSlot(endpoint) THEN Entry(threads[t].asked) ELSE threads[t].hit

\* The second look: at the age.
Check(t) ==
  /\ threads[t].step = "check"
  /\ threads' = IF threads[t].hit = Nothing \/ ~Fits(t, Dated(t)) THEN To(t, "read")
                ELSE IF endpoint.slot = "again" THEN To(t, "again")
                ELSE Told(t, threads[t].hit.data, FALSE)
  /\ UNCHANGED <<time, endpoint, held, asked>>

\* The third look: at the data that is returned.
Again(t) ==
  /\ threads[t].step = "again"
  /\ threads' = Told(t, Entry(threads[t].asked).data, FALSE)
  /\ UNCHANGED <<time, endpoint, held, asked>>

\* What is answered when the upstream is not: the slot's data, marked.
Fallback(t) ==
  IF endpoint.slot = "once" THEN threads[t].hit.data ELSE Entry(threads[t].asked).data

\* The store or the network is read; 503 when it fails and nothing is held.
Read(t) ==
  /\ threads[t].step = "read"
  /\ \/ threads' = [threads EXCEPT ![t] =
          [@ EXCEPT !.step = IF IsSlot(endpoint) THEN "save" ELSE "empty",
                    !.data = [read |-> time, key |-> threads[t].asked]]]
     \/ endpoint.fails /\ threads' = Told(t, Fallback(t), TRUE)
  /\ UNCHANGED <<time, endpoint, held, asked>>

\* Mutant: no dictionary is emptied before it holds many entries.
FullMutant == Cardinality(DOMAIN held) > MostEntries

\* The dictionary is emptied before an entry is written.
Full == endpoint.slot = "single" \/ Cardinality(DOMAIN held) > MostEntries

Empty(t) ==
  /\ threads[t].step = "empty"
  /\ held' = IF Full THEN <<>> ELSE held
  /\ threads' = To(t, "save")
  /\ UNCHANGED <<time, endpoint, asked>>

\* Mutant: the entry is dated when it is written.
StampMutant(r) == time

\* The entry is dated when the request began.
Stamp(r) == r.start

\* The entry is written; the others' looks at a slot have been overtaken.
Save(t) ==
  /\ threads[t].step = "save"
  /\ LET r == threads[t]
         k == Slot(endpoint, r.asked)
     IN  /\ held' = [q \in DOMAIN held \cup {k} |->
              IF q = k THEN [at |-> Stamp(r), key |-> r.asked, data |-> r.data] ELSE held[q]]
         /\ threads' = [u \in Threads |->
              IF u = t THEN Told(t, r.data, FALSE)[t]
              ELSE [threads[u] EXCEPT !.raced = @ \/ (IsSlot(endpoint) /\ threads[u].step \in {"check", "again"})]]
  /\ UNCHANGED <<time, endpoint, asked>>

\* Time passes whatever the threads are at: a read may take long.
CachePass == time < Horizon /\ time' = time + 1 /\ UNCHANGED <<endpoint, held, threads, asked>>

CacheNext ==
  \/ CachePass
  \/ \E t \in Threads : Look(t) \/ Check(t) \/ Again(t) \/ Read(t) \/ Empty(t) \/ Save(t)

CacheSpec == CacheInit /\ [][CacheNext]_cacheVars

-----------------------------------------------------------------------------
(* Properties. *)

Answered(t) == threads[t].step = "told" /\ ~threads[t].marked

\* What is answered and not marked stale was read less than the TTL before the
\* request began, however long other requests took to read it and in whichever
\* order they wrote it.  A slot may be overwritten between a request's looks at
\* it (server.py mining, price_epochs); entries are read whole.
FreshUnlessMarked ==
  \A t \in Threads : Answered(t) /\ ~threads[t].raced => threads[t].start - threads[t].told.read < Ttl

\* A request is answered with data read for its own question, though other
\* questions replace the one the cache holds (server.py price_epochs).
AnswersTheQuestion ==
  \A t \in Threads : Answered(t) /\ ~threads[t].raced => threads[t].told.key = threads[t].asked

\* No dictionary grows with the questions asked: past the size at which it is
\* emptied it holds at most one entry more for each request under way
\* (server.py price_trendlines, "one shape of this query is enough to hold").
CacheBounded ==
  Cardinality(DOMAIN held) <=
    Cardinality(Threads) + (IF endpoint.slot = "many" THEN MostEntries ELSE 0)
=============================================================================
