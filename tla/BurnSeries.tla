------------------------------ MODULE BurnSeries ------------------------------
(***************************************************************************)
(* The measured burn series: qdr/pipeline.py scan_burns, backfill_burns,   *)
(* missing_burn_days and backfill_burns_days, burn.scan_range, and the     *)
(* tables burn_buckets, burn_scan_state, day_ticks and burn_backfill_runs  *)
(* of qdr/store.py.                                                        *)
(*                                                                         *)
(* Two processes write the series: the live scan (watch loop, --burn-scan) *)
(* and the backfill that scripts/worker.sh keeps running beside it.  Each  *)
(* Store method commits by itself and is an action here.                   *)
(*                                                                         *)
(* A tick burns or does not; a bucket is the set of burns it has counted,  *)
(* so a sum over buckets counts twice what two of them hold.  The wall     *)
(* clock's day is the day of the newest tick.                              *)
(***************************************************************************)
EXTENDS Integers, FiniteSets

CONSTANTS
  MaxTick,       \* bound: the chain stops at this tick
  DayLen,        \* ticks of a UTC day
  Burns,         \* the ticks that burn
  Chunk,         \* CHUNK_TICKS
  LiveCalls,     \* MAX_CALLS of a live pass
  CatchUpCalls,  \* CATCHUP_MAX_CALLS
  MaxLag,        \* MAX_DATING_LAG_TICKS
  FillDays,      \* QDR_BURN_BACKFILL_DAYS, 0 when the backfill is off
  FillCalls,     \* --burn-calls of the backfill
  StatusUp,      \* whether bob.status() answers
  LogsUp,        \* whether bob.tick_logs() answers
  Rescans,       \* --burn-from: ticks an operator restarts the live scan from
  MaxCrashes     \* bound: processes that die

Ticks == 1..MaxTick

ASSUME TickAssumption ==
  /\ MaxTick \in Nat \ {0} /\ DayLen \in Nat \ {0} /\ Chunk \in Nat \ {0}
  /\ Burns \subseteq Ticks /\ Rescans \subseteq Ticks
ASSUME BudgetAssumption ==
  /\ LiveCalls \in Nat \ {0} /\ CatchUpCalls \in Nat
  /\ FillCalls \in Nat \ {0} /\ FillDays \in Nat
  /\ MaxLag \in Nat /\ MaxCrashes \in Nat
ASSUME NodeAssumption ==
  StatusUp \subseteq BOOLEAN /\ LogsUp \subseteq BOOLEAN

DayOf(t)    == (t + DayLen - 1) \div DayLen
FirstOf(d)  == (d - 1) * DayLen + 1
Days        == 1..DayOf(MaxTick)
Least(a, b) == IF a <= b THEN a ELSE b
Most(a, b)  == IF a >= b THEN a ELSE b

VARIABLES
  head,      \* the network's newest tick
  indexed,   \* Bob's currentIndexingTick
  buckets,   \* table burn_buckets
  scan,      \* table burn_scan_state: last and first tick, NoScan before any
  skipped,   \* the stretches the live scan reported as skipped_undatable
  dayTicks,  \* table day_ticks
  runs,      \* table burn_backfill_runs
  live,      \* the live scan's pass
  fill,      \* the backfill's pass
  crashes

chain == <<head, indexed>>
fills == <<dayTicks, runs, fill>>
vars  == <<head, indexed, buckets, scan, skipped, dayTicks, runs, live, fill, crashes>>

Today   == DayOf(head)
NoScan  == [last |-> 0, first |-> 0]
NoDay   == [from |-> 0, to |-> 0, complete |-> FALSE]
LiveOff == [pc |-> "off", start |-> 0, tick |-> 0, day |-> 1, budget |-> 1,
            to |-> 0, found |-> {}]
FillOff == [pc |-> "off", today |-> 1, outer |-> 0, lo |-> 0, hi |-> 0, at |-> 1,
            calls |-> 0, to |-> 0, found |-> {}, reached |-> 0, gap |-> FALSE]

Init ==
  /\ head = 1 /\ indexed = 1
  /\ buckets = {} /\ scan = NoScan /\ skipped = {}
  /\ dayTicks = [d \in Days |-> NoDay] /\ runs = {}
  /\ live = LiveOff /\ fill = FillOff
  /\ crashes = 0

-----------------------------------------------------------------------------
(* The store. *)

Inside(b, from, to) == from <= b.from /\ b.to <= to

\* Mutant: every bucket the window touches is superseded.
PutBucketMutant(from, to, day, found) ==
  buckets' = {b \in buckets : ~(b.day = day /\ from <= b.to /\ b.from <= to)}
             \cup {[from |-> from, to |-> to, day |-> day, found |-> found]}

\* Store.put_burn_bucket: the buckets of that day inside the window are superseded.
PutBucket(from, to, day, found) ==
  buckets' = {b \in buckets : ~(b.day = day /\ Inside(b, from, to))}
             \cup {[from |-> from, to |-> to, day |-> day, found |-> found]}

\* Store.put_day_ticks: widening only.
PutDayTicks(d, from, to, complete) ==
  dayTicks' = [dayTicks EXCEPT ![d] =
    IF @ = NoDay THEN [from |-> from, to |-> to, complete |-> complete]
    ELSE [from |-> Least(@.from, from), to |-> Most(@.to, to),
          complete |-> @.complete \/ complete]]

\* burn_series(by="day"): MIN(from_tick) and MAX(to_tick) of the day's buckets.
Scanned(d) ==
  LET own == {b \in buckets : b.day = d} IN
  IF own = {} THEN 0
  ELSE CHOOSE n \in 1..MaxTick :
         /\ \E a, b \in own : n = b.to - a.from + 1
         /\ \A a, b \in own : b.to - a.from + 1 <= n

\* Mutant: a day measured only up to the moment of the run is done as well.
MissingMutant(today) ==
  {d \in Days : /\ today - FillDays < d /\ d < today
                /\ 100 * Scanned(d) < 95 * (dayTicks[d].to - dayTicks[d].from + 1)}

\* missing_burn_days: 95 of a hundred ticks of the measured day are scanned.
Missing(today) ==
  {d \in Days : /\ today - FillDays < d /\ d < today
                /\ \/ ~dayTicks[d].complete
                   \/ 100 * Scanned(d) < 95 * (dayTicks[d].to - dayTicks[d].from + 1)}

-----------------------------------------------------------------------------
(* burn.scan_range over from..end: the ticks it may stop at.  An unindexed   *)
(* tick answers with an empty log.                                           *)

Calls(from, to) == (to - from + Chunk) \div Chunk

StopsAt(from, end, budget) ==
  LET full == Least(end, from - 1 + budget * Chunk) IN
  (IF TRUE \in LogsUp THEN {full} ELSE {})
  \cup (IF FALSE \in LogsUp
          THEN {from - 1 + k * Chunk : k \in {k \in 0..budget : from - 1 + k * Chunk < full}}
          ELSE {})

BurnsIn(from, to) == {t \in Burns : from <= t /\ t <= to /\ t <= indexed}

-----------------------------------------------------------------------------
(* scan_burns. *)

\* The head Bob has indexed, or the network's when status() does not answer.
Reach(answers) == IF answers THEN Least(head, indexed) ELSE head

\* Mutant: a young chain is scanned from before its first tick.
ColdStartMutant(tick) == tick - Chunk * LiveCalls

ColdStart(tick) == Most(0, tick - Chunk * LiveCalls)

\* Mutant: the pointer is taken for the first tick not scanned.
ResumeMutant == scan.last

Resume == scan.last + 1

LiveStart(from, answers) ==
  /\ live.pc = "off"
  /\ LET tick  == Reach(answers)
         start == IF from # 0 THEN from
                  ELSE IF scan # NoScan THEN Resume ELSE ColdStart(tick)
         lost  == tick - start > MaxLag
         begin == IF lost THEN ColdStart(tick) ELSE start
     IN  /\ start <= tick
         /\ live' = [LiveOff EXCEPT
                       !.pc = "scan", !.start = begin, !.tick = tick, !.day = Today,
                       !.budget = Most(LiveCalls, Least(CatchUpCalls, Calls(begin, tick)))]
         /\ skipped' = IF lost THEN skipped \cup start..(begin - 1) ELSE skipped
  /\ UNCHANGED <<chain, buckets, scan, fills, crashes>>

LiveScan(to) ==
  /\ live.pc = "scan"
  /\ live' = [live EXCEPT !.pc = "put", !.to = to, !.found = BurnsIn(live.start, to)]
  /\ UNCHANGED <<chain, buckets, scan, skipped, fills, crashes>>

\* A bucket is written over the span of the events, and only if there are any.
LivePut ==
  /\ live.pc = "put"
  /\ IF live.found = {} THEN UNCHANGED buckets
     ELSE LET from == CHOOSE t \in live.found : \A u \in live.found : t <= u
              to   == CHOOSE t \in live.found : \A u \in live.found : u <= t
          IN  PutBucket(from, to, live.day, live.found)
  /\ live' = [live EXCEPT !.pc = "point"]
  /\ UNCHANGED <<chain, scan, skipped, fills, crashes>>

\* Mutant: the pointer moves to the head, scanned or not.
LivePointMutant ==
  /\ live.pc = "point"
  /\ scan' = [last |-> live.tick, first |-> IF scan = NoScan THEN live.start ELSE scan.first]
  /\ live' = LiveOff
  /\ UNCHANGED <<chain, buckets, skipped, fills, crashes>>

LivePoint ==
  /\ live.pc = "point"
  /\ scan' = IF live.to < live.start THEN scan
             ELSE [last |-> live.to,
                   first |-> IF scan = NoScan THEN live.start ELSE scan.first]
  /\ live' = LiveOff
  /\ UNCHANGED <<chain, buckets, skipped, fills, crashes>>

LiveDies ==
  /\ live.pc # "off" /\ crashes < MaxCrashes
  /\ live' = LiveOff
  /\ crashes' = crashes + 1
  /\ UNCHANGED <<chain, buckets, scan, skipped, fills>>

-----------------------------------------------------------------------------
(* backfill_burns_days and backfill_burns. *)

\* The first tick of the oldest requested day, or Bob's first tick.
WindowFrom(today, hi) ==
  LET first == Most(1, FirstOf(today - FillDays + 1)) IN IF first <= hi THEN first ELSE 1

\* The status call is made twice, and only the second caps the scan itself.
FillStart(answers, again) ==
  /\ fill.pc = "off" /\ FillDays > 0
  /\ Missing(Today) # {} \/ runs = {}
  /\ LET outer == Reach(answers)
         lo    == WindowFrom(Today, outer)
         hi    == IF again THEN Least(outer, indexed) ELSE outer
     IN  /\ lo < outer /\ lo <= hi
         /\ fill' = [FillOff EXCEPT
                       !.pc = "date", !.today = Today, !.outer = outer,
                       !.lo = lo, !.hi = hi, !.at = DayOf(lo), !.reached = lo - 1]
  /\ UNCHANGED <<chain, buckets, scan, skipped, dayTicks, runs, live, crashes>>

\* dating.day_boundaries of lo..hi: the range that falls on day d.
RangeFrom(d) == Most(fill.lo, FirstOf(d))
RangeTo(d)   == Least(fill.hi, d * DayLen)
LastDay      == DayOf(fill.hi)

\* Every range's span is stored before anything is scanned.
FillDate ==
  /\ fill.pc = "date"
  /\ PutDayTicks(fill.at, RangeFrom(fill.at), RangeTo(fill.at),
                 fill.at < LastDay /\ fill.at # fill.today)
  /\ fill' = IF fill.at < LastDay THEN [fill EXCEPT !.at = @ + 1]
                                  ELSE [fill EXCEPT !.pc = "scan", !.at = DayOf(fill.lo)]
  /\ UNCHANGED <<chain, buckets, scan, skipped, runs, live, crashes>>

FillScan(to) ==
  /\ fill.pc = "scan"
  /\ fill' = [fill EXCEPT
                !.pc = "put", !.to = to,
                !.found = BurnsIn(RangeFrom(fill.at), to),
                !.calls = @ + Calls(RangeFrom(fill.at), to),
                !.reached = Most(@, to),
                !.gap = to < Least(RangeTo(fill.at),
                                   RangeFrom(fill.at) - 1
                                   + (FillCalls - fill.calls) * Chunk)]
  /\ UNCHANGED <<chain, buckets, scan, skipped, dayTicks, runs, live, crashes>>

\* The bucket is written over the window that was scanned, even when it found
\* nothing; an incomplete day, or a spent budget, ends the run.
FillPut ==
  /\ fill.pc = "put"
  /\ IF fill.to >= RangeFrom(fill.at)
       THEN PutBucket(RangeFrom(fill.at), fill.to, fill.at, fill.found)
       ELSE UNCHANGED buckets
  /\ LET goesOn == /\ fill.to = RangeTo(fill.at) /\ fill.at < LastDay
                   /\ fill.calls < FillCalls
     IN  fill' = IF goesOn THEN [fill EXCEPT !.pc = "scan", !.at = @ + 1]
                           ELSE [fill EXCEPT !.pc = "mark"]
  /\ UNCHANGED <<chain, scan, skipped, dayTicks, runs, live, crashes>>

\* Mutant: a run that spent its budget is recorded as well.
FillMarkMutant ==
  /\ fill.pc = "mark"
  /\ runs' = IF ~fill.gap THEN runs \cup {[from |-> fill.lo, to |-> fill.outer]} ELSE runs
  /\ fill' = FillOff
  /\ UNCHANGED <<chain, buckets, scan, skipped, dayTicks, live, crashes>>

\* Only a run that reached the end of the window, without a gap, is recorded.
FillMark ==
  /\ fill.pc = "mark"
  /\ runs' = IF fill.reached >= fill.hi /\ ~fill.gap
               THEN runs \cup {[from |-> fill.lo, to |-> fill.outer]} ELSE runs
  /\ fill' = FillOff
  /\ UNCHANGED <<chain, buckets, scan, skipped, dayTicks, live, crashes>>

FillDies ==
  /\ fill.pc # "off" /\ crashes < MaxCrashes
  /\ fill' = FillOff
  /\ crashes' = crashes + 1
  /\ UNCHANGED <<chain, buckets, scan, skipped, dayTicks, runs, live>>

-----------------------------------------------------------------------------
(* The network. *)

NewTick ==
  /\ head < MaxTick
  /\ head' = head + 1
  /\ UNCHANGED <<indexed, buckets, scan, skipped, fills, live, crashes>>

Index ==
  /\ indexed < head
  /\ indexed' = indexed + 1
  /\ UNCHANGED <<head, buckets, scan, skipped, fills, live, crashes>>

Live ==
  \/ \E answers \in StatusUp : LiveStart(0, answers)
  \/ \E to \in StopsAt(live.start, live.tick, live.budget) : LiveScan(to)
  \/ LivePut \/ LivePoint

Rescan == \E from \in Rescans, answers \in StatusUp : LiveStart(from, answers)

Fill ==
  \/ \E answers, again \in StatusUp : FillStart(answers, again)
  \/ FillDate
  \/ \E to \in StopsAt(RangeFrom(fill.at), RangeTo(fill.at), FillCalls - fill.calls) :
       FillScan(to)
  \/ FillPut \/ FillMark

Next == NewTick \/ Index \/ Live \/ Rescan \/ Fill \/ LiveDies \/ FillDies

Spec == Init /\ [][Next]_vars

\* The chain and Bob's index move on, and both loops of the worker keep running.
FairSpec == Spec /\ WF_vars(NewTick) /\ WF_vars(Index) /\ WF_vars(Live) /\ WF_vars(Fill)

-----------------------------------------------------------------------------
(* Properties. *)

Bucket == [from : Ticks, to : Ticks, day : Days, found : SUBSET Burns]

\* The tables and the locals of the two passes hold what they may hold.
TypeOK ==
  /\ head \in Ticks /\ indexed \in 1..head
  /\ buckets \subseteq Bucket
  /\ scan \in [last : 0..MaxTick, first : 0..MaxTick]
  /\ skipped \subseteq 0..MaxTick
  /\ dayTicks \in [Days -> [from : 0..MaxTick, to : 0..MaxTick, complete : BOOLEAN]]
  /\ runs \subseteq [from : Ticks, to : Ticks]
  /\ live.pc \in {"off", "scan", "put", "point"} /\ live.found \subseteq Burns
  /\ fill.pc \in {"off", "date", "scan", "put", "mark"} /\ fill.found \subseteq Burns
  /\ fill.at \in Days /\ crashes \in 0..MaxCrashes

Counted(t) == \E b \in buckets : t \in b.found

\* The pointer never passes a burn that is not in the series: what lies between the
\* first and the last scanned tick is counted, or was reported as skipped.
ScannedIsCounted ==
  \A t \in Burns :
    scan.first <= t /\ t <= scan.last => Counted(t) \/ t \in skipped

\* Superseding a bucket never takes a burn out of the series, whichever of the two
\* writers supersedes and whatever the other one is in the middle of.
CountedStaysCounted == [][\A t \in Burns : Counted(t) => Counted(t)']_vars

\* A backfill run on record has counted every burn of its window.
RecordedRunIsCounted ==
  \A r \in runs, t \in Burns : r.from <= t /\ t <= r.to => Counted(t)

\* No burn is in two buckets, so no sum over the buckets counts it twice.
CountedOnce ==
  \A a, b \in buckets : a # b => a.found \cap b.found = {}

\* In the end every finished day of the window is counted, burn by burn.
FinishedDaysCounted ==
  <>[]\A t \in Burns :
        Today - FillDays < DayOf(t) /\ DayOf(t) < Today => Counted(t)

=============================================================================
