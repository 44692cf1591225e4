----------------------------- MODULE SeriesProofs -----------------------------
(***************************************************************************)
(* The burn series and the mining samples.  No writer takes a burn out of  *)
(* the series, and pointer and run marker tell the truth: for a chain of   *)
(* any length, any budgets, gaps and crashes, under every interleaving of  *)
(* the live scan and the backfill.  Pruning and late samples cost no epoch *)
(* its peak, and no epoch that is kept a sample: for any number of epochs  *)
(* kept and of solutions counted.                                          *)
(***************************************************************************)
EXTENDS BurnSeries, MiningSamples, SetOrderTheorems, FiniteSetTheorems, TLAPS

-----------------------------------------------------------------------------
(* The burn series. *)

\* bob.status() answers whenever it is asked.
Answering == StatusUp \subseteq {TRUE}

\* An operator's rescan starts at the chain's first tick.
FromTheFirst == Rescans \subseteq {1}

-----------------------------------------------------------------------------
(* The inductive invariant. *)

LivePass ==
  [pc : {"off", "scan", "put", "point"}, start : Int, tick : Int, day : Int, budget : Int,
   to : Int, found : SUBSET Burns]

FillPass ==
  [pc : {"off", "date", "scan", "put", "mark"}, today : Int, outer : Int, lo : Int, hi : Int,
   at : Int, calls : Int, to : Int, found : SUBSET Burns, reached : Int, gap : BOOLEAN]

\* The types, as far as the argument needs them.
BurnTypes ==
  /\ head \in Int /\ indexed \in Int
  /\ buckets \subseteq [from : Int, to : Int, day : Int, found : SUBSET Burns]
  /\ scan \in [last : Int, first : Int]
  /\ runs \subseteq [from : Int, to : Int]
  /\ live \in LivePass /\ fill \in FillPass

\* A bucket counts burns of its own span only.
SpansHold == \A b \in buckets : \A t \in b.found : b.from <= t /\ t <= b.to

\* All burns of a span, and that the series has them.
BurnsOf(from, to)    == {t \in Burns : from <= t /\ t <= to}
AllCounted(from, to) == \A t \in BurnsOf(from, to) : Counted(t)

\* A live pass stays below what is indexed, so it finds all there is, and has
\* it counted before it moves the pointer.
LiveSound ==
  /\ live.pc # "off" => live.tick <= indexed
  /\ live.pc = "put" => live.found = BurnsOf(live.start, live.to)
  /\ live.pc = "point" => AllCounted(live.start, live.to)

\* Before the range it is at, a backfill has counted all of its window.
BehindCounted == AllCounted(fill.lo, Least(RangeFrom(fill.at) - 1, fill.hi))

FillSound ==
  /\ fill.pc # "off" => fill.hi <= indexed /\ fill.hi = fill.outer
  /\ fill.pc = "date" => fill.reached = fill.lo - 1
  /\ fill.pc = "scan" => BehindCounted /\ fill.reached < RangeFrom(fill.at)
  /\ fill.pc = "put" =>
       /\ BehindCounted
       /\ fill.found = BurnsOf(RangeFrom(fill.at), fill.to)
       /\ fill.to <= RangeTo(fill.at)
       /\ fill.reached <= Most(RangeFrom(fill.at) - 1, fill.to)
  /\ fill.pc = "mark" => AllCounted(fill.lo, Least(fill.reached, fill.hi))

BurnInv ==
  BurnTypes /\ SpansHold /\ LiveSound /\ FillSound /\ RecordedRunIsCounted

\* What a step never does: a burn that was counted is counted still.
StaysCounted == \A t \in Burns : Counted(t) => Counted(t)'

-----------------------------------------------------------------------------
(* Ranges and spans. *)

\* Ticks are numbers.
LEMMA BurnsAreTicks == Burns \subseteq Nat /\ Burns \subseteq 0..MaxTick /\ MaxTick \in Nat
  BY TickAssumption DEF Ticks

\* The lesser and the greater of two.
LEMMA LeastOf ==
  ASSUME NEW a \in Int, NEW b \in Int
  PROVE  /\ Least(a, b) \in Int /\ Least(a, b) <= a /\ Least(a, b) <= b
         /\ Most(a, b) \in Int /\ a <= Most(a, b) /\ b <= Most(a, b)
  BY DEF Least, Most

\* The day of a tick, and where a range of the backfill begins and ends.
LEMMA RangeFacts ==
  ASSUME BurnTypes
  PROVE  /\ \A d \in Int : RangeFrom(d) \in Int /\ RangeTo(d) \in Int
         /\ \A d \in Int : RangeTo(d) <= fill.hi
         /\ \A d \in Int : RangeTo(d) < RangeFrom(d + 1) /\ RangeFrom(d) <= RangeFrom(d + 1)
         /\ \A d, t \in Int : fill.lo <= t /\ t <= fill.hi /\ t < RangeFrom(d + 1) => t <= RangeTo(d)
         /\ DayOf(fill.lo) \in Int /\ DayOf(fill.hi) \in Int
         /\ RangeFrom(DayOf(fill.lo)) = fill.lo
  <1>1. DayLen \in Nat \ {0} /\ fill.lo \in Int /\ fill.hi \in Int
    BY TickAssumption DEF BurnTypes, FillPass
  <1>2. \A d \in Int : d * DayLen \in Int /\ (d - 1) * DayLen = d * DayLen - DayLen
    <2> SUFFICES ASSUME NEW d \in Int
                 PROVE  d * DayLen \in Int /\ (d - 1) * DayLen = d * DayLen - DayLen
      OBVIOUS
    <2> QED
      BY <1>1
  <1>3. \A d \in Int : /\ RangeFrom(d) = Most(fill.lo, d * DayLen - DayLen + 1)
                       /\ RangeFrom(d + 1) = Most(fill.lo, d * DayLen + 1)
                       /\ RangeTo(d) = Least(fill.hi, d * DayLen)
    BY <1>1, <1>2 DEF RangeFrom, RangeTo, FirstOf
  <1>4. /\ DayOf(fill.lo) \in Int /\ DayOf(fill.hi) \in Int
        /\ DayOf(fill.lo) * DayLen - DayLen + 1 <= fill.lo
    BY <1>1 DEF DayOf
  <1>5. ASSUME NEW d \in Int
        PROVE  /\ RangeFrom(d) \in Int /\ RangeTo(d) \in Int /\ RangeTo(d) <= fill.hi
               /\ RangeTo(d) < RangeFrom(d + 1) /\ RangeFrom(d) <= RangeFrom(d + 1)
               /\ \A t \in Int : fill.lo <= t /\ t <= fill.hi /\ t < RangeFrom(d + 1) => t <= RangeTo(d)
    <2> DEFINE p == d * DayLen
    <2>1. /\ p \in Int
          /\ RangeFrom(d) = Most(fill.lo, p - DayLen + 1)
          /\ RangeFrom(d + 1) = Most(fill.lo, p + 1)
          /\ RangeTo(d) = Least(fill.hi, p)
      BY <1>2, <1>3
    <2> HIDE DEF p
    <2> QED
      BY <1>1, <2>1 DEF Least, Most
  <1>6. RangeFrom(DayOf(fill.lo)) = fill.lo
    <2> DEFINE p == DayOf(fill.lo) * DayLen
    <2>1. p \in Int /\ RangeFrom(DayOf(fill.lo)) = Most(fill.lo, p - DayLen + 1) /\ p - DayLen + 1 <= fill.lo
      BY <1>2, <1>3, <1>4
    <2> HIDE DEF p
    <2> QED
      BY <1>1, <2>1 DEF Most
  <1> QED
    BY <1>4, <1>5, <1>6

\* Store.put_burn_bucket with all burns of its span takes none out of the series:
\* the buckets it supersedes have no others.
LEMMA PutKeepsCounted ==
  ASSUME BurnTypes, SpansHold, NEW from \in Int, NEW to \in Int, NEW day \in Int,
         PutBucket(from, to, day, BurnsOf(from, to))
  PROVE  /\ SpansHold' /\ StaysCounted /\ AllCounted(from, to)'
         /\ buckets' \subseteq [from : Int, to : Int, day : Int, found : SUBSET Burns]
  <1> DEFINE new == [from |-> from, to |-> to, day |-> day, found |-> BurnsOf(from, to)]
  <1>1. /\ buckets' = {b \in buckets : ~(b.day = day /\ Inside(b, from, to))} \cup {new}
        /\ new \in [from : Int, to : Int, day : Int, found : SUBSET Burns]
    <2>1. BurnsOf(from, to) \in SUBSET Burns
      BY DEF BurnsOf
    <2> QED
      BY <2>1 DEF PutBucket
  <1>2. \A t \in new.found : t \in Burns /\ from <= t /\ t <= to
    BY DEF BurnsOf
  <1>3. AllCounted(from, to)'
    <2>1. new \in buckets' /\ new.found = BurnsOf(from, to)
      BY <1>1
    <2> HIDE DEF new
    <2> QED
      BY <2>1 DEF AllCounted, Counted
  <1>4. StaysCounted
    <2> SUFFICES ASSUME NEW t \in Burns, NEW b \in buckets, t \in b.found
                 PROVE  Counted(t)'
      BY DEF StaysCounted, Counted
    <2>1. CASE b \in buckets'
      BY <2>1 DEF Counted
    <2>2. CASE b \notin buckets'
      <3>1. Inside(b, from, to)
        BY <1>1, <2>2
      <3>2. from <= t /\ t <= to
        <4>1. b.from <= t /\ t <= b.to /\ b.from \in Int /\ b.to \in Int /\ t \in Int
          BY BurnsAreTicks DEF SpansHold, BurnTypes
        <4> QED
          BY <3>1, <4>1 DEF Inside
      <3> QED
        BY <1>3, <3>2 DEF AllCounted, BurnsOf
    <2> QED
      BY <2>1, <2>2
  <1>5. SpansHold'
    BY <1>1, <1>2 DEF SpansHold
  <1>6. buckets' \subseteq [from : Int, to : Int, day : Int, found : SUBSET Burns]
    BY <1>1 DEF BurnTypes
  <1> QED
    BY <1>3, <1>4, <1>5, <1>6

\* A scan stops within what it was asked for, whatever fails.
LEMMA StopFacts ==
  ASSUME NEW from \in Int, NEW end \in Int, NEW budget \in Int,
         NEW to \in StopsAt(from, end, budget)
  PROVE  to \in Int /\ to <= end
  <1>1. \A k \in Int : from - 1 + k * Chunk \in Int
    <2> SUFFICES ASSUME NEW k \in Int PROVE from - 1 + k * Chunk \in Int
      OBVIOUS
    <2> QED
      BY TickAssumption
  <1> DEFINE full == Least(end, from - 1 + budget * Chunk)
  <1>2. full \in Int /\ full <= end
    BY <1>1, LeastOf
  <1>3. \/ to \in {full}
        \/ to \in {from - 1 + k * Chunk : k \in {k \in 0..budget : from - 1 + k * Chunk < full}}
    BY Zenon DEF StopsAt
  <1> HIDE DEF full
  <1> QED
    BY <1>1, <1>2, <1>3

\* Below what is indexed a scan finds all burns.
LEMMA AllFound ==
  ASSUME indexed \in Int, NEW from \in Int, NEW to \in Int, to <= indexed
  PROVE  BurnsIn(from, to) = BurnsOf(from, to)
  <1>1. ASSUME NEW t \in Burns, t <= to PROVE t <= indexed
    BY <1>1, BurnsAreTicks
  <1> QED
    BY <1>1 DEF BurnsIn, BurnsOf

-----------------------------------------------------------------------------
(* What a step of one writer leaves alone of the other's. *)

\* A step that writes no bucket.
LEMMA SameBuckets ==
  ASSUME BurnInv, UNCHANGED buckets
  PROVE  SpansHold' /\ StaysCounted
  BY DEF BurnInv, SpansHold, StaysCounted, Counted

\* What is counted of a span stays counted.
LEMMA SpanStays ==
  ASSUME StaysCounted, NEW from, NEW to, AllCounted(from, to)
  PROVE  AllCounted(from, to)'
  BY DEF StaysCounted, AllCounted, BurnsOf

\* A backfill under way, and the runs on record.
LEMMA FillStays ==
  ASSUME BurnInv, StaysCounted, UNCHANGED <<fill, runs>>, indexed' \in Int, indexed <= indexed'
  PROVE  FillSound' /\ RecordedRunIsCounted'
  <1>1. RecordedRunIsCounted'
    BY DEF BurnInv, RecordedRunIsCounted, StaysCounted
  <1>2. \A d : RangeFrom(d)' = RangeFrom(d) /\ RangeTo(d)' = RangeTo(d)
    BY DEF RangeFrom, RangeTo
  <1>3. BehindCounted => BehindCounted'
    BY <1>2, SpanStays DEF BehindCounted
  <1>4. AllCounted(fill.lo, Least(fill.reached, fill.hi))
          => AllCounted(fill.lo, Least(fill.reached, fill.hi))'
    BY SpanStays
  <1>5. fill.hi \in Int /\ indexed \in Int
    BY DEF BurnInv, BurnTypes, FillPass
  <1> QED
    BY <1>1, <1>2, <1>3, <1>4, <1>5 DEF BurnInv, FillSound

\* A live pass under way.
LEMMA LiveStays ==
  ASSUME BurnInv, StaysCounted, UNCHANGED live, indexed' \in Int, indexed <= indexed'
  PROVE  LiveSound'
  <1>1. AllCounted(live.start, live.to) => AllCounted(live.start, live.to)'
    BY SpanStays
  <1>2. live.tick \in Int /\ indexed \in Int
    BY DEF BurnInv, BurnTypes, LivePass
  <1> QED
    BY <1>1, <1>2 DEF BurnInv, LiveSound

-----------------------------------------------------------------------------
(* The live scan. *)

\* A pass begins below what is indexed.
LEMMA LiveStartKeeps ==
  ASSUME Answering, BurnInv, NEW from \in Int, NEW answers \in StatusUp, LiveStart(from, answers)
  PROVE  BurnInv' /\ StaysCounted
  <1> DEFINE tick == Least(head, indexed)
  <1>1. UNCHANGED <<head, indexed, buckets, scan, fill, runs>>
    BY DEF LiveStart, chain, fills
  <1>2. Reach(answers) = tick /\ tick \in Int /\ tick <= indexed
    <2>1. answers = TRUE
      BY DEF Answering
    <2>2. Reach(answers) = tick
      BY <2>1 DEF Reach
    <2> QED
      BY <2>2, LeastOf DEF BurnInv, BurnTypes
  <1>3. \A b, t \in Int : Calls(b, t) \in Int
    BY TickAssumption DEF Calls
  <1>4. Today \in Int /\ ColdStart(tick) \in Int /\ Resume \in Int
    <2>1. Chunk * LiveCalls \in Int
      BY TickAssumption, BudgetAssumption
    <2>2. ColdStart(tick) \in Int
      BY <1>2, <2>1 DEF ColdStart, Most
    <2> QED
      BY <2>2, TickAssumption DEF Today, DayOf, Resume, BurnInv, BurnTypes
  <1> HIDE DEF tick
  <1>5. PICK begin \in Int :
          live' = [LiveOff EXCEPT
                     !.pc = "scan", !.start = begin, !.tick = tick, !.day = Today,
                     !.budget = Most(LiveCalls, Least(CatchUpCalls, Calls(begin, tick)))]
    BY <1>2, <1>4 DEF LiveStart
  <1>6. Most(LiveCalls, Least(CatchUpCalls, Calls(begin, tick))) \in Int
    <2>1. Calls(begin, tick) \in Int /\ CatchUpCalls \in Int /\ LiveCalls \in Int
      BY <1>2, <1>3, BudgetAssumption
    <2>2. Least(CatchUpCalls, Calls(begin, tick)) \in Int
      BY <2>1, LeastOf
    <2> QED
      BY <2>1, <2>2, LeastOf
  <1>7. live' \in LivePass /\ live'.pc = "scan" /\ live'.tick = tick
    <2>1. LiveOff \in LivePass
      BY DEF LiveOff, LivePass
    <2> QED
      BY <1>2, <1>4, <1>5, <1>6, <2>1, Zenon DEF LivePass
  <1>8. SpansHold' /\ StaysCounted
    BY <1>1, SameBuckets
  <1>9. FillSound' /\ RecordedRunIsCounted'
    BY <1>1, <1>8, FillStays DEF BurnInv, BurnTypes
  <1>10. LiveSound' /\ BurnTypes'
    BY <1>1, <1>2, <1>7 DEF LiveSound, BurnInv, BurnTypes
  <1> QED
    BY <1>8, <1>9, <1>10 DEF BurnInv

\* It finds all burns it passes.
LEMMA LiveScanKeeps ==
  ASSUME BurnInv, NEW to \in StopsAt(live.start, live.tick, live.budget), LiveScan(to)
  PROVE  BurnInv' /\ StaysCounted
  <1>1. live \in LivePass /\ live.tick <= indexed /\ indexed \in Int
    BY DEF BurnInv, BurnTypes, LiveSound, LiveScan
  <1>2. to \in Int /\ to <= indexed
    <2>1. live.start \in Int /\ live.tick \in Int /\ live.budget \in Int
      BY <1>1 DEF LivePass
    <2> QED
      BY <1>1, <2>1, StopFacts
  <1>3. BurnsIn(live.start, to) = BurnsOf(live.start, to)
    BY <1>1, <1>2, AllFound DEF LivePass
  <1>4. UNCHANGED <<head, indexed, buckets, scan, fill, runs>>
    BY DEF LiveScan, chain, fills
  <1>5. live' = [live EXCEPT !.pc = "put", !.to = to, !.found = BurnsOf(live.start, to)]
    BY <1>3 DEF LiveScan
  <1>6. /\ live'.pc = "put" /\ live'.to = to /\ live'.found = BurnsOf(live.start, to)
        /\ live'.start = live.start /\ live'.tick = live.tick
    BY <1>1, <1>5, Zenon DEF LivePass
  <1>7. live' \in LivePass
    <2>1. BurnsOf(live.start, to) \in SUBSET Burns
      BY DEF BurnsOf
    <2> QED
      BY <1>1, <1>2, <1>5, <2>1, Zenon DEF LivePass
  <1>8. SpansHold' /\ StaysCounted
    BY <1>4, SameBuckets
  <1>9. FillSound' /\ RecordedRunIsCounted'
    BY <1>1, <1>4, <1>8, FillStays
  <1>10. LiveSound' /\ BurnTypes'
    BY <1>1, <1>4, <1>6, <1>7 DEF LiveSound, BurnInv, BurnTypes
  <1> QED
    BY <1>8, <1>9, <1>10 DEF BurnInv

\* Its bucket spans what it found and so holds all burns of that span.
LEMMA LivePutKeeps ==
  ASSUME BurnInv, LivePut
  PROVE  BurnInv' /\ StaysCounted
  <1>1. /\ live \in LivePass /\ live.pc = "put" /\ live.tick <= indexed /\ indexed \in Int
        /\ live.found = BurnsOf(live.start, live.to)
        /\ BurnTypes /\ SpansHold
    BY DEF BurnInv, BurnTypes, LiveSound, LivePut
  <1>2. UNCHANGED <<head, indexed, scan, fill, runs>>
    BY DEF LivePut, chain, fills
  <1>3. live' \in LivePass /\ live' = [live EXCEPT !.pc = "point"]
    BY <1>1 DEF LivePut, LivePass
  <1>4. /\ SpansHold' /\ StaysCounted /\ AllCounted(live.start, live.to)'
        /\ buckets' \subseteq [from : Int, to : Int, day : Int, found : SUBSET Burns]
    <2>1. CASE live.found = {}
      <3>1. UNCHANGED buckets
        BY <2>1 DEF LivePut
      <3>2. SpansHold' /\ StaysCounted
        BY <3>1, SameBuckets
      <3>3. BurnsOf(live.start, live.to) = {}
        BY <1>1, <2>1
      <3>4. AllCounted(live.start, live.to)
        BY <3>3 DEF AllCounted
      <3>5. AllCounted(live.start, live.to)'
        BY <1>3, <3>2, <3>4, SpanStays DEF LivePass
      <3> QED
        BY <1>1, <3>1, <3>2, <3>5 DEF BurnTypes
    <2>2. CASE live.found # {}
      <3> DEFINE from == CHOOSE t \in live.found : \A u \in live.found : t <= u
                 to   == CHOOSE t \in live.found : \A u \in live.found : u <= t
      <3>1. /\ live.found \in SUBSET Nat /\ live.found \in SUBSET (0..MaxTick)
            /\ MaxTick \in Nat /\ live.found \in SUBSET Burns
        BY <1>1, BurnsAreTicks DEF LivePass
      <3>2. from \in live.found /\ \A u \in live.found : from <= u
        BY <2>2, <3>1, LeastFound
      <3>3. to \in live.found /\ \A u \in live.found : u <= to
        BY <2>2, <3>1, GreatestFound
      <3>4. PutBucket(from, to, live.day, live.found)
        BY <2>2 DEF LivePut
      <3> HIDE DEF from, to
      <3>5. from \in Int /\ to \in Int /\ live.day \in Int
        BY <1>1, <3>1, <3>2, <3>3 DEF LivePass
      <3>6. live.found = BurnsOf(from, to)
        <4>1. ASSUME NEW t \in live.found PROVE t \in BurnsOf(from, to)
          BY <3>1, <3>2, <3>3 DEF BurnsOf
        <4>2. ASSUME NEW t \in BurnsOf(from, to) PROVE t \in live.found
          <5>1. /\ from \in Burns /\ live.start <= from /\ to <= live.to
                /\ live.start \in Int /\ live.to \in Int
            BY <1>1, <3>2, <3>3 DEF BurnsOf, LivePass
          <5>2. t \in Burns /\ t \in Int /\ from <= t /\ t <= to
            BY BurnsAreTicks DEF BurnsOf
          <5>3. live.start <= t /\ t <= live.to
            BY <3>5, <5>1, <5>2
          <5> QED
            BY <1>1, <5>2, <5>3 DEF BurnsOf
        <4> QED
          BY <4>1, <4>2
      <3>7. /\ SpansHold' /\ StaysCounted /\ \A u \in BurnsOf(from, to) : Counted(u)'
            /\ buckets' \subseteq [from : Int, to : Int, day : Int, found : SUBSET Burns]
        <4>1. PICK f \in Int, t \in Int, d \in Int : f = from /\ t = to /\ d = live.day
          BY <3>5
        <4>2. PutBucket(f, t, d, BurnsOf(f, t))
          BY <3>4, <3>6, <4>1 DEF PutBucket
        <4>3. /\ SpansHold' /\ StaysCounted /\ AllCounted(f, t)'
              /\ buckets' \subseteq [from : Int, to : Int, day : Int, found : SUBSET Burns]
          BY <1>1, <4>2, PutKeepsCounted
        <4>4. \A u \in BurnsOf(from, to) : Counted(u)'
          BY <4>1, <4>3 DEF AllCounted
        <4> QED
          BY <4>3, <4>4
      <3>8. \A t \in live.found : Counted(t)'
        BY <3>6, <3>7
      <3>9. AllCounted(live.start, live.to)'
        <4>1. live'.start = live.start /\ live'.to = live.to
          BY <1>1, <1>3 DEF LivePass
        <4>2. \A t \in BurnsOf(live.start, live.to) : Counted(t)'
          BY <1>1, <3>8
        <4> QED
          BY <4>1, <4>2 DEF AllCounted
      <3> QED
        BY <3>7, <3>9
    <2> QED
      BY <2>1, <2>2
  <1>5. FillSound' /\ RecordedRunIsCounted'
    BY <1>1, <1>2, <1>4, FillStays
  <1>6. live'.pc = "point" /\ live'.tick = live.tick
    BY <1>1, <1>3 DEF LivePass
  <1>7. LiveSound' /\ BurnTypes'
    BY <1>1, <1>2, <1>3, <1>4, <1>6 DEF LiveSound, BurnTypes
  <1> QED
    BY <1>4, <1>5, <1>7 DEF BurnInv

\* The pass ends, at its pointer or before.
LEMMA LiveEndKeeps ==
  ASSUME BurnInv, LivePoint \/ LiveDies
  PROVE  BurnInv' /\ StaysCounted
  <1>1. UNCHANGED <<head, indexed, buckets, fill, runs>> /\ live' = LiveOff
    BY DEF LivePoint, LiveDies, chain, fills
  <1>2. scan' \in [last : Int, first : Int]
    <2>1. live \in LivePass /\ scan \in [last : Int, first : Int]
      BY DEF BurnInv, BurnTypes
    <2> QED
      BY <2>1 DEF LivePoint, LiveDies, LivePass
  <1>3. LiveOff \in LivePass /\ LiveOff.pc = "off"
    BY DEF LiveOff, LivePass
  <1>4. SpansHold' /\ StaysCounted
    BY <1>1, SameBuckets
  <1>5. FillSound' /\ RecordedRunIsCounted'
    BY <1>1, <1>4, FillStays DEF BurnInv, BurnTypes
  <1>6. LiveSound' /\ BurnTypes'
    BY <1>1, <1>2, <1>3 DEF LiveSound, BurnInv, BurnTypes
  <1> QED
    BY <1>4, <1>5, <1>6 DEF BurnInv

-----------------------------------------------------------------------------
(* The backfill. *)

\* A run's window ends below what is indexed.
LEMMA FillStartKeeps ==
  ASSUME Answering, BurnInv, NEW answers \in StatusUp, NEW again \in StatusUp,
         FillStart(answers, again)
  PROVE  BurnInv' /\ StaysCounted
  <1> DEFINE top == Least(head, indexed)
             lo  == WindowFrom(Today, top)
  <1>1. UNCHANGED <<head, indexed, buckets, scan, live, runs>>
    BY DEF FillStart, chain
  <1>2. top \in Int /\ top <= indexed /\ Least(top, indexed) = top
    BY DEF Least, BurnInv, BurnTypes
  <1>3. Today \in Int /\ lo \in Int /\ DayOf(lo) \in Int
    <2>1. \A t \in Int : DayOf(t) \in Int
      BY TickAssumption DEF DayOf
    <2>2. \A d \in Int : FirstOf(d) \in Int
      <3> SUFFICES ASSUME NEW d \in Int PROVE FirstOf(d) \in Int
        OBVIOUS
      <3> QED
        BY TickAssumption DEF FirstOf
    <2>3. Today \in Int
      BY <2>1 DEF Today, BurnInv, BurnTypes
    <2>4. FirstOf(Today - FillDays + 1) \in Int
      BY <2>2, <2>3, BudgetAssumption
    <2>5. lo \in Int
      BY <1>2, <2>4, LeastOf DEF WindowFrom
    <2> HIDE DEF lo
    <2> QED
      BY <2>1, <2>3, <2>5
  <1>4. fill' = [FillOff EXCEPT
                   !.pc = "date", !.today = Today, !.outer = top,
                   !.lo = lo, !.hi = top, !.at = DayOf(lo), !.reached = lo - 1]
    <2>1. answers = TRUE /\ again = TRUE
      BY DEF Answering
    <2>2. Reach(answers) = top
      BY <2>1 DEF Reach
    <2> QED
      BY <1>2, <2>1, <2>2 DEF FillStart
  <1> HIDE DEF top, lo
  <1>5. /\ fill' \in FillPass /\ fill'.pc = "date" /\ fill'.hi = top /\ fill'.outer = top
        /\ fill'.reached = lo - 1 /\ fill'.lo = lo
    <2>1. FillOff \in FillPass
      BY DEF FillOff, FillPass
    <2>2. lo - 1 \in Int
      BY <1>3
    <2> QED
      BY <1>2, <1>3, <1>4, <2>1, <2>2, Zenon DEF FillPass
  <1>6. SpansHold' /\ StaysCounted
    BY <1>1, SameBuckets
  <1>7. LiveSound'
    BY <1>1, <1>6, LiveStays DEF BurnInv, BurnTypes
  <1>8. RecordedRunIsCounted'
    BY <1>1, <1>6 DEF BurnInv, RecordedRunIsCounted, StaysCounted
  <1>9. FillSound' /\ BurnTypes'
    BY <1>1, <1>2, <1>5 DEF FillSound, BurnInv, BurnTypes
  <1> QED
    BY <1>6, <1>7, <1>8, <1>9 DEF BurnInv

\* Once the days are dated the scan begins at the window's first tick.
LEMMA FillDateKeeps ==
  ASSUME BurnInv, FillDate
  PROVE  BurnInv' /\ StaysCounted
  <1>1. UNCHANGED <<head, indexed, buckets, scan, live, runs>>
    BY DEF FillDate, chain
  <1>2. /\ fill \in FillPass /\ BurnTypes /\ fill.hi <= indexed /\ fill.hi = fill.outer
        /\ fill.reached = fill.lo - 1 /\ fill.pc = "date"
    BY DEF BurnInv, BurnTypes, FillSound, FillDate
  <1>3. DayOf(fill.lo) \in Int /\ RangeFrom(DayOf(fill.lo)) = fill.lo
    BY <1>2, RangeFacts
  <1>4. /\ fill' \in FillPass /\ fill'.lo = fill.lo /\ fill'.hi = fill.hi
        /\ fill'.outer = fill.outer /\ fill'.reached = fill.reached
        /\ fill'.pc = "date" \/ (fill'.pc = "scan" /\ fill'.at = DayOf(fill.lo))
    <2>1. CASE fill' = [fill EXCEPT !.at = @ + 1]
      <3>1. fill.at + 1 \in Int
        BY <1>2 DEF FillPass
      <3> QED
        BY <1>2, <2>1, <3>1 DEF FillPass
    <2>2. CASE fill' = [fill EXCEPT !.pc = "scan", !.at = DayOf(fill.lo)]
      BY <1>2, <1>3, <2>2, Zenon DEF FillPass
    <2> QED
      BY <2>1, <2>2 DEF FillDate
  <1>5. SpansHold' /\ StaysCounted
    BY <1>1, SameBuckets
  <1>6. LiveSound'
    BY <1>1, <1>5, LiveStays DEF BurnInv, BurnTypes
  <1>7. RecordedRunIsCounted'
    BY <1>1, <1>5 DEF BurnInv, RecordedRunIsCounted, StaysCounted
  <1>8. fill'.pc = "scan" => BehindCounted' /\ fill'.reached < RangeFrom(fill.at)'
    <2> SUFFICES ASSUME fill'.pc = "scan"
                 PROVE  BehindCounted' /\ fill'.reached < RangeFrom(fill.at)'
      OBVIOUS
    <2>1. RangeFrom(fill.at)' = fill.lo
      <3>1. fill'.at = DayOf(fill.lo) /\ fill'.lo = fill.lo
        BY <1>4
      <3>2. RangeFrom(fill.at)' = RangeFrom(DayOf(fill.lo))
        BY <3>1 DEF RangeFrom
      <3> QED
        BY <1>3, <3>2
    <2>2. fill.lo \in Int /\ fill.hi \in Int
      BY <1>2 DEF FillPass
    <2>3. BurnsOf(fill.lo, Least(fill.lo - 1, fill.hi)) = {}
      <3>1. ASSUME NEW t \in Burns PROVE ~(fill.lo <= t /\ t <= Least(fill.lo - 1, fill.hi))
        BY <2>2, BurnsAreTicks DEF Least
      <3> QED
        BY <3>1 DEF BurnsOf
    <2>4. BehindCounted'
      BY <1>4, <2>1, <2>3 DEF BehindCounted, AllCounted
    <2> QED
      BY <1>2, <1>4, <2>1, <2>2, <2>4
  <1>9. FillSound' /\ BurnTypes'
    BY <1>1, <1>2, <1>4, <1>8 DEF FillSound, BurnTypes
  <1> QED
    BY <1>5, <1>6, <1>7, <1>9 DEF BurnInv

\* A range is scanned, as far as the budget and the gaps allow.
LEMMA FillScanKeeps ==
  ASSUME BurnInv,
         NEW to \in StopsAt(RangeFrom(fill.at), RangeTo(fill.at), FillCalls - fill.calls),
         FillScan(to)
  PROVE  BurnInv' /\ StaysCounted
  <1> DEFINE from == RangeFrom(fill.at)
  <1>1. UNCHANGED <<head, indexed, buckets, scan, live, runs>>
    BY DEF FillScan, chain
  <1>2. /\ fill \in FillPass /\ BurnTypes /\ fill.hi <= indexed /\ fill.hi = fill.outer
        /\ fill.reached < from /\ BehindCounted /\ indexed \in Int
    BY DEF BurnInv, BurnTypes, FillSound, FillScan
  <1>3. fill.at \in Int /\ fill.calls \in Int /\ fill.hi \in Int /\ fill.reached \in Int
    BY <1>2 DEF FillPass
  <1>4. from \in Int /\ RangeTo(fill.at) \in Int /\ RangeTo(fill.at) <= fill.hi
    BY <1>2, <1>3, RangeFacts
  <1> HIDE DEF from
  <1>5. to \in Int /\ to <= RangeTo(fill.at) /\ to <= indexed
    <2>1. FillCalls - fill.calls \in Int
      BY <1>3, BudgetAssumption
    <2>2. \A f, e, b \in Int : to \in StopsAt(f, e, b) => to \in Int /\ to <= e
      BY StopFacts
    <2>3. to \in Int /\ to <= RangeTo(fill.at)
      BY <1>4, <2>1, <2>2 DEF from
    <2> QED
      BY <1>2, <1>3, <1>4, <2>3
  <1>6. BurnsIn(from, to) = BurnsOf(from, to)
    <2>1. \A f \in Int : BurnsIn(f, to) = BurnsOf(f, to)
      BY <1>2, <1>5, AllFound
    <2> QED
      BY <1>4, <2>1
  <1>7. PICK calls \in Int, gap \in BOOLEAN :
          fill' = [fill EXCEPT
                     !.pc = "put", !.to = to, !.found = BurnsOf(from, to), !.calls = calls,
                     !.reached = Most(@, to), !.gap = gap]
    <2>1. fill.calls + Calls(from, to) \in Int
      BY <1>3, <1>4, <1>5, TickAssumption DEF Calls
    <2> DEFINE gap == to < Least(RangeTo(fill.at), from - 1 + (FillCalls - fill.calls) * Chunk)
    <2>2. gap \in BOOLEAN
      OBVIOUS
    <2>3. fill' = [fill EXCEPT
                     !.pc = "put", !.to = to, !.found = BurnsIn(from, to),
                     !.calls = fill.calls + Calls(from, to), !.reached = Most(@, to), !.gap = gap]
      BY Zenon DEF FillScan, from
    <2> HIDE DEF gap
    <2> QED
      BY <1>6, <2>1, <2>2, <2>3, Zenon
  <1>8. Most(fill.reached, to) \in Int /\ Most(fill.reached, to) <= Most(from - 1, to)
    BY <1>2, <1>3, <1>4, <1>5 DEF Most
  <1>9. /\ fill' \in FillPass /\ fill'.pc = "put" /\ fill'.to = to
        /\ fill'.found = BurnsOf(from, to) /\ fill'.reached = Most(fill.reached, to)
        /\ fill'.lo = fill.lo /\ fill'.hi = fill.hi /\ fill'.outer = fill.outer
        /\ fill'.at = fill.at
    <2>1. BurnsOf(from, to) \in SUBSET Burns
      BY DEF BurnsOf
    <2> QED
      BY <1>2, <1>5, <1>7, <1>8, <2>1, Zenon DEF FillPass
  <1>10. SpansHold' /\ StaysCounted
    BY <1>1, SameBuckets
  <1>11. LiveSound'
    BY <1>1, <1>10, LiveStays DEF BurnInv, BurnTypes
  <1>12. RecordedRunIsCounted'
    BY <1>1, <1>10 DEF BurnInv, RecordedRunIsCounted, StaysCounted
  <1>13. /\ RangeFrom(fill.at)' = from /\ RangeTo(fill.at)' = RangeTo(fill.at)
         /\ BehindCounted'
    <2>1. /\ RangeFrom(fill.at)' = from /\ RangeTo(fill.at)' = RangeTo(fill.at)
      BY <1>9 DEF RangeFrom, RangeTo, from
    <2>2. AllCounted(fill.lo, Least(from - 1, fill.hi))
      BY <1>2 DEF BehindCounted, from
    <2> QED
      BY <1>1, <1>9, <2>1, <2>2 DEF BehindCounted, AllCounted, BurnsOf, Counted
  <1>14. FillSound' /\ BurnTypes'
    BY <1>1, <1>2, <1>5, <1>8, <1>9, <1>13 DEF FillSound, BurnTypes
  <1> QED
    BY <1>10, <1>11, <1>12, <1>14 DEF BurnInv

\* Its bucket is written; a range that was scanned whole hands over to the next.
LEMMA FillPutKeeps ==
  ASSUME BurnInv, FillPut
  PROVE  BurnInv' /\ StaysCounted
  <1> DEFINE from == RangeFrom(fill.at)
  <1>1. UNCHANGED <<head, indexed, scan, live, runs>>
    BY DEF FillPut, chain
  <1>2. /\ fill \in FillPass /\ BurnTypes /\ SpansHold /\ fill.hi <= indexed
        /\ fill.hi = fill.outer /\ BehindCounted /\ indexed \in Int
        /\ fill.found = BurnsOf(from, fill.to) /\ fill.to <= RangeTo(fill.at)
        /\ fill.reached <= Most(from - 1, fill.to)
    BY DEF BurnInv, BurnTypes, FillSound, FillPut
  <1>3. /\ fill.at \in Int /\ fill.hi \in Int /\ fill.lo \in Int /\ fill.to \in Int
        /\ fill.reached \in Int
    BY <1>2 DEF FillPass
  <1>4. /\ from \in Int /\ RangeTo(fill.at) \in Int /\ RangeTo(fill.at) <= fill.hi
        /\ RangeFrom(fill.at + 1) \in Int
        /\ RangeTo(fill.at) < RangeFrom(fill.at + 1) /\ from <= RangeFrom(fill.at + 1)
        /\ \A t \in Int : fill.lo <= t /\ t <= fill.hi /\ t < RangeFrom(fill.at + 1)
                           => t <= RangeTo(fill.at)
    <2>1. fill.at + 1 \in Int
      BY <1>3
    <2> QED
      BY <1>2, <1>3, <2>1, RangeFacts
  <1>5. /\ SpansHold' /\ StaysCounted /\ \A t \in BurnsOf(from, fill.to) : Counted(t)'
        /\ buckets' \subseteq [from : Int, to : Int, day : Int, found : SUBSET Burns]
    <2> HIDE DEF from
    <2>1. CASE fill.to >= from
      <3>1. PICK f \in Int, t \in Int, d \in Int : f = from /\ t = fill.to /\ d = fill.at
        BY <1>3, <1>4
      <3>2. PutBucket(f, t, d, BurnsOf(f, t))
        BY <1>2, <2>1, <3>1 DEF FillPut, PutBucket, from
      <3>3. /\ SpansHold' /\ StaysCounted /\ AllCounted(f, t)'
            /\ buckets' \subseteq [from : Int, to : Int, day : Int, found : SUBSET Burns]
        BY <1>2, <3>2, PutKeepsCounted
      <3> QED
        BY <3>1, <3>3 DEF AllCounted
    <2>2. CASE ~(fill.to >= from)
      <3>1. UNCHANGED buckets
        BY <2>2 DEF FillPut, from
      <3>2. BurnsOf(from, fill.to) = {}
        <4>1. ASSUME NEW t \in Burns PROVE ~(from <= t /\ t <= fill.to)
          BY <1>3, <1>4, <2>2, BurnsAreTicks
        <4> QED
          BY <4>1 DEF BurnsOf
      <3> QED
        BY <1>2, <3>1, <3>2, SameBuckets DEF BurnTypes
    <2> QED
      BY <2>1, <2>2
  <1> HIDE DEF from
  <1>6. /\ fill' \in FillPass /\ fill'.lo = fill.lo /\ fill'.hi = fill.hi
        /\ fill'.outer = fill.outer /\ fill'.reached = fill.reached
        /\ \/ fill'.pc = "mark"
           \/ fill'.pc = "scan" /\ fill'.at = fill.at + 1 /\ fill.to = RangeTo(fill.at)
    <2>1. fill.at + 1 \in Int
      BY <1>3
    <2>2. \/ fill' = [fill EXCEPT !.pc = "mark"]
          \/ fill' = [fill EXCEPT !.pc = "scan", !.at = fill.at + 1] /\ fill.to = RangeTo(fill.at)
      BY DEF FillPut
    <2>3. CASE fill' = [fill EXCEPT !.pc = "mark"]
      BY <1>2, <2>3 DEF FillPass
    <2>4. CASE fill' = [fill EXCEPT !.pc = "scan", !.at = fill.at + 1] /\ fill.to = RangeTo(fill.at)
      BY <1>2, <2>1, <2>4, Zenon DEF FillPass
    <2> QED
      BY <2>2, <2>3, <2>4
  <1>7. LiveSound'
    BY <1>1, <1>2, <1>5, LiveStays
  <1>8. RecordedRunIsCounted'
    BY <1>1, <1>5 DEF BurnInv, RecordedRunIsCounted, StaysCounted
  \* A burn of the window is behind the range or in what was scanned of it.
  <1>9. ASSUME NEW t \in Burns, fill.lo <= t, t <= fill.hi, t < from \/ t <= fill.to
        PROVE  Counted(t)'
    <2>1. t \in Int
      BY BurnsAreTicks
    <2>2. CASE t < from
      <3>1. t <= Least(from - 1, fill.hi)
        BY <1>3, <1>4, <1>9, <2>1, <2>2 DEF Least
      <3>2. Counted(t)
        BY <1>2, <1>9, <3>1 DEF BehindCounted, AllCounted, BurnsOf, from
      <3> QED
        BY <1>5, <3>2 DEF StaysCounted
    <2>3. CASE ~(t < from)
      <3>1. from <= t /\ t <= fill.to
        BY <1>4, <1>9, <2>1, <2>3
      <3> QED
        BY <1>5, <3>1 DEF BurnsOf
    <2> QED
      BY <2>2, <2>3
  <1>10. fill'.pc = "scan" => BehindCounted' /\ fill'.reached < RangeFrom(fill.at)'
    <2> SUFFICES ASSUME fill'.pc = "scan"
                 PROVE  BehindCounted' /\ fill'.reached < RangeFrom(fill.at)'
      OBVIOUS
    <2> DEFINE next == RangeFrom(fill.at + 1)
    <2>1. fill'.at = fill.at + 1 /\ fill.to = RangeTo(fill.at)
      BY <1>6
    <2>2. RangeFrom(fill.at)' = next
      BY <1>6, <2>1 DEF RangeFrom
    <2>3. next \in Int
      BY <1>4
    <2> HIDE DEF next
    <2>4. fill'.reached < next
      <3>1. RangeTo(fill.at) < next /\ from <= next
        BY <1>4 DEF next
      <3> QED
        BY <1>2, <1>3, <1>4, <1>6, <2>1, <2>3, <3>1 DEF Most
    <2>5. ASSUME NEW t \in Burns, fill.lo <= t, t <= Least(next - 1, fill.hi) PROVE Counted(t)'
      <3>1. t \in Int /\ t <= fill.hi /\ t < next
        BY <1>3, <2>3, <2>5, BurnsAreTicks DEF Least
      <3>2. t <= fill.to
        BY <1>4, <2>1, <2>5, <3>1 DEF next
      <3> QED
        BY <1>9, <2>5, <3>1, <3>2
    <2>6. BehindCounted'
      BY <1>6, <2>2, <2>5 DEF BehindCounted, AllCounted, BurnsOf
    <2> QED
      BY <2>2, <2>4, <2>6
  <1>11. AllCounted(fill.lo, Least(fill.reached, fill.hi))'
    <2>1. ASSUME NEW t \in Burns, fill.lo <= t, t <= Least(fill.reached, fill.hi)
          PROVE  Counted(t)'
      <3>1. t \in Int /\ t <= fill.hi /\ t <= fill.reached
        BY <1>3, <2>1, BurnsAreTicks DEF Least
      <3>2. t < from \/ t <= fill.to
        BY <1>2, <1>3, <1>4, <3>1 DEF Most
      <3> QED
        BY <1>9, <2>1, <3>1, <3>2
    <2> QED
      BY <1>6, <2>1 DEF AllCounted, BurnsOf
  <1>12. FillSound' /\ BurnTypes'
    BY <1>1, <1>2, <1>5, <1>6, <1>10, <1>11 DEF FillSound, BurnTypes
  <1> QED
    BY <1>5, <1>7, <1>8, <1>12 DEF BurnInv

\* A run that reached its end has counted its window when it is recorded.
LEMMA FillEndKeeps ==
  ASSUME BurnInv, FillMark \/ FillDies
  PROVE  BurnInv' /\ StaysCounted
  <1>1. UNCHANGED <<head, indexed, buckets, scan, live>> /\ fill' = FillOff
    BY DEF FillMark, FillDies, chain
  <1>2. FillOff \in FillPass /\ FillOff.pc = "off"
    BY DEF FillOff, FillPass
  <1>3. SpansHold' /\ StaysCounted
    BY <1>1, SameBuckets
  <1>4. LiveSound'
    BY <1>1, <1>3, LiveStays DEF BurnInv, BurnTypes
  <1>5. runs' \subseteq [from : Int, to : Int] /\ RecordedRunIsCounted'
    <2>1. /\ fill \in FillPass /\ runs \subseteq [from : Int, to : Int] /\ RecordedRunIsCounted
          /\ fill.pc # "off" => fill.hi = fill.outer
          /\ fill.pc = "mark" => AllCounted(fill.lo, Least(fill.reached, fill.hi))
      BY DEF BurnInv, BurnTypes, FillSound
    <2>2. CASE runs' = runs
      BY <1>1, <2>1, <2>2 DEF RecordedRunIsCounted, Counted
    <2>3. CASE /\ runs' = runs \cup {[from |-> fill.lo, to |-> fill.outer]}
               /\ fill.reached >= fill.hi /\ fill.pc = "mark"
      <3>1. fill.lo \in Int /\ fill.outer \in Int /\ fill.hi \in Int /\ fill.reached \in Int
        BY <2>1 DEF FillPass
      <3>2. Least(fill.reached, fill.hi) = fill.outer
        BY <2>1, <2>3, <3>1 DEF Least
      <3>3. \A t \in Burns : fill.lo <= t /\ t <= fill.outer => Counted(t)
        BY <2>1, <2>3, <3>2 DEF AllCounted, BurnsOf
      <3> QED
        BY <1>1, <2>1, <2>3, <3>1, <3>3 DEF RecordedRunIsCounted, Counted
    <2> QED
      BY <2>2, <2>3 DEF FillMark, FillDies
  <1>6. FillSound' /\ BurnTypes'
    BY <1>1, <1>2, <1>5 DEF FillSound, BurnInv, BurnTypes
  <1> QED
    BY <1>3, <1>4, <1>5, <1>6 DEF BurnInv

-----------------------------------------------------------------------------
(* Every step. *)

\* The chain and the index only grow.
LEMMA NetworkKeeps ==
  ASSUME BurnInv, NewTick \/ Index \/ UNCHANGED vars
  PROVE  BurnInv' /\ StaysCounted
  <1>1. /\ UNCHANGED <<buckets, scan, live, fill, runs>>
        /\ head' \in Int /\ indexed' \in Int /\ indexed <= indexed'
    BY DEF NewTick, Index, vars, fills, BurnInv, BurnTypes
  <1>2. SpansHold' /\ StaysCounted
    BY <1>1, SameBuckets
  <1>3. FillSound' /\ RecordedRunIsCounted' /\ LiveSound'
    BY <1>1, <1>2, FillStays, LiveStays
  <1>4. BurnTypes'
    BY <1>1 DEF BurnInv, BurnTypes
  <1> QED
    BY <1>2, <1>3, <1>4 DEF BurnInv

\* Nothing is scanned.
LEMMA BurnStarts == Init => BurnInv
  <1> SUFFICES ASSUME Init PROVE BurnInv
    OBVIOUS
  <1>1. LiveOff \in LivePass /\ FillOff \in FillPass /\ LiveOff.pc = "off" /\ FillOff.pc = "off"
    BY DEF LiveOff, LivePass, FillOff, FillPass
  <1>2. BurnTypes
    BY <1>1 DEF Init, BurnTypes, NoScan
  <1> QED
    BY <1>1, <1>2 DEF Init, BurnInv, SpansHold, LiveSound, FillSound, RecordedRunIsCounted

\* Every step keeps the invariant and what is counted.
LEMMA BurnInvKept ==
  ASSUME Answering, BurnInv, [Next]_vars
  PROVE  BurnInv' /\ StaysCounted
  <1>1. CASE NewTick \/ Index \/ UNCHANGED vars
    BY <1>1, NetworkKeeps
  <1>2. CASE Live
    <2>1. ASSUME NEW answers \in StatusUp, LiveStart(0, answers) PROVE BurnInv' /\ StaysCounted
      BY <2>1, LiveStartKeeps
    <2>2. CASE \E to \in StopsAt(live.start, live.tick, live.budget) : LiveScan(to)
      BY <2>2, LiveScanKeeps
    <2>3. CASE LivePut
      BY <2>3, LivePutKeeps
    <2>4. CASE LivePoint
      BY <2>4, LiveEndKeeps
    <2> QED
      BY <1>2, <2>1, <2>2, <2>3, <2>4 DEF Live
  <1>3. CASE Rescan
    <2>1. Rescans \subseteq Int
      BY TickAssumption DEF Ticks
    <2>2. PICK from \in Rescans, answers \in StatusUp : LiveStart(from, answers)
      BY <1>3 DEF Rescan
    <2> QED
      BY <2>1, <2>2, LiveStartKeeps
  <1>4. CASE Fill
    <2>1. CASE \E answers, again \in StatusUp : FillStart(answers, again)
      BY <2>1, FillStartKeeps
    <2>2. CASE FillDate
      BY <2>2, FillDateKeeps
    <2>3. CASE \E to \in StopsAt(RangeFrom(fill.at), RangeTo(fill.at), FillCalls - fill.calls) :
                 FillScan(to)
      BY <2>3, FillScanKeeps
    <2>4. CASE FillPut
      BY <2>4, FillPutKeeps
    <2>5. CASE FillMark
      BY <2>5, FillEndKeeps
    <2> QED
      BY <1>4, <2>1, <2>2, <2>3, <2>4, <2>5 DEF Fill
  <1>5. CASE LiveDies \/ FillDies
    BY <1>5, LiveEndKeeps, FillEndKeeps
  <1> QED
    BY <1>1, <1>2, <1>3, <1>4, <1>5 DEF Next

\* While Bob's status answers: both writers find all burns of what they put,
\* at any tick, budget, gap or crash.
THEOREM BurnInvHolds == Answering /\ Spec => []BurnInv
  <1>1. Init => BurnInv
    BY BurnStarts
  <1>2. Answering /\ BurnInv /\ [Next]_vars => BurnInv'
    BY BurnInvKept
  <1>3. Answering => Answering'
    BY DEF Answering
  <1> QED
    BY <1>1, <1>2, <1>3, PTL DEF Spec

\* Superseding a bucket takes no burn out of the series, whichever writer
\* supersedes and whatever the other is in the middle of (qdr/store.py
\* put_burn_bucket).
THEOREM NoBurnIsLost == Answering /\ Spec => CountedStaysCounted
  <1>1. Answering /\ BurnInv /\ [Next]_vars => [\A t \in Burns : Counted(t) => Counted(t)']_vars
    BY BurnInvKept DEF StaysCounted
  <1>2. Answering => Answering'
    BY DEF Answering
  <1> QED
    BY <1>1, <1>2, BurnInvHolds, PTL DEF Spec, CountedStaysCounted

\* A backfill run on record has counted its window (qdr/pipeline.py
\* backfill_burns).
THEOREM RunsTellTheTruth == Answering /\ Spec => []RecordedRunIsCounted
  <1>1. BurnInv => RecordedRunIsCounted
    BY DEF BurnInv
  <1> QED
    BY <1>1, BurnInvHolds, PTL

-----------------------------------------------------------------------------
(* The pointer. *)

\* What lies between the pointer and the start of a pass was reported.
GapReported ==
  live.pc # "off" /\ scan # NoScan =>
    \A t \in Burns : scan.last < t /\ t < live.start => t \in skipped

PointerInv == ScannedIsCounted /\ GapReported

\* A step that leaves the pointer and a pass' start alone.
LEMMA PointerStays ==
  ASSUME PointerInv, StaysCounted, UNCHANGED <<scan, skipped>>,
         live'.pc = "off" \/ (live.pc # "off" /\ live'.start = live.start)
  PROVE  PointerInv'
  BY DEF PointerInv, ScannedIsCounted, GapReported, StaysCounted

\* A pass begins behind the pointer, or reports what it leaves out.
LEMMA StartReports ==
  ASSUME BurnInv, PointerInv, NEW from \in {0, 1}, NEW answers, LiveStart(from, answers)
  PROVE  PointerInv'
  <1> DEFINE tick  == Reach(answers)
             start == IF from # 0 THEN from
                      ELSE IF scan # NoScan THEN Resume ELSE ColdStart(tick)
             lost  == tick - start > MaxLag
             begin == IF lost THEN ColdStart(tick) ELSE start
  <1>1. /\ UNCHANGED <<scan, buckets>>
        /\ skipped' = IF lost THEN skipped \cup start..(begin - 1) ELSE skipped
    BY DEF LiveStart
  <1>2. live'.start = begin
    BY DEF LiveStart, LiveOff
  <1>3. ScannedIsCounted'
    BY <1>1 DEF PointerInv, ScannedIsCounted, Counted
  <1>4. ASSUME scan # NoScan, NEW t \in Burns, scan.last < t, t < begin PROVE t \in skipped'
    <2>1. t \in Int /\ t >= 1 /\ scan.last \in Int
      BY TickAssumption DEF Ticks, BurnInv, BurnTypes
    <2>2. start \in Int /\ start <= t
      BY <1>4, <2>1 DEF Resume
    <2>3. tick \in Int
      BY DEF Reach, Least, BurnInv, BurnTypes
    <2>4. ColdStart(tick) \in Int
      <3>1. Chunk * LiveCalls \in Int
        BY TickAssumption, BudgetAssumption
      <3> QED
        BY <2>3, <3>1 DEF ColdStart, Most
    <2> HIDE DEF tick, start
    <2>5. lost
      BY <1>4, <2>1, <2>2
    <2> QED
      BY <1>1, <1>4, <2>1, <2>2, <2>4, <2>5
  <1> HIDE DEF begin, lost
  <1>5. GapReported'
    BY <1>1, <1>2, <1>4 DEF GapReported
  <1> QED
    BY <1>3, <1>5 DEF PointerInv

\* It is moved over what was counted or reported.
LEMMA PointMoves ==
  ASSUME BurnInv, PointerInv, LivePoint
  PROVE  PointerInv'
  <1>1. UNCHANGED <<buckets, skipped>> /\ live'.pc = "off"
    BY DEF LivePoint, LiveOff
  <1>2. /\ live \in LivePass /\ scan \in [last : Int, first : Int]
        /\ AllCounted(live.start, live.to)
    BY DEF BurnInv, BurnTypes, LiveSound, LivePoint
  <1>3. GapReported'
    BY <1>1 DEF GapReported
  <1>4. ASSUME NEW t \in Burns, scan'.first <= t, t <= scan'.last
        PROVE  Counted(t) \/ t \in skipped
    <2>1. t \in Int /\ live.start \in Int /\ live.to \in Int
      BY <1>2, BurnsAreTicks DEF LivePass
    <2>2. CASE live.to < live.start
      BY <1>4, <2>2 DEF LivePoint, PointerInv, ScannedIsCounted
    <2>3. CASE ~(live.to < live.start)
      <3>1. t <= live.to /\ scan'.first = IF scan = NoScan THEN live.start ELSE scan.first
        BY <1>4, <2>3 DEF LivePoint
      <3>2. CASE live.start <= t
        BY <1>2, <3>1, <3>2 DEF AllCounted, BurnsOf
      <3>3. CASE ~(live.start <= t)
        <4>1. scan # NoScan /\ scan.first <= t /\ t < live.start
          BY <1>4, <2>1, <3>1, <3>3
        <4>2. CASE t <= scan.last
          BY <4>1, <4>2 DEF PointerInv, ScannedIsCounted
        <4>3. CASE ~(t <= scan.last)
          BY <1>2, <2>1, <4>1, <4>3 DEF PointerInv, GapReported, LivePoint
        <4> QED
          BY <4>2, <4>3
      <3> QED
        BY <3>2, <3>3
    <2> QED
      BY <2>2, <2>3
  <1>5. ScannedIsCounted'
    BY <1>1, <1>4 DEF ScannedIsCounted, Counted
  <1> QED
    BY <1>3, <1>5 DEF PointerInv

\* Every step keeps it.
LEMMA PointerInvKept ==
  ASSUME Answering, FromTheFirst, BurnInv, PointerInv, [Next]_vars
  PROVE  PointerInv'
  <1>1. StaysCounted
    BY BurnInvKept
  <1>2. CASE (\E answers \in StatusUp : LiveStart(0, answers)) \/ Rescan
    BY <1>2, StartReports DEF Rescan, FromTheFirst
  <1>3. CASE LivePoint
    BY <1>3, PointMoves
  <1>4. CASE (\E to \in StopsAt(live.start, live.tick, live.budget) : LiveScan(to)) \/ LivePut
    <2>1. live \in LivePass
      BY DEF BurnInv, BurnTypes
    <2>2. UNCHANGED <<scan, skipped>> /\ live.pc # "off" /\ live'.start = live.start
      BY <1>4, <2>1, Zenon DEF LiveScan, LivePut, LivePass
    <2> QED
      BY <1>1, <2>2, PointerStays
  <1>5. CASE LiveDies \/ FillDies \/ Fill \/ NewTick \/ Index \/ UNCHANGED vars
    <2>1. CASE LiveDies
      <3>1. UNCHANGED <<scan, skipped>> /\ live'.pc = "off"
        BY <2>1 DEF LiveDies, LiveOff
      <3> QED
        BY <1>1, <3>1, PointerStays
    <2>2. ASSUME UNCHANGED <<scan, skipped, live>> PROVE PointerInv'
      BY <1>1, <2>2, PointerStays
    <2>3. CASE FillDies \/ NewTick \/ Index \/ UNCHANGED vars
      BY <2>2, <2>3 DEF FillDies, NewTick, Index, vars
    <2>4. CASE Fill
      BY <2>2, <2>4 DEF Fill, FillStart, FillDate, FillScan, FillPut, FillMark
    <2> QED
      BY <1>5, <2>1, <2>3, <2>4
  <1> QED
    BY <1>2, <1>3, <1>4, <1>5 DEF Next, Live

\* The live scan's pointer never passes a burn that is not in the series, unless
\* it was reported as skipped (qdr/pipeline.py scan_burns), while Bob's status
\* answers and rescans start at the first tick.
THEOREM PointerTellsTheTruth == Answering /\ FromTheFirst /\ Spec => []ScannedIsCounted
  <1>1. Init => PointerInv
    <2> SUFFICES ASSUME Init PROVE PointerInv
      OBVIOUS
    <2>1. \A t \in Burns : ~(t <= 0)
      BY TickAssumption DEF Ticks
    <2> QED
      BY <2>1 DEF Init, PointerInv, ScannedIsCounted, GapReported, NoScan, LiveOff
  <1>2. Answering /\ FromTheFirst /\ BurnInv /\ PointerInv /\ [Next]_vars => PointerInv'
    BY PointerInvKept
  <1>3. Answering /\ FromTheFirst => (Answering /\ FromTheFirst)'
    BY DEF Answering, FromTheFirst
  <1>4. PointerInv => ScannedIsCounted
    BY DEF PointerInv
  <1> QED
    BY <1>1, <1>2, <1>3, <1>4, BurnInvHolds, PTL DEF Spec

-----------------------------------------------------------------------------
(* The types, whatever the sources answer. *)

\* What a live pass holds: it begins at or before the tick it may reach.
LiveTypes ==
  /\ live \in LivePass /\ live.found \subseteq Burns
  /\ live.start \in 0..MaxTick /\ live.tick \in 0..MaxTick /\ live.day \in Days
  /\ live.to <= MaxTick

\* What a backfill holds: its window lies on the chain, and the day it is at in
\* the window.
FillTypes ==
  /\ fill \in FillPass /\ fill.found \subseteq Burns /\ fill.at \in Days
  /\ fill.pc # "off" =>
       /\ fill.lo \in Ticks /\ fill.hi \in Ticks /\ fill.outer \in Ticks
       /\ fill.lo <= fill.hi
       /\ fill.at <= DayOf(fill.hi)
  /\ fill.pc = "put" => fill.to <= fill.hi

TableTypes ==
  /\ head \in Ticks /\ indexed \in 1..head
  /\ buckets \subseteq Bucket
  /\ scan \in [last : 0..MaxTick, first : 0..MaxTick]
  /\ skipped \subseteq 0..MaxTick
  /\ dayTicks \in [Days -> [from : 0..MaxTick, to : 0..MaxTick, complete : BOOLEAN]]
  /\ runs \subseteq [from : Ticks, to : Ticks]
  /\ crashes \in 0..MaxCrashes

TypeInv == TableTypes /\ LiveTypes /\ FillTypes

\* Days are numbered from one, and a later tick is not of an earlier day.
LEMMA DaysFollow ==
  /\ DayOf(MaxTick) \in Nat /\ Days \subseteq Nat /\ Ticks \subseteq Nat /\ 1 \in Ticks
  /\ \A t \in Ticks : DayOf(t) \in Days
  /\ \A s, t \in Ticks : s <= t => DayOf(s) <= DayOf(t)
  /\ \A t \in Ticks, d \in Days : d <= DayOf(t) => FirstOf(d) \in Int /\ FirstOf(d) <= t
  /\ \A d \in Days : d * DayLen \in Nat /\ FirstOf(d) \in Nat \ {0}
  <1>1. MaxTick \in Nat \ {0} /\ DayLen \in Nat \ {0}
    BY TickAssumption
  <1>2. ASSUME NEW s \in Nat \ {0}, NEW t \in Nat \ {0}, s <= t
        PROVE  DayOf(s) \in Nat \ {0} /\ DayOf(s) <= DayOf(t)
    BY <1>1, <1>2 DEF DayOf
  <1>3. ASSUME NEW t \in Nat \ {0}
        PROVE  DayOf(t) * DayLen \in Int /\ DayOf(t) * DayLen - DayLen + 1 <= t
    BY <1>1 DEF DayOf
  <1>4. ASSUME NEW d \in Nat \ {0}, NEW e \in Nat \ {0}, d <= e
        PROVE  d * DayLen \in Nat /\ d * DayLen >= DayLen /\ d * DayLen <= e * DayLen
    BY <1>1, <1>4
  <1>5. \A d \in Nat \ {0} : FirstOf(d) = d * DayLen - DayLen + 1
    <2> SUFFICES ASSUME NEW d \in Nat \ {0} PROVE FirstOf(d) = d * DayLen - DayLen + 1
      OBVIOUS
    <2> QED
      BY <1>1 DEF FirstOf
  <1>6. Ticks \subseteq Nat \ {0} /\ 1 \in Ticks /\ MaxTick \in Ticks /\ \A t \in Ticks : t <= MaxTick
    BY <1>1 DEF Ticks
  <1>7. DayOf(MaxTick) \in Nat /\ Days \subseteq Nat \ {0}
    BY <1>1, <1>2 DEF Days
  <1>8. \A t \in Ticks : DayOf(t) \in Days
    BY <1>2, <1>6, <1>7 DEF Days
  <1>9. \A s, t \in Ticks : s <= t => DayOf(s) <= DayOf(t)
    BY <1>2, <1>6
  <1>10. ASSUME NEW t \in Ticks, NEW d \in Days, d <= DayOf(t)
         PROVE  FirstOf(d) \in Int /\ FirstOf(d) <= t
    <2>1. /\ d \in Nat \ {0} /\ t \in Nat \ {0} /\ DayOf(t) \in Nat \ {0}
      BY <1>2, <1>6, <1>7
    <2> DEFINE p == d * DayLen
               q == DayOf(t) * DayLen
    <2>2. p \in Nat /\ q \in Int /\ p <= q /\ q - DayLen + 1 <= t /\ FirstOf(d) = p - DayLen + 1
      BY <1>3, <1>4, <1>5, <1>10, <2>1
    <2> HIDE DEF p, q
    <2> QED
      BY <1>1, <1>6, <2>1, <2>2
  <1>11. \A d \in Days : d * DayLen \in Nat /\ FirstOf(d) \in Nat \ {0}
    <2> SUFFICES ASSUME NEW d \in Days PROVE d * DayLen \in Nat /\ FirstOf(d) \in Nat \ {0}
      OBVIOUS
    <2> DEFINE p == d * DayLen
    <2>1. p \in Nat /\ p >= DayLen /\ FirstOf(d) = p - DayLen + 1
      BY <1>4, <1>5, <1>7
    <2>2. p \in Nat /\ FirstOf(d) \in Nat \ {0}
      <3> HIDE DEF p
      <3> QED
        BY <1>1, <2>1
    <2> QED
      BY <2>2
  <1> QED
    BY <1>1, <1>6, <1>7, <1>8, <1>9, <1>10, <1>11

LEMMA DaysAreNumbers == \A d \in Days : d \in Int
  <1>1. Days \subseteq Nat
    BY DaysFollow
  <1> QED
    BY <1>1

LEMMA TypesStart == Init => TypeInv
  <1> SUFFICES ASSUME Init PROVE TypeInv
    OBVIOUS
  <1>1. 1 \in Ticks /\ Ticks \subseteq Nat /\ 1 \in Days /\ MaxTick \in Nat \ {0}
    <2>1. DayOf(1) \in Days /\ Days \subseteq Nat /\ DayOf(MaxTick) \in Nat
      BY DaysFollow
    <2> QED
      BY <2>1, DaysFollow, TickAssumption DEF Days
  <1>2. LiveOff \in LivePass /\ FillOff \in FillPass
    BY DEF LiveOff, FillOff, LivePass, FillPass
  <1>3. LiveTypes
    BY <1>1, <1>2 DEF Init, LiveTypes, LiveOff
  <1>4. FillTypes
    BY <1>1, <1>2 DEF Init, FillTypes, FillOff
  <1>5. dayTicks \in [Days -> [from : 0..MaxTick, to : 0..MaxTick, complete : BOOLEAN]]
    <2>1. NoDay \in [from : 0..MaxTick, to : 0..MaxTick, complete : BOOLEAN]
      BY <1>1 DEF NoDay
    <2> QED
      BY <2>1 DEF Init
  <1>6. scan \in [last : 0..MaxTick, first : 0..MaxTick]
    BY <1>1 DEF Init, NoScan
  <1> QED
    BY <1>1, <1>3, <1>4, <1>5, <1>6, BudgetAssumption DEF Init, TypeInv, TableTypes

\* A bucket written over a span of the chain.
LEMMA PutTypes ==
  ASSUME buckets \subseteq Bucket, NEW from \in Ticks, NEW to \in Ticks, NEW day \in Days,
         NEW found \in SUBSET Burns, PutBucket(from, to, day, found)
  PROVE  buckets' \subseteq Bucket
  <1>1. [from |-> from, to |-> to, day |-> day, found |-> found] \in Bucket
    BY DEF Bucket
  <1> QED
    BY <1>1 DEF PutBucket

LEMMA LiveStartTypes ==
  ASSUME TypeInv, NEW from \in Rescans \cup {0}, NEW answers, LiveStart(from, answers)
  PROVE  TypeInv'
  <1> DEFINE tick == Reach(answers)
  <1>1. UNCHANGED <<head, indexed, buckets, scan, dayTicks, runs, fill, crashes>>
    BY DEF LiveStart, chain, fills
  <1>2. tick \in Ticks /\ tick \in Nat /\ Today \in Days /\ MaxTick \in Nat
    BY DaysFollow, TickAssumption DEF TypeInv, TableTypes, Reach, Least, Today, Ticks
  <1>3. ColdStart(tick) \in 0..MaxTick /\ ColdStart(tick) <= tick
    <2>1. Chunk * LiveCalls \in Nat
      BY TickAssumption, BudgetAssumption
    <2> DEFINE c == Chunk * LiveCalls
    <2>2. c \in Nat /\ ColdStart(tick) = Most(0, tick - c)
      BY <2>1 DEF ColdStart
    <2> HIDE DEF c, tick
    <2>3. tick <= MaxTick
      BY <1>2 DEF Ticks
    <2> QED
      BY <1>2, <2>2, <2>3 DEF Most
  <1> HIDE DEF tick
  <1>4. from \in 0..MaxTick /\ (scan # NoScan => Resume \in Nat)
    BY <1>2, TickAssumption DEF Resume, TypeInv, TableTypes, Ticks
  <1> DEFINE start == IF from # 0 THEN from ELSE IF scan # NoScan THEN Resume ELSE ColdStart(tick)
             lost  == tick - start > MaxLag
             begin == IF lost THEN ColdStart(tick) ELSE start
  <1>5. /\ start <= tick
        /\ live' = [LiveOff EXCEPT
                   !.pc = "scan", !.start = begin, !.tick = tick, !.day = Today,
                   !.budget = Most(LiveCalls, Least(CatchUpCalls, Calls(begin, tick)))]
        /\ skipped' = IF lost THEN skipped \cup start..(begin - 1) ELSE skipped
    BY DEF LiveStart, tick
  <1>6. start \in Nat /\ begin \in 0..MaxTick /\ begin <= tick /\ tick <= MaxTick
    <2>1. start \in Nat
      BY <1>3, <1>4
    <2> HIDE DEF start
    <2> QED
      BY <1>2, <1>3, <1>5, <2>1 DEF Ticks
  <1> HIDE DEF start, lost, begin
  <1> DEFINE budget == Most(LiveCalls, Least(CatchUpCalls, Calls(begin, tick)))
  <1>7. budget \in Int
    BY <1>2, <1>6, TickAssumption, BudgetAssumption DEF Most, Least, Calls
  <1> HIDE DEF budget
  <1>8. live' = [LiveOff EXCEPT !.pc = "scan", !.start = begin, !.tick = tick, !.day = Today,
                                !.budget = budget]
    BY <1>5 DEF budget
  <1>9. /\ live' \in LivePass /\ live'.start = begin /\ live'.tick = tick /\ live'.day = Today
        /\ live'.to = LiveOff.to /\ live'.found = LiveOff.found
    <2>1. LiveOff \in LivePass
      BY DEF LiveOff, LivePass
    <2>2. begin \in Int /\ tick \in Int /\ Today \in Int
      BY <1>2, <1>6, DaysFollow
    <2> QED
      BY <1>7, <1>8, <2>1, <2>2, Zenon DEF LivePass
  <1>10. LiveTypes'
    BY <1>2, <1>6, <1>9 DEF LiveTypes, LiveOff, Days, Ticks
  <1>11. skipped' \subseteq 0..MaxTick
    <2>1. start..(begin - 1) \subseteq 0..MaxTick
      BY <1>2, <1>6
    <2> QED
      BY <1>5, <2>1 DEF TypeInv, TableTypes
  <1> QED
    BY <1>1, <1>10, <1>11 DEF TypeInv, TableTypes, FillTypes

LEMMA LiveTypesKept ==
  ASSUME TypeInv,
         \/ \E to \in StopsAt(live.start, live.tick, live.budget) : LiveScan(to)
         \/ LivePut \/ LivePoint \/ LiveDies
  PROVE  TypeInv'
  <1>1. live \in LivePass /\ LiveTypes /\ TableTypes /\ FillTypes /\ MaxTick \in Nat \ {0}
    BY TickAssumption DEF TypeInv, LiveTypes
  <1>2. LiveOff \in LivePass /\ 1 \in Days
    BY DaysFollow, TickAssumption DEF LiveOff, LivePass, Days, DayOf
  <1>3. live' = LiveOff => LiveTypes'
    BY <1>1, <1>2 DEF LiveTypes, LiveOff
  <1>4. CASE \E to \in StopsAt(live.start, live.tick, live.budget) : LiveScan(to)
    <2>1. PICK to \in StopsAt(live.start, live.tick, live.budget) : LiveScan(to)
      BY <1>4
    <2>2. to \in Int /\ to <= live.tick
      <3>1. live.start \in Int /\ live.tick \in Int /\ live.budget \in Int
        BY <1>1 DEF LivePass
      <3> QED
        BY <3>1, StopFacts
    <2> DEFINE found == BurnsIn(live.start, to)
    <2>3. found \in SUBSET Burns
      BY DEF BurnsIn
    <2>4. live' = [live EXCEPT !.pc = "put", !.to = to, !.found = found]
      BY <2>1 DEF LiveScan
    <2> HIDE DEF found
    <2>5. /\ live' \in LivePass /\ live'.to = to /\ live'.start = live.start
          /\ live'.tick = live.tick /\ live'.day = live.day /\ live'.found = found
      BY <1>1, <2>2, <2>3, <2>4, Zenon DEF LivePass
    <2>6. LiveTypes'
      BY <1>1, <2>2, <2>3, <2>5 DEF LiveTypes, Ticks
    <2> QED
      BY <1>1, <2>1, <2>6 DEF LiveScan, chain, fills, TypeInv, TableTypes, FillTypes
  <1>5. CASE LivePut
    <2>1. live' = [live EXCEPT !.pc = "point"]
      BY <1>5 DEF LivePut
    <2>2. /\ live' \in LivePass /\ live'.to = live.to /\ live'.start = live.start
          /\ live'.tick = live.tick /\ live'.day = live.day /\ live'.found = live.found
      BY <1>1, <2>1 DEF LivePass
    <2>3. LiveTypes'
      BY <1>1, <2>2 DEF LiveTypes
    <2>4. buckets' \subseteq Bucket
      <3>1. CASE live.found = {}
        BY <1>1, <1>5, <3>1 DEF LivePut, TableTypes
      <3>2. CASE live.found # {}
        <4> DEFINE from == CHOOSE t \in live.found : \A u \in live.found : t <= u
                   to   == CHOOSE t \in live.found : \A u \in live.found : u <= t
        <4>1. /\ live.found \in SUBSET Nat /\ live.found \in SUBSET (0..MaxTick)
              /\ live.found \in SUBSET Burns /\ Burns \subseteq Ticks
          BY <1>1, BurnsAreTicks, TickAssumption DEF LiveTypes
        <4>2. from \in live.found
          BY <3>2, <4>1, LeastFound
        <4>3. to \in live.found
          BY <1>1, <3>2, <4>1, GreatestFound
        <4>4. PutBucket(from, to, live.day, live.found)
          BY <1>5, <3>2 DEF LivePut
        <4> HIDE DEF from, to
        <4>5. from \in Ticks /\ to \in Ticks /\ live.day \in Days
          BY <1>1, <4>1, <4>2, <4>3 DEF LiveTypes
        <4> QED
          BY <1>1, <4>1, <4>4, <4>5, PutTypes, Zenon DEF TableTypes
      <3> QED
        BY <3>1, <3>2
    <2> QED
      BY <1>1, <1>5, <2>3, <2>4 DEF LivePut, chain, fills, TypeInv, TableTypes, FillTypes
  <1>6. CASE LivePoint
    <2>1. scan' \in [last : 0..MaxTick, first : 0..MaxTick]
      <3>1. CASE live.to < live.start
        BY <1>1, <1>6, <3>1 DEF LivePoint, TableTypes
      <3>2. CASE ~(live.to < live.start)
        <4>1. live.to \in 0..MaxTick /\ live.start \in 0..MaxTick
          BY <1>1, <3>2 DEF LiveTypes, LivePass
        <4>2. scan.first \in 0..MaxTick
          BY <1>1 DEF TableTypes
        <4> QED
          BY <1>6, <3>2, <4>1, <4>2 DEF LivePoint
      <3> QED
        BY <3>1, <3>2
    <2> QED
      BY <1>1, <1>3, <1>6, <2>1 DEF LivePoint, chain, fills, TypeInv, TableTypes, FillTypes
  <1>7. CASE LiveDies
    <2>1. crashes' \in 0..MaxCrashes
      BY <1>1, <1>7, BudgetAssumption DEF LiveDies, TableTypes
    <2> QED
      BY <1>1, <1>3, <1>7, <2>1 DEF LiveDies, chain, fills, TypeInv, TableTypes, FillTypes
  <1> QED
    BY <1>4, <1>5, <1>6, <1>7

LEMMA FillStartTypes ==
  ASSUME TypeInv, NEW answers, NEW again, FillStart(answers, again)
  PROVE  TypeInv'
  <1> DEFINE outer == Reach(answers)
             lo    == WindowFrom(Today, outer)
             hi    == IF again THEN Least(outer, indexed) ELSE outer
  <1>1. UNCHANGED <<head, indexed, buckets, scan, skipped, dayTicks, runs, live, crashes>>
    BY DEF FillStart, chain
  <1>2. outer \in Ticks /\ hi \in Ticks
    BY TickAssumption DEF TypeInv, TableTypes, Reach, Least, Ticks
  <1>3. lo \in Int /\ 1 <= lo /\ Today \in Int
    <2>1. Today \in Int /\ FirstOf(Today - FillDays + 1) \in Int
      <3>1. Today \in Int
        <4>1. Today \in Days
          BY DaysFollow DEF TypeInv, TableTypes, Today
        <4> QED
          BY <4>1, DaysAreNumbers
      <3>2. \A d \in Int : (d - 1) * DayLen + 1 \in Int
        <4> SUFFICES ASSUME NEW d \in Int PROVE (d - 1) * DayLen + 1 \in Int
          OBVIOUS
        <4> QED
          BY TickAssumption
      <3> QED
        BY <3>1, <3>2, BudgetAssumption DEF FirstOf
    <2> DEFINE f == FirstOf(Today - FillDays + 1)
    <2>2. lo = IF Most(1, f) <= outer THEN Most(1, f) ELSE 1
      BY DEF WindowFrom
    <2> HIDE DEF lo, f
    <2>3. f \in Int
      BY <2>1 DEF f
    <2> QED
      BY <2>1, <2>2, <2>3 DEF Most
  <1>4. /\ lo < outer /\ lo <= hi
        /\ fill' = [FillOff EXCEPT
                      !.pc = "date", !.today = Today, !.outer = outer,
                      !.lo = lo, !.hi = hi, !.at = DayOf(lo), !.reached = lo - 1]
    BY DEF FillStart
  <1> HIDE DEF outer, lo, hi
  <1>5. lo \in Ticks /\ DayOf(lo) \in Days /\ DayOf(lo) <= DayOf(hi)
    <2>1. lo \in Ticks
      BY <1>2, <1>3, <1>4, TickAssumption DEF Ticks
    <2> QED
      BY <1>2, <1>4, <2>1, DaysFollow
  <1>6. /\ fill' \in FillPass /\ fill'.lo = lo /\ fill'.hi = hi /\ fill'.outer = outer
        /\ fill'.at = DayOf(lo) /\ fill'.pc = "date" /\ fill'.found = FillOff.found
    <2>1. FillOff \in FillPass
      BY DEF FillOff, FillPass
    <2>2. lo - 1 \in Int /\ lo \in Int /\ hi \in Int /\ outer \in Int /\ DayOf(lo) \in Int
      <3>1. DayOf(lo) \in Int
        BY <1>5, DaysAreNumbers
      <3> QED
        BY <1>2, <1>3, <3>1 DEF Ticks
    <2> QED
      BY <1>3, <1>4, <2>1, <2>2, Zenon DEF FillPass
  <1>7. FillTypes'
    BY <1>2, <1>4, <1>5, <1>6 DEF FillTypes, FillOff
  <1> QED
    BY <1>1, <1>7 DEF TypeInv, TableTypes, LiveTypes

\* Where a range of a backfill under way begins and ends.
LEMMA RangeTypes ==
  ASSUME TypeInv, fill.pc # "off"
  PROVE  /\ RangeFrom(fill.at) \in Ticks /\ RangeTo(fill.at) \in Ticks
         /\ RangeTo(fill.at) <= fill.hi /\ fill.hi <= MaxTick
  <1>1. /\ fill.lo \in Ticks /\ fill.hi \in Ticks /\ fill.lo <= fill.hi
        /\ fill.at \in Days /\ fill.at <= DayOf(fill.hi)
    BY DEF TypeInv, FillTypes
  <1> DEFINE f == FirstOf(fill.at)
             l == fill.at * DayLen
  <1>2. f \in Nat \ {0} /\ f <= fill.hi /\ l \in Nat /\ l # 0
    <2>1. l \in Nat /\ f \in Nat \ {0} /\ f <= fill.hi
      BY <1>1, DaysFollow
    <2>2. fill.at \in Nat \ {0} /\ DayLen \in Nat \ {0}
      BY <1>1, DaysFollow, TickAssumption DEF Days
    <2>3. l # 0
      BY <2>2
    <2> QED
      BY <2>1, <2>3
  <1>3. RangeFrom(fill.at) = Most(fill.lo, f) /\ RangeTo(fill.at) = Least(fill.hi, l)
    BY DEF RangeFrom, RangeTo
  <1> HIDE DEF f, l
  <1> QED
    BY <1>1, <1>2, <1>3, TickAssumption DEF Most, Least, Ticks

LEMMA FillDateTypes ==
  ASSUME TypeInv, FillDate
  PROVE  TypeInv'
  <1>1. /\ UNCHANGED <<head, indexed, buckets, scan, skipped, runs, live, crashes>>
        /\ fill.pc = "date" /\ fill \in FillPass /\ TableTypes /\ LiveTypes /\ FillTypes
    BY DEF FillDate, chain, TypeInv, FillTypes
  <1>2. dayTicks' \in [Days -> [from : 0..MaxTick, to : 0..MaxTick, complete : BOOLEAN]]
    <2> DEFINE from == RangeFrom(fill.at)
               to   == RangeTo(fill.at)
               done == fill.at < LastDay /\ fill.at # fill.today
               Span == [from : 0..MaxTick, to : 0..MaxTick, complete : BOOLEAN]
               old  == dayTicks[fill.at]
               new  == IF old = NoDay THEN [from |-> from, to |-> to, complete |-> done]
                       ELSE [from |-> Least(old.from, from), to |-> Most(old.to, to),
                             complete |-> old.complete \/ done]
    <2>1. from \in 0..MaxTick /\ to \in 0..MaxTick /\ done \in BOOLEAN
      BY <1>1, RangeTypes DEF Ticks
    <2>2. dayTicks' = [dayTicks EXCEPT ![fill.at] = new]
      BY DEF FillDate, PutDayTicks
    <2>3. old \in Span
      BY <1>1 DEF TableTypes, FillTypes
    <2> HIDE DEF from, to, done, old
    <2>4. new \in Span
      <3>1. old.from \in 0..MaxTick /\ old.to \in 0..MaxTick /\ old.complete \in BOOLEAN
        BY <2>3
      <3>2. Least(old.from, from) \in 0..MaxTick /\ Most(old.to, to) \in 0..MaxTick
        BY <2>1, <3>1 DEF Least, Most
      <3> QED
        BY <2>1, <3>1, <3>2
    <2> HIDE DEF new
    <2> QED
      BY <1>1, <2>2, <2>4 DEF TableTypes
  <1>3. FillTypes'
    <2>1. CASE fill.at < LastDay /\ fill' = [fill EXCEPT !.at = @ + 1]
      <3>1. /\ fill.at \in Days /\ fill.hi \in Ticks /\ fill.at < DayOf(fill.hi)
            /\ DayOf(fill.hi) \in Days /\ Days \subseteq Nat /\ Days = 1..DayOf(MaxTick)
        BY <1>1, <2>1, DaysFollow DEF FillTypes, LastDay, Days
      <3>2. fill.at + 1 \in Days /\ fill.at + 1 <= DayOf(fill.hi) /\ fill.at + 1 \in Int
        BY <3>1, DaysFollow
      <3>3. /\ fill' \in FillPass /\ fill'.at = fill.at + 1 /\ fill'.pc = fill.pc
            /\ fill'.lo = fill.lo /\ fill'.hi = fill.hi /\ fill'.outer = fill.outer
            /\ fill'.found = fill.found
        BY <1>1, <2>1, <3>2 DEF FillPass
      <3> QED
        BY <1>1, <3>2, <3>3 DEF FillTypes
    <2>2. CASE fill' = [fill EXCEPT !.pc = "scan", !.at = DayOf(fill.lo)]
      <3>1. DayOf(fill.lo) \in Days /\ DayOf(fill.lo) <= DayOf(fill.hi) /\ DayOf(fill.lo) \in Int
        <4>1. fill.lo \in Ticks /\ fill.hi \in Ticks /\ fill.lo <= fill.hi
          BY <1>1 DEF FillTypes
        <4>2. DayOf(fill.lo) \in Days /\ DayOf(fill.lo) <= DayOf(fill.hi)
          BY <4>1, DaysFollow
        <4> QED
          BY <4>2, DaysAreNumbers
      <3>2. /\ fill' \in FillPass /\ fill'.at = DayOf(fill.lo) /\ fill'.pc = "scan"
            /\ fill'.lo = fill.lo /\ fill'.hi = fill.hi /\ fill'.outer = fill.outer
            /\ fill'.found = fill.found
        BY <1>1, <2>2, <3>1, Zenon DEF FillPass
      <3> QED
        BY <1>1, <3>1, <3>2 DEF FillTypes
    <2> QED
      BY <2>1, <2>2 DEF FillDate
  <1> QED
    BY <1>1, <1>2, <1>3 DEF TypeInv, TableTypes, LiveTypes

LEMMA FillScanTypes ==
  ASSUME TypeInv,
         NEW to \in StopsAt(RangeFrom(fill.at), RangeTo(fill.at), FillCalls - fill.calls),
         FillScan(to)
  PROVE  TypeInv'
  <1>1. /\ UNCHANGED <<head, indexed, buckets, scan, skipped, dayTicks, runs, live, crashes>>
        /\ fill.pc = "scan" /\ fill \in FillPass /\ TableTypes /\ LiveTypes /\ FillTypes
    BY DEF FillScan, chain, TypeInv, FillTypes
  <1> DEFINE from  == RangeFrom(fill.at)
             found == BurnsIn(from, to)
             calls == fill.calls + Calls(from, to)
             reach == Most(fill.reached, to)
             gap   == to < Least(RangeTo(fill.at), from - 1 + (FillCalls - fill.calls) * Chunk)
  <1>2. from \in Int /\ RangeTo(fill.at) \in Int /\ RangeTo(fill.at) <= fill.hi /\ fill.hi \in Int
    BY <1>1, RangeTypes DEF Ticks, FillPass
  <1>3. to \in Int /\ to <= fill.hi
    <2>1. FillCalls - fill.calls \in Int
      BY <1>1, BudgetAssumption DEF FillPass
    <2>2. to \in Int /\ to <= RangeTo(fill.at)
      BY <1>2, <2>1, StopFacts
    <2> QED
      BY <1>2, <2>2
  <1>4. found \in SUBSET Burns /\ calls \in Int /\ reach \in Int /\ gap \in BOOLEAN
    <2>1. fill.calls \in Int /\ fill.reached \in Int
      BY <1>1 DEF FillPass
    <2>2. Calls(from, to) \in Int
      BY <1>2, <1>3, TickAssumption DEF Calls
    <2> QED
      BY <1>3, <2>1, <2>2 DEF BurnsIn, Most
  <1>5. fill' = [fill EXCEPT !.pc = "put", !.to = to, !.found = found, !.calls = calls,
                             !.reached = reach, !.gap = gap]
    BY DEF FillScan
  <1> HIDE DEF from, found, calls, reach, gap
  <1>6. /\ fill' \in FillPass /\ fill'.to = to /\ fill'.found = found /\ fill'.at = fill.at
        /\ fill'.lo = fill.lo /\ fill'.hi = fill.hi /\ fill'.outer = fill.outer
    BY <1>1, <1>3, <1>4, <1>5, Zenon DEF FillPass
  <1>7. FillTypes'
    BY <1>1, <1>3, <1>4, <1>6 DEF FillTypes
  <1> QED
    BY <1>1, <1>7 DEF TypeInv, TableTypes, LiveTypes

LEMMA FillPutTypes ==
  ASSUME TypeInv, FillPut
  PROVE  TypeInv'
  <1>1. /\ UNCHANGED <<head, indexed, scan, skipped, dayTicks, runs, live, crashes>>
        /\ fill.pc = "put" /\ fill \in FillPass /\ TableTypes /\ LiveTypes /\ FillTypes
    BY DEF FillPut, chain, TypeInv, FillTypes
  <1>2. buckets' \subseteq Bucket
    <2> DEFINE from == RangeFrom(fill.at)
    <2>1. from \in Ticks /\ fill.to \in Int /\ fill.to <= fill.hi /\ fill.hi <= MaxTick
      BY <1>1, RangeTypes DEF FillTypes, FillPass
    <2>2. CASE fill.to >= from
      <3>1. fill.to \in Ticks /\ fill.found \in SUBSET Burns /\ fill.at \in Days
        BY <1>1, <2>1, <2>2, TickAssumption DEF FillTypes, Ticks
      <3>2. PutBucket(from, fill.to, fill.at, fill.found)
        BY <2>2 DEF FillPut
      <3> HIDE DEF from
      <3> QED
        BY <1>1, <2>1, <3>1, <3>2, PutTypes, Zenon DEF TableTypes
    <2>3. CASE ~(fill.to >= from)
      BY <1>1, <2>3 DEF FillPut, TableTypes
    <2> QED
      BY <2>2, <2>3
  <1>3. FillTypes'
    <2>1. CASE fill.at < LastDay /\ fill' = [fill EXCEPT !.pc = "scan", !.at = @ + 1]
      <3>1. /\ fill.at \in Days /\ fill.hi \in Ticks /\ fill.at < DayOf(fill.hi)
            /\ DayOf(fill.hi) \in Days /\ Days \subseteq Nat /\ Days = 1..DayOf(MaxTick)
        BY <1>1, <2>1, DaysFollow DEF FillTypes, LastDay, Days
      <3>2. fill.at + 1 \in Days /\ fill.at + 1 <= DayOf(fill.hi) /\ fill.at + 1 \in Int
        BY <3>1, DaysFollow
      <3> DEFINE next == fill.at + 1
      <3>3. fill' = [fill EXCEPT !.pc = "scan", !.at = next]
        BY <2>1
      <3>4. /\ fill' \in FillPass /\ fill'.at = next /\ fill'.pc = "scan"
            /\ fill'.lo = fill.lo /\ fill'.hi = fill.hi /\ fill'.outer = fill.outer
            /\ fill'.found = fill.found
        <4>1. next \in Int
          BY <3>2
        <4> HIDE DEF next
        <4> QED
          BY <1>1, <3>3, <4>1, Zenon DEF FillPass
      <3> QED
        BY <1>1, <3>2, <3>4 DEF FillTypes
    <2>2. CASE fill' = [fill EXCEPT !.pc = "mark"]
      <3>1. /\ fill' \in FillPass /\ fill'.pc = "mark" /\ fill'.at = fill.at
            /\ fill'.lo = fill.lo /\ fill'.hi = fill.hi /\ fill'.outer = fill.outer
            /\ fill'.found = fill.found
        BY <1>1, <2>2 DEF FillPass
      <3> QED
        BY <1>1, <3>1 DEF FillTypes
    <2> QED
      BY <2>1, <2>2 DEF FillPut
  <1> QED
    BY <1>1, <1>2, <1>3 DEF TypeInv, TableTypes, LiveTypes

LEMMA FillEndTypes ==
  ASSUME TypeInv, FillMark \/ FillDies
  PROVE  TypeInv'
  <1>1. /\ UNCHANGED <<head, indexed, buckets, scan, skipped, dayTicks, live>>
        /\ fill.pc # "off" /\ TableTypes /\ LiveTypes /\ FillTypes /\ fill' = FillOff
    BY DEF FillMark, FillDies, chain, TypeInv
  <1>2. FillOff \in FillPass /\ 1 \in Days
    BY DaysFollow, TickAssumption DEF FillOff, FillPass, Days, DayOf
  <1>3. FillTypes'
    BY <1>1, <1>2 DEF FillTypes, FillOff
  <1>4. runs' \subseteq [from : Ticks, to : Ticks]
    BY <1>1 DEF FillMark, FillDies, TableTypes, FillTypes
  <1>5. crashes' \in 0..MaxCrashes
    BY <1>1, BudgetAssumption DEF FillMark, FillDies, TableTypes
  <1> QED
    BY <1>1, <1>3, <1>4, <1>5 DEF TypeInv, TableTypes, LiveTypes

LEMMA NetworkTypes ==
  ASSUME TypeInv, NewTick \/ Index
  PROVE  TypeInv'
  <1>1. UNCHANGED <<buckets, scan, skipped, dayTicks, runs, live, fill, crashes>>
    BY DEF NewTick, Index, fills
  <1>2. head' \in Ticks /\ indexed' \in 1..head'
    BY TickAssumption DEF NewTick, Index, TypeInv, TableTypes, Ticks
  <1> QED
    BY <1>1, <1>2 DEF TypeInv, TableTypes, LiveTypes, FillTypes

LEMMA TypesKept == TypeInv /\ [Next]_vars => TypeInv'
  <1> SUFFICES ASSUME TypeInv, [Next]_vars PROVE TypeInv'
    OBVIOUS
  <1>1. CASE NewTick \/ Index
    BY <1>1, NetworkTypes
  <1>2. CASE \/ \E answers \in StatusUp : LiveStart(0, answers)
             \/ Rescan
    BY <1>2, LiveStartTypes DEF Rescan
  <1>3. CASE \/ \E to \in StopsAt(live.start, live.tick, live.budget) : LiveScan(to)
             \/ LivePut \/ LivePoint \/ LiveDies
    BY <1>3, LiveTypesKept
  <1>4. CASE \E answers, again \in StatusUp : FillStart(answers, again)
    BY <1>4, FillStartTypes
  <1>5. CASE FillDate
    BY <1>5, FillDateTypes
  <1>6. CASE \E to \in StopsAt(RangeFrom(fill.at), RangeTo(fill.at), FillCalls - fill.calls) :
               FillScan(to)
    BY <1>6, FillScanTypes
  <1>7. CASE FillPut
    BY <1>7, FillPutTypes
  <1>8. CASE FillMark \/ FillDies
    BY <1>8, FillEndTypes
  <1>9. CASE UNCHANGED vars
    BY <1>9 DEF vars, TypeInv, TableTypes, LiveTypes, FillTypes
  <1> QED
    BY <1>1, <1>2, <1>3, <1>4, <1>5, <1>6, <1>7, <1>8, <1>9 DEF Next, Live, Fill

\* Whatever bob.status() and bob.tick_logs() answer, spans, pointer, buckets and
\* runs lie on the chain and the passes stay within their windows (the tables of
\* store.py, scan_burns and backfill_burns of pipeline.py).
THEOREM BurnTypesHold == Spec => []TypeOK
  <1>1. TypeInv => TypeOK
    <2> SUFFICES ASSUME TypeInv PROVE TypeOK
      OBVIOUS
    <2>1. /\ live.pc \in {"off", "scan", "put", "point"}
          /\ fill.pc \in {"off", "date", "scan", "put", "mark"}
      BY DEF TypeInv, LiveTypes, FillTypes, LivePass, FillPass
    <2> QED
      BY <2>1 DEF TypeInv, TableTypes, LiveTypes, FillTypes, TypeOK
  <1> QED
    BY <1>1, TypesStart, TypesKept, PTL DEF Spec

-----------------------------------------------------------------------------
(* The mining record. *)

\* The types, as far as the argument needs them.
MiningTypes ==
  /\ net.epoch \in 1..LastEpoch /\ net.count \in 0..MostSolved
  /\ reading.step \in {"info", "store"} =>
       reading.epoch \in 0..LastEpoch /\ reading.count \in 0..MostSolved
  /\ filed \in [0..LastEpoch -> SUBSET (0..MostSolved)]
  /\ DOMAIN summary \subseteq 0..LastEpoch
  /\ rewritten \in BOOLEAN

\* Each sample was filed under its epoch, and its epoch has a row.
SamplesFiled ==
  \A at \in DOMAIN samples :
    /\ samples[at].epoch \in DOMAIN summary
    /\ samples[at].count \in filed[samples[at].epoch]

\* A row's peak was filed, and is above all that was; nothing was filed without
\* a row.
PeaksFiled ==
  /\ \A e \in DOMAIN summary :
       summary[e].peak \in filed[e] /\ \A x \in filed[e] : x <= summary[e].peak
  /\ \A e \in 0..LastEpoch : e \notin DOMAIN summary => filed[e] = {}

MiningInv == MiningTypes /\ SamplesFiled /\ PeaksFiled /\ NewestAreWhole

-----------------------------------------------------------------------------
(* The highest of a set. *)

\* Max of a bounded set is in it, and above the others.
LEMMA MaxFound ==
  ASSUME NEW b \in Nat, NEW T \in SUBSET (0..b), T # {}
  PROVE  Max(T) \in T /\ \A y \in T : y <= Max(T)
  <1>1. PICK x \in T : \A y \in T : y <= x
    BY GreatestFound
  <1>2. \A y \in T : x >= y
    BY <1>1
  <1> QED
    BY <1>2 DEF Max

\* Max of two numbers.
LEMMA MaxOfTwo ==
  ASSUME NEW m \in Nat, NEW n \in Nat
  PROVE  Max({m, n}) \in {m, n} /\ m <= Max({m, n}) /\ n <= Max({m, n})
  <1>1. PICK b \in Nat : m <= b /\ n <= b
    <2>1. CASE m <= n
      BY <2>1
    <2>2. CASE n <= m
      BY <2>2
    <2> QED
      BY <2>1, <2>2
  <1>2. {m, n} \in SUBSET (0..b) /\ {m, n} # {}
    BY <1>1
  <1> QED
    BY <1>2, MaxFound

-----------------------------------------------------------------------------

\* Nothing is sampled.
LEMMA MiningStarts == MiningInit => MiningInv
  BY MiningAssumption
     DEF MiningInit, MiningInv, MiningTypes, SamplesFiled, PeaksFiled, NewestAreWhole, NoReading

\* A step that leaves the tables alone.
LEMMA TablesStay ==
  ASSUME MiningInv, UNCHANGED <<samples, summary, filed, rewritten>>, MiningTypes'
  PROVE  MiningInv'
  BY DEF MiningInv, SamplesFiled, PeaksFiled, NewestAreWhole, Of

\* The network moves, a question is asked, the worker starts again.
LEMMA OutsideKeeps ==
  ASSUME MiningInv, Solve \/ TurnEpoch \/ AskColony \/ AskEpoch \/ Restart
  PROVE  MiningInv'
  <1>1. UNCHANGED <<samples, summary, filed, rewritten>>
    BY DEF Solve, TurnEpoch, AskColony, AskEpoch, Restart
  <1>2. MiningTypes'
    <2> USE MiningAssumption DEF MiningInv, MiningTypes, NoReading
    <2>1. CASE Solve
      BY <2>1 DEF Solve
    <2>2. CASE TurnEpoch
      BY <2>2 DEF TurnEpoch
    <2>3. CASE AskColony
      BY <2>3 DEF AskColony
    <2>4. CASE AskEpoch
      BY <2>4 DEF AskEpoch
    <2>5. CASE Restart
      BY <2>5 DEF Restart
    <2> QED
      BY <2>1, <2>2, <2>3, <2>4, <2>5
  <1> QED
    BY <1>1, <1>2, TablesStay

\* Fewer epochs are newer in fewer epochs.
LEMMA FewerNewer ==
  ASSUME NEW A, NEW B \in SUBSET (0..LastEpoch), A \subseteq B, NEW e \in 0..LastEpoch
  PROVE  /\ Cardinality({f \in A : f > e}) \in Nat
         /\ Cardinality({f \in B : f > e}) \in Nat
         /\ Cardinality({f \in A : f > e}) <= Cardinality({f \in B : f > e})
  <1> DEFINE AN == {f \in A : f > e}
             BN == {f \in B : f > e}
  <1>1. IsFiniteSet(0..LastEpoch)
    BY FS_Interval, MiningAssumption
  <1>2. IsFiniteSet(BN)
    BY <1>1, FS_Subset
  <1>3. AN \in SUBSET BN
    OBVIOUS
  <1> HIDE DEF AN, BN
  <1>4. /\ IsFiniteSet(AN) /\ Cardinality(AN) <= Cardinality(BN)
        /\ Cardinality(AN) \in Nat /\ Cardinality(BN) \in Nat
    BY <1>2, <1>3, FS_Subset, FS_CardinalityType
  <1> QED
    BY <1>4 DEF AN, BN

-----------------------------------------------------------------------------
(* A sample is stored: the row is folded from the samples present. *)

\* The row's peak stays the highest count filed, whatever samples are left.
LEMMA PeakStays ==
  ASSUME MiningInv, Store
  PROVE  PeaksFiled'
  <1> DEFINE e == reading.epoch
             c == reading.count
             C == {samples'[at].count : at \in Of(samples', e)}
             now == Max(C)
  <1> USE DEF MiningInv
  <1>1. /\ e \in 0..LastEpoch /\ c \in 0..MostSolved /\ MostSolved \in Nat
        /\ filed' = [filed EXCEPT ![e] = @ \cup {c}]
        /\ samples' = Sampled(second, e, c)
        /\ summary' = Replaced(summary, e, Summed(samples', e))
    BY MiningAssumption DEF Store, MiningTypes
  <1>2. /\ DOMAIN summary' = DOMAIN summary \cup {e}
        /\ summary'[e].peak = Peak(e, now)
        /\ \A f \in DOMAIN summary : f # e => summary'[f] = summary[f]
    BY <1>1 DEF Replaced, Summed
  <1>3. /\ filed'[e] = filed[e] \cup {c} /\ filed[e] \in SUBSET (0..MostSolved)
        /\ \A f \in 0..LastEpoch : f # e => filed'[f] = filed[f]
    BY <1>1 DEF MiningTypes
  <1>4. c \in C
    <2>1. second \in Of(samples', e) /\ samples'[second].count = c
      BY <1>1 DEF Sampled, Replaced, Of
    <2> QED
      BY <2>1
  <1>5. C \subseteq filed'[e]
    <2>1. ASSUME NEW at \in Of(samples', e) PROVE samples'[at].count \in filed'[e]
      BY <1>1, <1>3 DEF Of, Sampled, Replaced, SamplesFiled
    <2> QED
      BY <2>1
  <1> HIDE DEF C, e, c
  <1>6. now \in C /\ (\A y \in C : y <= now) /\ now \in 0..MostSolved
    <2>1. C \in SUBSET (0..MostSolved) /\ C # {}
      BY <1>1, <1>3, <1>4, <1>5
    <2> QED
      BY <1>1, <2>1, MaxFound
  <1> HIDE DEF now
  <1>7. summary'[e].peak \in filed'[e] /\ \A x \in filed'[e] : x <= summary'[e].peak
    <2>1. CASE e \in DOMAIN summary
      <3> DEFINE p == summary[e].peak
      <3>1. p \in filed[e] /\ \A x \in filed[e] : x <= p
        BY <2>1 DEF PeaksFiled
      <3>2. p \in 0..MostSolved
        BY <1>3, <3>1
      <3>3. Peak(e, now) = Max({p, now})
        BY <2>1 DEF Peak
      <3> HIDE DEF p
      <3>4. /\ Max({p, now}) \in {p, now}
            /\ p <= Max({p, now}) /\ now <= Max({p, now})
        <4>1. p \in Nat /\ now \in Nat
          BY <1>1, <1>6, <3>2
        <4> QED
          BY <4>1, MaxOfTwo
      <3>5. Max({p, now}) \in filed'[e]
        BY <1>3, <1>5, <1>6, <3>1, <3>4
      <3>6. ASSUME NEW x \in filed'[e] PROVE x <= Max({p, now})
        <4>1. x \in filed[e] \/ x = c
          BY <1>3
        <4>2. x \in Int /\ Max({p, now}) \in Int /\ p \in Int /\ now \in Int
          BY <1>1, <1>3, <1>6, <3>2, <3>4
        <4>3. x <= p \/ x <= now
          BY <1>4, <1>6, <3>1, <4>1
        <4> QED
          BY <3>4, <4>2, <4>3
      <3> QED
        BY <1>2, <3>3, <3>5, <3>6
    <2>2. CASE e \notin DOMAIN summary
      <3>1. filed'[e] = {c}
        BY <1>1, <1>3, <2>2 DEF PeaksFiled
      <3>2. summary'[e].peak = c
        BY <1>2, <1>5, <1>6, <2>2, <3>1 DEF Peak
      <3> QED
        BY <1>1, <3>1, <3>2
    <2> QED
      BY <2>1, <2>2
  <1>8. ASSUME NEW f \in DOMAIN summary', f # e
        PROVE  summary'[f].peak \in filed'[f] /\ \A x \in filed'[f] : x <= summary'[f].peak
    BY <1>2, <1>3, <1>8 DEF PeaksFiled, MiningTypes
  <1>9. ASSUME NEW f \in 0..LastEpoch, f \notin DOMAIN summary' PROVE filed'[f] = {}
    BY <1>2, <1>3, <1>9 DEF PeaksFiled
  <1> QED
    BY <1>7, <1>8, <1>9 DEF PeaksFiled

\* A second stored again under its own epoch takes no sample from another.
LEMMA StoreKeeps ==
  ASSUME MiningInv, Store
  PROVE  MiningInv'
  <1> DEFINE e == reading.epoch
             c == reading.count
  <1> USE DEF MiningInv
  <1>1. /\ e \in 0..LastEpoch /\ c \in 0..MostSolved
        /\ filed' = [filed EXCEPT ![e] = @ \cup {c}]
        /\ samples' = Sampled(second, e, c)
        /\ summary' = Replaced(summary, e, Summed(samples', e))
        /\ rewritten' = (rewritten \/ (second \in DOMAIN samples /\ samples[second].epoch # e))
        /\ net' = net /\ reading'.step = "prune"
    BY DEF Store, MiningTypes, NoReading
  <1> HIDE DEF e, c
  <1>2. DOMAIN summary' = DOMAIN summary \cup {e}
    BY <1>1 DEF Replaced
  <1>3. MiningTypes'
    <2>1. filed' \in [0..LastEpoch -> SUBSET (0..MostSolved)]
      BY <1>1 DEF MiningTypes
    <2>2. rewritten' \in BOOLEAN
      BY <1>1, Zenon
    <2> QED
      BY <1>1, <1>2, <2>1, <2>2 DEF MiningTypes
  <1>4. SamplesFiled'
    <2> SUFFICES ASSUME NEW at \in DOMAIN samples'
                 PROVE  /\ samples'[at].epoch \in DOMAIN summary'
                        /\ samples'[at].count \in filed'[samples'[at].epoch]
      BY DEF SamplesFiled
    <2>1. CASE at = second
      BY <1>1, <1>2, <2>1 DEF Sampled, Replaced, MiningTypes
    <2>2. CASE at # second
      <3>1. at \in DOMAIN samples /\ samples'[at] = samples[at]
        BY <1>1, <2>2 DEF Sampled, Replaced
      <3> QED
        BY <1>1, <1>2, <3>1 DEF SamplesFiled, MiningTypes
    <2> QED
      BY <2>1, <2>2
  <1>5. NewestAreWhole'
    <2> SUFFICES ASSUME ~rewritten', NEW f \in DOMAIN summary',
                        Cardinality({g \in DOMAIN summary' : g > f}) < KeepEpochs
                 PROVE  Cardinality(Of(samples', f)) = summary'[f].samples
      BY DEF NewestAreWhole
    <2>1. CASE f = e
      BY <1>1, <2>1 DEF Replaced, Summed
    <2>2. CASE f # e
      <3>1. f \in DOMAIN summary /\ summary'[f] = summary[f]
        BY <1>1, <1>2, <2>2 DEF Replaced
      <3>2. Cardinality({g \in DOMAIN summary : g > f}) < KeepEpochs
        <4>1. /\ DOMAIN summary \subseteq DOMAIN summary'
              /\ DOMAIN summary' \in SUBSET (0..LastEpoch) /\ f \in 0..LastEpoch
          BY <1>1, <1>2, <3>1 DEF MiningTypes
        <4>2. /\ Cardinality({g \in DOMAIN summary : g > f}) \in Nat
              /\ Cardinality({g \in DOMAIN summary' : g > f}) \in Nat
              /\ Cardinality({g \in DOMAIN summary : g > f})
                   <= Cardinality({g \in DOMAIN summary' : g > f})
          BY <4>1, FewerNewer
        <4> QED
          BY <4>2, MiningAssumption
      <3>3. Of(samples', f) = Of(samples, f)
        <4>1. second \in DOMAIN samples => samples[second].epoch = e
          BY <1>1
        <4> QED
          BY <1>1, <2>2, <4>1 DEF Sampled, Replaced, Of
      <3> QED
        BY <1>1, <3>1, <3>2, <3>3 DEF NewestAreWhole
    <2> QED
      BY <2>1, <2>2
  <1> QED
    BY <1>3, <1>4, <1>5, PeakStays

-----------------------------------------------------------------------------
(* The samples of old epochs go. *)

\* Epochs with samples have rows, so an outdated one is not among the newest.
LEMMA PruneKeeps ==
  ASSUME MiningInv, PruneSamples
  PROVE  MiningInv'
  <1> USE DEF MiningInv
  <1>1. UNCHANGED <<net, summary, filed, rewritten>> /\ reading'.step = "rest"
    BY DEF PruneSamples, NoReading
  <1>2. MiningTypes'
    BY <1>1 DEF MiningTypes
  <1>3. CASE samples' = samples
    BY <1>1, <1>2, <1>3, TablesStay
  <1>4. CASE samples' = [at \in {a \in DOMAIN samples : ~Outdated(samples[a].epoch)} |-> samples[at]]
    <2>1. /\ \A at \in DOMAIN samples' : at \in DOMAIN samples /\ samples'[at] = samples[at]
          /\ DOMAIN samples' = {a \in DOMAIN samples : ~Outdated(samples[a].epoch)}
      BY <1>4
    <2>2. SamplesFiled' /\ PeaksFiled'
      BY <1>1, <2>1 DEF SamplesFiled, PeaksFiled
    <2>3. NewestAreWhole'
      <3> SUFFICES ASSUME ~rewritten, NEW e \in DOMAIN summary,
                          Cardinality({f \in DOMAIN summary : f > e}) < KeepEpochs
                   PROVE  Cardinality(Of(samples', e)) = summary[e].samples
        BY <1>1 DEF NewestAreWhole
      <3>1. ~Outdated(e)
        <4>1. OnRecord \subseteq DOMAIN summary
          BY DEF OnRecord, SamplesFiled
        <4>2. DOMAIN summary \in SUBSET (0..LastEpoch) /\ e \in 0..LastEpoch
          BY DEF MiningTypes
        <4>3. /\ Cardinality({f \in OnRecord : f > e}) \in Nat
              /\ Cardinality({f \in DOMAIN summary : f > e}) \in Nat
              /\ Cardinality({f \in OnRecord : f > e})
                   <= Cardinality({f \in DOMAIN summary : f > e})
          BY <4>1, <4>2, FewerNewer
        <4> QED
          BY <4>3, MiningAssumption DEF Outdated
      <3>2. Of(samples', e) = Of(samples, e)
        BY <2>1, <3>1 DEF Of
      <3> QED
        BY <3>2 DEF NewestAreWhole
    <2> QED
      BY <1>2, <2>2, <2>3
  <1> QED
    BY <1>3, <1>4 DEF PruneSamples

-----------------------------------------------------------------------------
(* Theorems. *)

\* Every step keeps the invariant.
LEMMA MiningInvKept == MiningInv /\ [MiningNext]_miningVars => MiningInv'
  <1> SUFFICES ASSUME MiningInv, [MiningNext]_miningVars PROVE MiningInv'
    OBVIOUS
  <1>1. CASE Solve \/ TurnEpoch \/ AskColony \/ AskEpoch \/ Restart
    BY <1>1, OutsideKeeps
  <1>2. CASE Store
    BY <1>2, StoreKeeps
  <1>3. CASE PruneSamples
    BY <1>3, PruneKeeps
  <1>4. CASE UNCHANGED miningVars
    <2>1. UNCHANGED <<samples, summary, filed, rewritten>> /\ MiningTypes'
      BY <1>4 DEF miningVars, MiningInv, MiningTypes
    <2> QED
      BY <2>1, TablesStay
  <1> QED
    BY <1>1, <1>2, <1>3, <1>4 DEF MiningNext

\* Under any order of samples, prunings and restarts: every sample was filed
\* under its epoch and every epoch filed under has its row.
THEOREM MiningInvHolds == MiningSpec => []MiningInv
  <1>1. MiningInit => MiningInv
    BY MiningStarts
  <1>2. MiningInv /\ [MiningNext]_miningVars => MiningInv'
    BY MiningInvKept
  <1> QED
    BY <1>1, <1>2, PTL DEF MiningSpec

\* put_mining_sample keeps the highest count of an epoch, for any number of
\* samples, however many of them are pruned or come late.
THEOREM PeakIsKept == MiningSpec => []PeakIsHighest
  <1>1. MiningInv => PeakIsHighest
    <2> SUFFICES ASSUME MiningInv, NEW e \in DOMAIN summary
                 PROVE  summary[e].peak = Max(filed[e])
      BY DEF PeakIsHighest
    <2>1. /\ filed[e] \in SUBSET (0..MostSolved) /\ filed[e] # {}
          /\ summary[e].peak \in filed[e] /\ \A x \in filed[e] : x <= summary[e].peak
      BY DEF MiningInv, MiningTypes, PeaksFiled
    <2>2. Max(filed[e]) \in filed[e] /\ \A y \in filed[e] : y <= Max(filed[e])
      BY <2>1, MiningAssumption, MaxFound
    <2>3. /\ summary[e].peak <= Max(filed[e]) /\ Max(filed[e]) <= summary[e].peak
          /\ summary[e].peak \in Int /\ Max(filed[e]) \in Int
      BY <2>1, <2>2
    <2> QED
      BY <2>3
  <1> QED
    BY <1>1, MiningInvHolds, PTL

\* prune_mining takes no sample from the newest epochs, for any number of
\* epochs kept.
THEOREM PruningSparesTheNewest == MiningSpec => []NewestAreWhole
  <1>1. MiningInv => NewestAreWhole
    BY DEF MiningInv
  <1> QED
    BY <1>1, MiningInvHolds, PTL
=============================================================================
