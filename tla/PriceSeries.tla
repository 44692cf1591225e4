----------------------------- MODULE PriceSeries -----------------------------
(***************************************************************************)
(* The price record: the intervals of price_points, the echoes of a frozen *)
(* backend set aside in price_rejects, and the hours folded from what is   *)
(* left (qdr/store.py, qdr/price_echo.py), written by the one thread of    *)
(* scripts/ingest.py start_price_sampler.                                  *)
(*                                                                         *)
(* Each step of the sampler that commits is an action; the process may     *)
(* stop between any two of them and starts again with the repair.  Times   *)
(* are in seconds, the clock stands at whole minutes.  An hour has         *)
(* SlotsPerHour minutes.  Whatever the upstream answers is an input, so    *)
(* echoes of an old price are among the inputs.                            *)
(***************************************************************************)
EXTENDS Integers, Sequences, FiniteSetsExt, Functions

CONSTANTS
  Prices,       \* the prices (with their market cap) the upstream may answer
  SlotsPerHour, \* 60
  JumpPart,     \* a move of 1/JumpPart or more is a jump: JUMP, 1/200
  ChainGap,     \* CHAIN_GAP_S
  MinReturns,   \* MIN_RETURNS
  Window,       \* WINDOW_S
  EchoSpan,     \* how far back each pass looks for echoes: a day
  RollSpan,     \* how far back the roll-up folds again: two days
  KeepSpan,     \* PRICE_KEEP_DAYS
  Slack,        \* PRICE_AT_SLACK_S
  EndOfTime,    \* bound: the clock's last minute
  MaxMissed,    \* bound: how many minutes bring no reading
  MaxFaults     \* bound: stops of the process and settings of the clock together

Minute == 60
HourS  == SlotsPerHour * Minute
HourOf(t) == (t \div HourS) * HourS

ASSUME PriceAssumption ==
  /\ Prices \subseteq Nat \ {0} /\ SlotsPerHour \in Nat \ {0}
  /\ MinReturns \in Nat \ {0} /\ JumpPart \in Nat \ {0}
  /\ {ChainGap, Window, EchoSpan, RollSpan, KeepSpan, Slack} \subseteq Nat
  /\ EndOfTime \in Nat /\ EndOfTime % Minute = 0

VARIABLES
  now,      \* the worker's clock
  points,   \* price_points: when a price was first seen -> its interval
  rejects,  \* price_rejects: the intervals set aside, by their at
  hours,    \* price_hours
  pc,       \* the step the sampler takes next
  echoFrom, \* what the pass's reject_price_echoes returned, -1 for None
  heard,    \* history: minute -> the reading accepted last in it and not set aside
  polled,     \* history: the minutes a reading was accepted in
  missed,   \* how many minutes brought no reading
  stops,    \* how often the process has stopped
  backs     \* how often the clock was set back

priceVars == <<now, points, rejects, hours, pc, echoFrom, heard, polled, missed, stops, backs>>

None == -1

PriceInit ==
  /\ now = 0 /\ points = <<>> /\ rejects = <<>> /\ hours = <<>>
  /\ pc = "repair" /\ echoFrom = None /\ heard = <<>> /\ polled = {}
  /\ missed = 0 /\ stops = 0 /\ backs = 0

-----------------------------------------------------------------------------
(* Intervals. *)

\* The table rows with the row v under the key k, and with all of new's rows.
Put(rows, k, v) == [x \in DOMAIN rows \cup {k} |-> IF x = k THEN v ELSE rows[x]]
Written(rows, new) ==
  [x \in DOMAIN rows \cup DOMAIN new |-> IF x \in DOMAIN new THEN new[x] ELSE rows[x]]

Later(a, b) == IF a >= b THEN a ELSE b
Sooner(a, b) == IF a <= b THEN a ELSE b
Ats == DOMAIN points

\* The members of S as a sequence, by rising key.
Ordered(S, Key(_)) ==
  FoldSet(LAMBDA r, q : LET k == Cardinality({i \in DOMAIN q : Key(q[i]) < Key(r)})
                        IN  SubSeq(q, 1, k) \o <<r>> \o SubSeq(q, k + 1, Len(q)),
          <<>>, S)

\* Mutant: the reading that opens an interval is not counted.
IntervalMutant(at, until, polls, price) ==
  [at |-> at, until |-> until, polls |-> polls - 1, price |-> price]

Interval(at, until, polls, price) ==
  [at |-> at, until |-> until, polls |-> polls, price |-> price]

\* The interval, confirmed by readings up to at.
Extended(r, at, polls) ==
  [r EXCEPT !.until = Later(r.until, at), !.polls = @ + polls]

\* put_price_reading.  On a conflict the row keeps the polls it had.
PutReading(at, price) ==
  LET last == Max(Ats)
      cur  == points[last]
  IN  IF Ats # {} /\ cur.price = price
      THEN Put(points, last, Extended(cur, at, 1))
      ELSE Put(points, at, Interval(at, at, IF at \in Ats THEN points[at].polls ELSE 1, price))

\* A reading before the open interval's start is ignored.
OutOfOrder(at) == Ats # {} /\ at < Max(Ats)

\* price_at: the interval around t, or the one that ended shortly before it.
PriceAt(t) ==
  LET around == {a \in Ats : a <= t /\ t <= points[a].until}
      before == {a \in Ats : points[a].until <= t /\ points[a].until >= t - Slack}
  IN  IF around # {} THEN points[Max(around)].price
      ELSE IF before = {} THEN None
      ELSE points[CHOOSE a \in before :
                    \A b \in before : points[b].until <= points[a].until].price

-----------------------------------------------------------------------------
(* Echoes of a frozen backend, price_echo.frozen_rows. *)

Jump(a, b) == (Later(a, b) - Sooner(a, b)) * JumpPart >= Sooner(a, b)

\* The run of its value that each row belongs to: since when, until when.
Run(rows) ==
  LET run[i \in 1..Len(rows)] ==
        LET r    == rows[i]
            same == {j \in 1..(i - 1) : rows[j].price = r.price}
            p    == run[Max(same)]
        IN  IF same # {} /\ r.at - p.last <= ChainGap
            THEN [start |-> p.start, last |-> Later(p.last, r.until)]
            ELSE [start |-> r.at, last |-> r.until]
  IN  run

\* The rows a jump leads into the value v, and whether v is older on record.
Returns(rows, v) ==
  {i \in 2..Len(rows) : rows[i].price = v /\ Jump(rows[i - 1].price, v)}

Older(run, i) == run[i].start < run[i - 1].start

\* The returns of i's episode: no gap between them at which the run broke.
Episode(rows, run, rets, i) ==
  LET Breaks(q) ==
        \E p \in rets : /\ p = Max({x \in rets : x < q} \cup {0})
                        /\ rows[q].at - rows[p].at > ChainGap
                        /\ run[q].start # run[p].start
  IN  {j \in rets : \A q \in rets :
         Sooner(i, j) < q /\ q <= Later(i, j) => ~Breaks(q)}

\* Enough returns, dense enough, most of them to the value that is older.
IsFrozen(rows, run, ep) ==
  /\ Cardinality(ep) >= MinReturns
  /\ \E k \in ep :
       Cardinality({i \in ep : i >= k /\ rows[i].at - rows[k].at < Window}) >= MinReturns
  /\ 2 * Cardinality({i \in ep : Older(run, i)}) > Cardinality(ep)

FrozenRows(rows) ==
  LET run == Run(rows)
  IN  {i \in 1..Len(rows) :
         LET rets == Returns(rows, rows[i].price)
         IN  \E j \in rets :
               LET ep == Episode(rows, run, rets, j)
               IN  Min(ep) <= i /\ i <= Max(ep) /\ IsFrozen(rows, run, ep)}

\* Rows in the order of their time; of two at one time the kept one first.
InOrder(S) == Ordered(S, LAMBDA r : 2 * r.at + (IF r.rejected THEN 1 ELSE 0))

\* price_check_rows: kept and rejected intervals that reach beyond since.
CheckRows(since) ==
  {[at |-> r.at, until |-> r.until, price |-> r.price, rejected |-> FALSE] :
     r \in {x \in Range(points) : x.until >= since}}
  \cup
  {[at |-> r.at, until |-> r.until, price |-> r.price, rejected |-> TRUE] :
     r \in {x \in Range(rejects) : x.until >= since}}

\* _echo_sequence: the interval that spans a rejected one is repeated after it.
EchoSequence(S) ==
  LET kept == {r \in S : ~r.rejected}
      Over(j) == {r \in kept : r.at < j.at /\ \A x \in kept : x.at < j.at => x.at <= r.at}
  IN  InOrder(S \cup UNION {{[r EXCEPT !.at = j.until + 1, !.rejected = TRUE] :
                               r \in {x \in Over(j) : x.until >= j.until}} :
                              j \in S \ kept})

\* The kept intervals of S that are echoes.
EchoesIn(S) ==
  LET rows == EchoSequence(S)
  IN  {rows[i].at : i \in {k \in FrozenRows(rows) : ~rows[k].rejected}}

\* Mutant: the interval is taken out and nothing stands in for it.
HealedMutant(ps, at) == [a \in DOMAIN ps \ {at} |-> ps[a]]

\* The series without the interval at `at`, healed around it.
Healed(ps, at) ==
  LET rest == [a \in DOMAIN ps \ {at} |-> ps[a]]
      prev == {a \in DOMAIN rest : a < at}
      nxt  == {a \in DOMAIN rest : a > at}
      p    == Max(prev)
      n    == Min(nxt)
  IN  IF prev = {} THEN rest
      ELSE IF nxt # {} /\ rest[n].price = rest[p].price
      THEN [a \in DOMAIN rest \ {n} |->
              IF a = p THEN Extended(rest[p], rest[n].until, rest[n].polls) ELSE rest[a]]
      ELSE [rest EXCEPT ![p] = Extended(@, ps[at].until, 0)]

\* reject_prices, earliest first; an interval a merge has taken is skipped.
\* The result is the series and the intervals moved to price_rejects.
Rejecting(ats) ==
  LET order == Ordered(ats, LAMBDA a : a)
      after[i \in 0..Cardinality(ats)] ==
        IF i = 0 THEN [points |-> points, moved |-> <<>>]
        ELSE LET s == after[i - 1]
                 a == order[i]
             IN  IF a \notin DOMAIN s.points THEN s
                 ELSE [points |-> Healed(s.points, a),
                       moved  |-> Put(s.moved, a, s.points[a])]
  IN  after[Cardinality(ats)]

\* The readings an interval set aside stood for.
Forgotten(moved) ==
  {t \in DOMAIN heard : \E r \in Range(moved) :
     r.at <= t /\ t <= r.until /\ r.price = heard[t]}

\* reject_price_echoes over the intervals that reach beyond since.
RejectEchoes(since) ==
  LET res == Rejecting(EchoesIn(CheckRows(since)))
      gone == Forgotten(res.moved)
  IN  /\ points' = res.points
      /\ rejects' = Written(rejects, res.moved)
      /\ heard' = [t \in DOMAIN heard \ gone |-> heard[t]]
      /\ echoFrom' = IF res.moved = <<>> THEN None ELSE Min(DOMAIN res.moved)

-----------------------------------------------------------------------------
(* Hours. *)

\* Until when the i-th of the rows read stood: until the next one began, or
\* a minute past its last confirmation.
StoodUntil(rows, i) ==
  IF i < Len(rows) THEN Later(rows[i].until, rows[i + 1].at - 1)
  ELSE rows[i].until + Minute

\* Mutant: the rows are cut at the hour itself.
ReachBackMutant(cut) == cut + HourS

\* One hour before the first that is folded.
ReachBack(cut) == cut - HourS

\* One hour of the fold: the rows that stood in it, clipped to it.
Hour(rows, in, h) ==
  LET first == Min(in)
      last  == Max(in)
      Held(i) == Later(1, Sooner(Sooner(StoodUntil(rows, i), HourOf(now) - 1),
                                 h + HourS - 1) - Later(rows[i].at, h))
  IN  [open     |-> rows[first].price,
       close    |-> rows[last].price,
       high     |-> Max({rows[i].price : i \in in}),
       low      |-> Min({rows[i].price : i \in in}),
       weighted |-> MapThenSumSet(LAMBDA i : rows[i].price * Held(i), in),
       seconds  |-> MapThenSumSet(Held, in),
       moves    |-> Cardinality(in),
       polls    |-> MapThenSumSet(LAMBDA i : rows[i].polls, {i \in in : rows[i].at >= h})]

\* rollup_price_hours: the finished hours from cut on, as far as intervals
\* reach; cut = None reads every row.
RollUp(cut) ==
  LET read == {r \in Range(points) :
                 r.at < HourOf(now) /\ (cut # None => r.until >= ReachBack(HourOf(cut)))}
      rows == Ordered(read, LAMBDA r : r.at)
      In(h) == {i \in DOMAIN rows :
                  /\ rows[i].at < h + HourS
                  /\ Sooner(StoodUntil(rows, i), HourOf(now) - 1) >= Later(h, rows[i].at)}
      over == {h \in {HourOf(t) : t \in 0..(now - 1)} :
                 h < HourOf(now) /\ (cut # None => h >= HourOf(cut)) /\ In(h) # {}}
  IN  [h \in over |-> Hour(rows, In(h), h)]

\* Where rebuild_price_hours begins: past the first hour when points before
\* it were pruned.
RebuildFrom(lo) ==
  HourOf(lo) + IF hours # <<>> /\ Min(DOMAIN hours) < HourOf(lo) THEN HourS ELSE 0

\* Mutant: the readings are held against the gaps between them.
ExpectedMutant(span) == span \div Minute

\* price_coverage: the readings of a span that was watched throughout, and the
\* readings on record with the span they are of.
Expected(span) == span \div Minute + 1
Polls == MapThenSumSet(LAMBDA a : points[a].polls, Ats)
Span == Max({points[a].until : a \in Ats}) - Min(Ats)

-----------------------------------------------------------------------------
(* The sampler. *)

\* repair_price_history: echoes leave the series,
Repair ==
  /\ pc = "repair" /\ pc' = "rebuild"
  /\ RejectEchoes(None)
  /\ UNCHANGED <<now, hours, polled, missed, stops, backs>>

\* and every hour the points still cover is folded again.
Rebuild ==
  /\ pc = "rebuild" /\ pc' = "sample"
  /\ hours' = IF points = <<>> THEN hours
              ELSE Written(hours, RollUp(RebuildFrom(Min(Ats))))
  /\ echoFrom' = None
  /\ UNCHANGED <<now, points, rejects, heard, polled, missed, stops, backs>>

\* sample_price: one reading, at the whole minute.
Sample ==
  /\ pc = "sample" /\ pc' = "echo"
  /\ \/ /\ missed < MaxMissed /\ missed' = missed + 1   \* no answer, or no price in it
        /\ UNCHANGED <<points, heard, polled>>
     \/ \E p \in Prices :
          /\ IF OutOfOrder(now) THEN UNCHANGED <<points, heard, polled>>
             ELSE /\ points' = PutReading(now, p)
                  /\ heard' = Put(heard, now, p)
                  /\ polled' = polled \cup {now}
          /\ UNCHANGED missed
  /\ UNCHANGED <<now, rejects, hours, echoFrom, stops, backs>>

\* The echoes of the last day are set aside,
Echoes ==
  /\ pc = "echo" /\ pc' = "refold"
  /\ RejectEchoes(now - EchoSpan)
  /\ UNCHANGED <<now, hours, polled, missed, stops, backs>>

\* Mutant: hours folded from echoes are left to the next roll-up.
FoldedMutant(from) == FALSE

\* An echo lies in an hour that may be folded already.
Folded(from) == from # None /\ from < HourOf(now)

\* and the hours they had been folded into are folded again.
Refold ==
  /\ pc = "refold" /\ pc' = "roll"
  /\ hours' = IF Folded(echoFrom) THEN Written(hours, RollUp(echoFrom)) ELSE hours
  /\ echoFrom' = None
  /\ UNCHANGED <<now, points, rejects, heard, polled, missed, stops, backs>>

\* The roll-up of the last two days.  Its timer is a sixth of an hour, so each
\* hour is folded several times while it is within the span.
Roll ==
  /\ pc = "roll" /\ pc' = "prune"
  /\ hours' = Written(hours, RollUp(now - RollSpan))
  /\ UNCHANGED <<now, points, rejects, echoFrom, heard, polled, missed, stops, backs>>

\* Mutant: an interval goes by when it began.
ExpiredMutant(r) == r.at < now - KeepSpan

\* An interval ended before the window.
Expired(r) == r.until < now - KeepSpan

\* prune_price, when it is due.
Prune ==
  /\ pc = "prune" /\ pc' = "sleep"
  /\ \/ points' = [a \in {b \in Ats : ~Expired(points[b])} |-> points[a]]
     \/ UNCHANGED points
  /\ UNCHANGED <<now, rejects, hours, echoFrom, heard, polled, missed, stops, backs>>

\* The rest of the minute is slept.
Sleep ==
  /\ pc = "sleep" /\ pc' = "sample"
  /\ now < EndOfTime /\ now' = now + Minute
  /\ UNCHANGED <<points, rejects, hours, echoFrom, heard, polled, missed, stops, backs>>

\* The process stops anywhere and starts again, perhaps in the same minute.
Stop ==
  /\ stops + backs < MaxFaults /\ stops' = stops + 1
  /\ pc' = "repair" /\ echoFrom' = None
  /\ now' \in {now, now + Minute} /\ now' <= EndOfTime
  /\ UNCHANGED <<points, rejects, hours, heard, polled, missed, backs>>

\* The host's clock is set back.
SetBack ==
  /\ stops + backs < MaxFaults /\ backs' = backs + 1
  /\ pc = "sleep" /\ pc' = "sample"
  /\ now >= Minute /\ now' = now - Minute
  /\ UNCHANGED <<points, rejects, hours, echoFrom, heard, polled, missed, stops>>

PriceNext == \/ Repair \/ Rebuild \/ Sample \/ Echoes \/ Refold \/ Roll \/ Prune
        \/ Sleep \/ Stop \/ SetBack

PriceSpec == PriceInit /\ [][PriceNext]_priceVars

-----------------------------------------------------------------------------
(* Properties. *)

PriceInterval == [at : Nat, until : Nat, polls : Nat \ {0}, price : Prices]

\* Every record keeps its shape, and an interval never ends before it begins.
PriceTypeOK ==
  /\ now \in 0..EndOfTime
  /\ \A ps \in {points, rejects} : \A a \in DOMAIN ps :
       ps[a] \in PriceInterval /\ ps[a].at = a /\ a <= ps[a].until
  /\ \A h \in DOMAIN hours : h = HourOf(h) /\ hours[h].low <= hours[h].high
  /\ pc \in {"repair", "rebuild", "sample", "echo", "refold", "roll", "prune", "sleep"}
  /\ DOMAIN heard \subseteq 0..EndOfTime /\ missed \in 0..MaxMissed /\ stops + backs <= MaxFaults

\* The price of every minute that was read and not set aside is answered as it
\* was read last, however intervals were opened, extended, healed and pruned
\* since ("exactly one row can satisfy", store.py price_at).  Only a clock that
\* was set back may put an interval inside another.
ReadingsAnswered ==
  backs = 0 => \A t \in DOMAIN heard : t >= now - KeepSpan => PriceAt(t) = heard[t]

\* An hour is rewritten whole or not at all (store.py rollup_price_hours): each
\* reading on record in a stored hour lies between its low and its high, though
\* the hour is folded again each pass, after echoes and on every start, from
\* fewer and fewer points.  The very first hour is not protected.
HoursHoldEveryReading ==
  backs = 0 => \A t \in DOMAIN heard :
    LET h == HourOf(t)
    IN  h \in DOMAIN hours /\ h # Min(DOMAIN hours)
          => hours[h].low <= heard[t] /\ heard[t] <= hours[h].high

\* The hour h was reached by the interval that began at a.
Stood(a, h) ==
  LET after == {b \in Ats : b > a}
      end == IF after = {} THEN points[a].until + Minute
             ELSE Later(points[a].until, Min(after) - 1)
  IN  a < h + HourS /\ end >= h

\* Past the pass's own refold no stored hour shows an echo: its figures are
\* prices that stood in it by the healed series.  A process that stopped
\* between setting echoes aside and folding again repairs the hours when it
\* starts.
NoEchoInHours ==
  backs = 0 /\ pc \in {"sample", "roll", "prune", "sleep"} =>
    \A h \in DOMAIN hours : Ats # {} /\ h > HourOf(Min(Ats)) =>
      {hours[h].open, hours[h].high, hours[h].low, hours[h].close} \subseteq
        {points[a].price : a \in {b \in Ats : Stood(b, h)}}

\* Setting readings aside leaves no hole: every minute that was read is still
\* answered with a price, by the interval that was extended or merged over it
\* (store.py reject_prices), whatever is set aside, in whichever order, later.
NoHoles == backs = 0 => \A t \in polled : t >= now - KeepSpan => PriceAt(t) # None

\* The published share of a span that was watched is no more than all of it
\* (store.py price_coverage): intervals that are opened, extended, merged over
\* one set aside and pruned never count a minute twice, but for a start in the
\* minute of the last reading.
PollRatioIsShare ==
  backs = 0 /\ Ats # {} => Polls <= Expected(Span) + stops

\* The repair is done once it has run: it finds no further echoes in what it
\* leaves (pipeline.py repair_price_history, "Idempotent, and cheap when there is
\* nothing to do").
RepairSettles == pc = "rebuild" => EchoesIn(CheckRows(None)) = {}
=============================================================================
