------------------------------ MODULE PriceViews ------------------------------
(***************************************************************************)
(* What the API makes of the price hours: days (qdr/store.py price_days),  *)
(* the calendar of moves and the moving average (api/server.py price_days  *)
(* and price_average).                                                     *)
(*                                                                         *)
(* The record grows by an hour each step, with an average or unwatched,    *)
(* and time is counted in hours; an hour's high, low and close are left    *)
(* out.  Averages are kept as sum and number of the hours they are of.     *)
(***************************************************************************)
EXTENDS Integers, Sequences, FiniteSetsExt

CONSTANTS
  HourPrices,   \* the averages an hour may have
  HoursPerDay,  \* 24
  MinHours,     \* MIN_HOURS, half a day
  CalendarDays, \* the days a calendar may be asked for
  Windows,      \* the days an average may be over
  Spans,        \* the points an average may be asked for
  RecordLength  \* bound: hours since the record began

ASSUME ViewsAssumption ==
  /\ HourPrices \subseteq Nat \ {0} /\ HoursPerDay \in Nat \ {0} /\ MinHours \in 1..HoursPerDay
  /\ UNION {CalendarDays, Windows, Spans} \subseteq Nat \ {0} /\ RecordLength \in Nat

VARIABLES
  record    \* the hours since the first: their average, or 0 when unwatched

viewVars == <<record>>

Unwatched == 0
ViewInit == record = <<>>

\* External: the worker folds an hour, or none.
AddHour ==
  /\ Len(record) < RecordLength
  /\ \E p \in HourPrices \cup {Unwatched} : record' = Append(record, p)

ViewNext == AddHour

ViewSpec == ViewInit /\ [][ViewNext]_viewVars

-----------------------------------------------------------------------------
(* Days. *)

\* The hour that runs is the one after the last on record.
Now == Len(record)
Today == Now \div HoursPerDay

\* The averages of an hour and of a day, compared and added as fractions.
Mean(sum, num) == [sum |-> sum, num |-> num]
Below(a, b) == a.sum * b.num < b.sum * a.num

\* The hours on record of a day, from `cut` on.
HoursOf(day, cut) ==
  {i \in DOMAIN record : /\ (i - 1) \div HoursPerDay = day /\ i - 1 >= cut
                         /\ record[i] # Unwatched}

DayRow(hs) ==
  [hours |-> Cardinality(hs), mean |-> Mean(MapThenSumSet(LAMBDA i : record[i], hs), Cardinality(hs))]

\* The newest n days of S.
Newest(S, n) == {d \in S : Cardinality({e \in S : e >= d}) <= n}

\* The hour from which price_days reads.
CutOf(days) == Now - (days + 1) * HoursPerDay

\* price_days of the store: the newest days on record, each with its row.
DaysOnRecord(days) ==
  LET Read(day) == HoursOf(day, CutOf(days))
  IN  [day \in Newest({d \in 0..Today : Read(d) # {}}, days) |-> DayRow(Read(day))]

\* Enough of the day is on record.
Watched(row) == row.hours >= MinHours

-----------------------------------------------------------------------------
(* The calendar, price_days of the API. *)

Move(a, b) == IF Below(a, b) THEN "up" ELSE IF Below(b, a) THEN "down" ELSE "flat"

\* Mutant: a day nobody watched is no day to compare with, and forgets the last.
LastCloseMutant(rows, day) == {d \in DOMAIN rows : d = day - 1 /\ Watched(rows[d])}

\* The watched days before a day; the newest is the one it is compared with.
LastClose(rows, day) == {d \in DOMAIN rows : d < day /\ Watched(rows[d])}

Square(rows, day) ==
  LET prev == LastClose(rows, day)
  IN  IF day \notin DOMAIN rows \/ ~Watched(rows[day]) THEN "unwatched"
      ELSE IF prev = {} THEN "first"
      ELSE Move(rows[Max(prev)].mean, rows[day].mean)

\* The days from the first read to the last, of which the newest are shown.
DaysShown(rows, days) ==
  IF DOMAIN rows = {} THEN {} ELSE Newest(Min(DOMAIN rows)..Max(DOMAIN rows), days)

Calendar(rows, days) == [day \in DaysShown(rows, days) |-> Square(rows, day)]
Calendars(days) == {Calendar(rows, days) : rows \in {DaysOnRecord(days + 1)}}

-----------------------------------------------------------------------------
(* The moving average. *)

\* Mutant: the day that runs is averaged in.
UsableMutant(rows) == {d \in DOMAIN rows : Watched(rows[d])}

\* The watched days that are over.
Usable(rows) == {d \in DOMAIN rows : Watched(rows[d]) /\ d < Today}

\* The days behind a day's average.
Smoothed(usable, day, days) ==
  LET window == Newest({d \in usable : d <= day}, days)
  IN  [of |-> window, complete |-> Cardinality(window) >= days]

\* price_average: one point per usable day, and whether a whole window is on
\* record; the average itself is left out, but not which days it is of.
AverageOf(usable, days, span) ==
  [series |-> [day \in Newest(usable, span) |-> Smoothed(usable, day, days)],
   ready  |-> Cardinality(usable) >= days]

Averages(days, span) ==
  {AverageOf(usable, days, span) : usable \in {Usable(DaysOnRecord(span + days))}}

-----------------------------------------------------------------------------
(* Properties. *)

\* A day by all its hours on record, and the days of which most were watched.
DayInFull(day) == DayRow(HoursOf(day, 0))
WellWatched(until) == {d \in 0..until : Cardinality(HoursOf(d, 0)) >= MinHours}

\* The days that are whole in what is read for n of them.
ReadWhole(n) ==
  {d \in 0..Today : /\ d * HoursPerDay >= CutOf(n)
                    /\ Cardinality({e \in d..Today : HoursOf(e, 0) # {}}) <= n}

\* While the record is kept up, each square of the calendar tells its day by all
\* of the day's hours: unwatched when too few are on record, never flat, and
\* otherwise its move from the last watched day before it, however many nobody
\* watched lie between, as far as the query reaches (server.py price_days, "a
\* day with no reading is not a flat day").
CalendarTellsWhatWasSeen ==
  record # <<>> /\ record[Len(record)] # Unwatched =>
    \A days \in CalendarDays : \A cal \in Calendars(days) : \A day \in DOMAIN cal :
      LET prev == WellWatched(day - 1)
      IN  IF day \notin WellWatched(day) THEN cal[day] = "unwatched"
          ELSE IF prev = {} THEN cal[day] = "first"
          ELSE Max(prev) \in ReadWhole(days + 1) =>
                 cal[day] = Move(DayInFull(Max(prev)).mean, DayInFull(day).mean)

\* Ready when a point is complete, and complete when over whole watched days.
OverWholeDays(avg, days, n) ==
  /\ avg.ready = (\E day \in DOMAIN avg.series : avg.series[day].complete)
  /\ \A day \in DOMAIN avg.series :
       LET pt == avg.series[day]
       IN  pt.complete /\ pt.of \subseteq ReadWhole(n) =>
             /\ Cardinality(pt.of) = days /\ Max(pt.of) = day
             /\ pt.of = {d \in WellWatched(Today - 1) : d <= day /\ d >= Min(pt.of)}

\* A moving average that calls itself complete is one over as many whole watched
\* days as were asked for, the latest before it, and none is announced as ready
\* before; the day that runs and thin days never count (server.py price_average).
\* Days cut by the reach of the query are left out of view.
CompleteIsComplete ==
  record # <<>> =>
    \A days \in Windows, span \in Spans : \A avg \in Averages(days, span) :
      OverWholeDays(avg, days, span + days)
=============================================================================
