------------------------------ MODULE TrendLines ------------------------------
(***************************************************************************)
(* The trend lines: the rule that finds them on the bars of a scale        *)
(* (qdr/trendlines.py), and the archive a worker keeps of them in          *)
(* price_trendlines (qdr/pipeline.py update_trendlines and                 *)
(* replay_trendlines).                                                     *)
(*                                                                         *)
(* Bars are hours; the hour that is i-th on record is at time i.  A        *)
(* pass's writes are commits of their own, and the process may stop        *)
(* between two of them.  Prices and slopes are exact: a line's price is    *)
(* compared after multiplying with the distance of its anchors.            *)
(***************************************************************************)
EXTENDS Integers, Sequences, FiniteSetsExt

CONSTANTS
  BarShapes,  \* the bars an hour may have: high, low, close
  Scales,     \* the scales in the order of a pass: k, minSep, tol, lookback, ready, breakBars
  EchoReach,  \* how many hours back echoes are looked for: a day
  MaxHours,   \* bound: hours on record
  MaxTips,    \* bound: hours that differ from the first
  MaxUpsets   \* bound: passes that stop midway and corrected hours together

Positive == Nat \ {0}

Scale == [k : Positive, minSep : Positive, tol : Positive, lookback : Nat, ready : Nat,
          breakBars : Positive]

ASSUME TrendAssumption ==
  /\ \A b \in BarShapes : b.low <= b.close /\ b.close <= b.high /\ b.low > 0
  /\ Scales \in Seq(Scale)
  /\ {EchoReach, MaxHours, MaxTips, MaxUpsets} \subseteq Nat

VARIABLES
  bars,     \* price_hours, oldest first
  lines,    \* price_trendlines, by scale, kind and anchors
  due,      \* an hour was folded since the last pass
  halts,    \* how often a pass stopped midway
  fixes     \* how often stored hours were corrected

trendVars == <<bars, lines, due, halts, fixes>>

TrendInit == bars = <<>> /\ lines = <<>> /\ due = FALSE /\ halts = 0 /\ fixes = 0

Kinds == {"resistance", "support"}
Never == -1
NoLine == [t1 |-> 0]

-----------------------------------------------------------------------------
(* The rule. *)

Tip(kind, b) == IF kind = "resistance" THEN b.high ELSE b.low
Sign(kind)   == IF kind = "resistance" THEN 1 ELSE -1

\* pivots: above the k bars before, not below the k bars after.
Pivots(bs, k, kind) ==
  {i \in (k + 1)..(Len(bs) - k) :
     LET v == Sign(kind) * Tip(kind, bs[i])
     IN  /\ \A j \in (i - k)..(i - 1) : v > Sign(kind) * Tip(kind, bs[j])
         /\ \A j \in (i + 1)..(i + k) : v >= Sign(kind) * Tip(kind, bs[j])}

\* _hull: the points above (or below) every chord between two others.
Hull(bs, cand, kind) ==
  {j \in cand : \A i, l \in cand : i < j /\ j < l =>
     LET Y(x) == Tip(kind, bs[x])
     IN  Sign(kind) * ((j - i) * (Y(l) - Y(i)) - (l - i) * (Y(j) - Y(i))) < 0}

\* Line.at, times the distance of the anchors.
LineAt(ln, t) == ln.p1 * (ln.t2 - ln.t1) + (ln.p2 - ln.p1) * (t - ln.t1)

\* p lies more than one part in tol beyond the line at t.
Beyond(ln, p, t, tol) ==
  LET d == p * (ln.t2 - ln.t1) - LineAt(ln, t)
  IN  Sign(ln.kind) * d * tol > LineAt(ln, t)

\* _touches: the pivots within tol of the line, and its anchors.
Touches(ln, bs, piv, tol) ==
  {ln.t1, ln.t2} \cup
  {j \in piv :
     LET at == LineAt(ln, j)
         d  == at - Tip(ln.kind, bs[j]) * (ln.t2 - ln.t1)
     IN  /\ j >= ln.t1
         /\ at < 0 \/ (at > 0 /\ (IF d < 0 THEN -d ELSE d) * tol <= at)}

\* broken_at, over the bars in span: the first of `need` closes in a row beyond
\* the line.
BrokenAt(ln, bs, span, tol, need) ==
  LET First(S) == IF S = {} THEN Never ELSE Min(S)
      Starts(out) == {i \in out : i..(i + need - 1) \subseteq out}
  IN  First(Starts({i \in span : i > ln.t2 /\ Beyond(ln, bs[i].close, i, tol)}))

\* The lines along the hull that held: anchors far enough apart, no bar between
\* them beyond, and not broken before the last k bars.
GoodLines(bs, sc, kind, piv, hull) ==
  LET Edge(a, b) == [kind |-> kind, t1 |-> a, p1 |-> Tip(kind, bs[a]),
                     t2 |-> b, p2 |-> Tip(kind, bs[b])]
      Line(ln) == [kind |-> kind, t1 |-> ln.t1, p1 |-> ln.p1, t2 |-> ln.t2, p2 |-> ln.p2,
                   touches |-> Touches(ln, bs, piv, sc.tol)]
      Good(a, b, ln) ==
        /\ b - a >= sc.minSep
        /\ \A j \in hull : ~(a < j /\ j < b)
        /\ \A i \in a..b : ~Beyond(ln, Tip(kind, bs[i]), i, sc.tol)
        /\ BrokenAt(ln, bs, 1..(Len(bs) - sc.k), sc.tol, sc.breakBars) = Never
  IN  {Line(Edge(e[1], e[2])) :
         e \in {x \in hull \X hull : Good(x[1], x[2], Edge(x[1], x[2]))}}

\* Most touches, then the younger second anchor, then the older first one.
Beats(x, y) ==
  LET Rank(ln) == Cardinality(ln.touches)
  IN  \/ Rank(x) > Rank(y)
      \/ Rank(x) = Rank(y) /\ x.t2 > y.t2
      \/ Rank(x) = Rank(y) /\ x.t2 = y.t2 /\ x.t1 <= y.t1

\* best_line, among the edges of the hull over the pivots from `from` on.
BestLine(bs, sc, kind, from) ==
  LET OnHull(piv) == Hull(bs, {i \in piv : i >= from}, kind)
      Found(piv)  == GoodLines(bs, sc, kind, piv, OnHull(piv))
      Best(lns)   == IF lns = {} THEN NoLine ELSE CHOOSE x \in lns : \A y \in lns : Beats(x, y)
  IN  Best(Found(Pivots(bs, sc.k, kind)))

\* detect: no line from too little, and none anchored before the lookback.
Detect(bs, sc, kind) ==
  IF Len(bs) < sc.ready \/ bs = <<>> THEN NoLine
  ELSE BestLine(bs, sc, kind,
                IF sc.lookback > 0 /\ Len(bs) > sc.lookback
                THEN Len(bs) - sc.lookback + 1 ELSE 1)

-----------------------------------------------------------------------------
(* The archive. *)

Row(ln, found, id) ==
  [t1 |-> ln.t1, p1 |-> ln.p1, t2 |-> ln.t2, p2 |-> ln.p2, kind |-> ln.kind,
   touches |-> ln.touches, found |-> found, id |-> id,
   status |-> "active", ended |-> Never]

KeyOf(s, ln) == <<s, ln.kind, ln.t1, ln.t2>>

Actives(tab, s, kind) ==
  {key \in DOMAIN tab : key[1] = s /\ key[2] = kind /\ tab[key].status = "active"}

\* end_trendline, for an active line only.
Ended(row, status, at) ==
  IF row.status = "active" THEN [row EXCEPT !.status = status, !.ended = at] ELSE row

\* revive_trendline, for a replaced line only.
Revived(row) ==
  IF row.status = "replaced" THEN [row EXCEPT !.status = "active", !.ended = Never] ELSE row

\* The table with the row r under the key.
Stored(tab, key, r) == [x \in DOMAIN tab \cup {key} |-> IF x = key THEN r ELSE tab[x]]

\* One commit.
Apply(tab, c) ==
  CASE c.op = "end"    -> [tab EXCEPT ![c.key] = Ended(@, c.status, c.at)]
    [] c.op = "revive" -> [tab EXCEPT ![c.key] = Revived(@)]
    [] c.op = "touch"  -> [tab EXCEPT ![c.key].touches = c.touches]
    [] c.op = "put"    -> Stored(tab, c.key, Row(c.line, c.at, Cardinality(DOMAIN tab) + 1))

\* The table after the first n commits.
After(tab, cs, n) ==
  LET tabs[i \in 0..n] == IF i = 0 THEN tab ELSE Apply(tabs[i - 1], cs[i])
  IN  tabs[n]

End(key, status, at) == [op |-> "end", key |-> key, status |-> status, at |-> at]

\* The commits that end the broken lines of a scale, newest first.
Breaks(tab, s, bs) ==
  LET At(key) == BrokenAt(tab[key], bs, DOMAIN bs, Scales[s].tol, Scales[s].breakBars)
      Gone == {key \in UNION {Actives(tab, s, kind) : kind \in Kinds} : At(key) # Never}
      Nth(i) == CHOOSE key \in Gone :
                  Cardinality({x \in Gone : tab[x].id >= tab[key].id}) = i
  IN  [i \in 1..Cardinality(Gone) |-> End(Nth(i), "broken", At(Nth(i)))]

\* A line found for the first time is stored unless the price is through it,
\* or one close into a break (_half_broken).
FitToStore(ln, bs, sc) ==
  /\ BrokenAt(ln, bs, DOMAIN bs, sc.tol, sc.breakBars) = Never
  /\ BrokenAt(ln, bs, {Len(bs)}, sc.tol, 1) = Never

\* Mutant: of two active lines the younger is the current one.
CurrentMutant(tab, on) == {x \in on : \A y \in on : tab[x].id >= tab[y].id}

\* The active line of a kind.  Of two, the older: later rows of the query
\* overwrite earlier ones.
Current(tab, on) == {x \in on : \A y \in on : tab[x].id <= tab[y].id}

\* Mutant: the line that was replaced is left as it is.
SupersedesMutant(old, at) == <<>>

\* The line that stood before ends.
Supersedes(old, at) == IF old = {} THEN <<>> ELSE <<End(CHOOSE x \in old : TRUE, "replaced", at)>>

\* The commits for the line found of one kind.
Changes(tab, s, bs, at, ln, cur) ==
  LET key   == KeyOf(s, ln)
      touch == [op |-> "touch", key |-> key, touches |-> ln.touches]
  IN  CASE ln = NoLine -> <<>>
        [] ln # NoLine /\ key \in cur ->
             IF tab[key].touches # ln.touches THEN <<touch>> ELSE <<>>
        [] ln # NoLine /\ key \in DOMAIN tab \ cur ->
             IF tab[key].status = "broken" THEN <<>>
             ELSE <<[op |-> "revive", key |-> key], touch>> \o Supersedes(cur, at)
        [] ln # NoLine /\ key \notin DOMAIN tab ->
             IF ~FitToStore(ln, bs, Scales[s]) THEN <<>>
             ELSE <<[op |-> "put", key |-> key, line |-> ln, at |-> at]>> \o Supersedes(cur, at)

\* The commits of update_trendlines for one scale, then for all of them.
KindCommits(tab, s, bs, kind) ==
  Changes(tab, s, bs, Len(bs), Detect(bs, Scales[s], kind),
          Current(tab, Actives(tab, s, kind)))

LinesCommits(tab, s, bs, ends) ==
  LET left == After(tab, ends, Len(ends))
  IN  ends \o KindCommits(left, s, bs, "resistance") \o KindCommits(left, s, bs, "support")

Commits(tab, bs) ==
  LET upTo[s \in 0..Len(Scales)] ==
        IF s = 0 THEN <<>> ELSE upTo[s - 1] \o LinesCommits(tab, s, bs, Breaks(tab, s, bs))
  IN  upTo[Len(Scales)]

Only(S) == CHOOSE x \in S : TRUE

\* A whole pass over the hours hs.
Pass(tab, hs) == Only({After(tab, cs, Len(cs)) : cs \in {Commits(tab, hs)}})

\* One pass per hour, from the archive tab on.
Passes(tab, hs, n) ==
  LET tabs[i \in 0..n] == IF i = 0 THEN tab ELSE Pass(tabs[i - 1], SubSeq(hs, 1, i))
  IN  tabs[n]

\* Mutant: the archive is not cleared first.
ReplayMutant(hs, n) == Passes(lines, hs, n)

\* replay_trendlines up to its n-th hour, from nothing.
Replay(hs, n) == Passes(<<>>, hs, n)

-----------------------------------------------------------------------------
(* The worker. *)

\* External: an hour is over and folded; the pass of the roll-up follows.
NewHour ==
  /\ ~due /\ due' = TRUE
  /\ Len(bars) < MaxHours
  /\ \E b \in BarShapes : bars' = Append(bars, b)
  /\ Cardinality({i \in DOMAIN bars' : bars'[i] # bars'[1]}) <= MaxTips
  /\ UNCHANGED <<lines, halts, fixes>>

\* update_trendlines, after a roll-up or once more.
Update ==
  /\ bars # <<>> /\ due' = FALSE
  /\ lines' = Pass(lines, bars)
  /\ UNCHANGED <<bars, halts, fixes>>

\* The archive before and between any of the commits cs.
Halfway(tab, cs) == {After(tab, cs, n) : n \in 0..(Len(cs) - 1)}

\* The process stops before or between the commits of the pass.
UpdateStops ==
  /\ halts + fixes < MaxUpsets /\ halts' = halts + 1
  /\ due /\ due' = FALSE
  /\ lines' \in Halfway(lines, Commits(lines, bars))
  /\ UNCHANGED <<bars, fixes>>

\* Echoes are taken out of a stored hour, which narrows it, and the lines are
\* replayed.
Correct ==
  /\ ~due
  /\ halts + fixes < MaxUpsets /\ fixes' = fixes + 1
  /\ \E i \in DOMAIN bars, b \in BarShapes :
       /\ i > Len(bars) - EchoReach
       /\ b # bars[i] /\ bars[i].low <= b.low /\ b.high <= bars[i].high
       /\ bars' = [bars EXCEPT ![i] = b]
       /\ lines' = Replay(bars', Len(bars))
  /\ UNCHANGED <<due, halts>>

TrendNext == NewHour \/ Update \/ UpdateStops \/ Correct

TrendSpec == TrendInit /\ [][TrendNext]_trendVars

-----------------------------------------------------------------------------
(* Properties. *)

\* The archive keeps its shape: every line stands under its own anchors, and is
\* ended exactly when it is not active.
TrendTypeOK ==
  /\ bars \in Seq(BarShapes) /\ halts + fixes <= MaxUpsets
  /\ \A key \in DOMAIN lines :
       LET r == lines[key]
       IN  /\ key = KeyOf(key[1], r) /\ r.t1 < r.t2
           /\ r.status \in {"active", "broken", "replaced"}
           /\ (r.status = "active") = (r.ended = Never)

\* The archive has at most one active line of a kind for each scale.
OneOfEach(tab) ==
  \A s \in DOMAIN Scales, kind \in Kinds : Cardinality(Actives(tab, s, kind)) <= 1

\* Without a pass that stopped midway each scale has one active line of a kind:
\* the line that takes over ends the one before, also when it is an old one come
\* back.
OneActive == halts = 0 => OneOfEach(lines)

\* A pass that stops between two commits loses nothing: the next one over the same
\* hours brings the archive where an undisturbed one does.  Not so where the pass
\* brings a line back which is older than the one it takes over from, and then
\* taken for the current one, or which is broken already.
StoppedPassHeals ==
  LET cs    == Commits(lines, bars)
      Back  == {cs[i].key : i \in {j \in DOMAIN cs : cs[j].op = "revive"}}
      right == Pass(lines, bars)
  IN  due /\ OneOfEach(lines) =>
        \A tab \in Halfway(lines, cs) : \A got \in {Pass(tab, bars)} :
          /\ DOMAIN got = DOMAIN right
          /\ \A key \in DOMAIN got : got[key] # right[key] =>
               \E old \in Back :
                 /\ old[1] = key[1] /\ old[2] = key[2]
                 /\ got[old].id < got[key].id \/ got[old].status = "broken"

\* The active lines rest on the bars: their anchors are the tips of bars on
\* record, also after stored hours were corrected (pipeline.py replay_trendlines).
AnchoredOnRecord ==
  \A key \in DOMAIN lines :
    LET r == lines[key]
    IN  /\ Tip(r.kind, bars[r.t1]) = r.p1
        /\ Tip(r.kind, bars[r.t2]) = r.p2
=============================================================================
