------------------------------ MODULE PriceProofs ------------------------------
(***************************************************************************)
(* The price series and its days.  Every reading on record is answered     *)
(* with its price, for any prices, times and spans, and whatever the echo  *)
(* detector sets aside; the hours hold what was heard and no echo.  The    *)
(* calendar and the moving average tell the days by all their hours.       *)
(***************************************************************************)
EXTENDS PriceSeries, PriceViews, SetOrderTheorems, SequenceTheorems, TLAPS

-----------------------------------------------------------------------------
(* The price series: the inductive invariant. *)

\* Intervals stand under their start, end by the time top, and none reaches
\* beyond the start of a later one.
Series(ps, top) ==
  /\ ps = [a \in DOMAIN ps |-> ps[a]] /\ DOMAIN ps \subseteq 0..top
  /\ \A a \in DOMAIN ps : /\ ps[a] \in PriceInterval /\ ps[a].at = a
                          /\ a <= ps[a].until /\ ps[a].until <= top
  /\ \A a, b \in DOMAIN ps : a < b => ps[a].until <= b

\* The last interval that began by t reaches t, with the price v.
Shown(ps, t, v) ==
  \E a \in DOMAIN ps : /\ a <= t /\ t <= ps[a].until /\ ps[a].price = v
                       /\ \A b \in DOMAIN ps : b <= t => b <= a

\* What was heard within the window is shown.
Answered ==
  /\ Series(points, now) /\ DOMAIN rejects \subseteq 0..now
  /\ DOMAIN heard \subseteq 0..now /\ heard = [t \in DOMAIN heard |-> heard[t]]
  /\ \A t \in DOMAIN heard : t >= now - KeepSpan => Shown(points, t, heard[t])

AnswersInv == now \in Nat /\ backs \in Nat /\ (backs = 0 => Answered)

-----------------------------------------------------------------------------
(* Intervals. *)

\* The latest and the earliest of the starts.
LEMMA MaxIs ==
  ASSUME NEW S, NEW m \in S, S \subseteq Int, \A x \in S : x <= m
  PROVE  Max(S) = m
  <1>1. /\ Max(S) \in S /\ \A x \in S : Max(S) >= x
    <2> DEFINE P(x) == \A y \in S : x >= y
    <2>1. \E x \in S : P(x)
      BY Zenon, SMT
    <2> HIDE DEF P
    <2>2. (CHOOSE x \in S : P(x)) \in S /\ P(CHOOSE x \in S : P(x))
      BY <2>1
    <2> QED
      BY <2>2 DEF Max, P
  <1>2. /\ Max(S) \in Int /\ m \in Int /\ Max(S) >= m /\ Max(S) <= m
    BY <1>1
  <1> QED
    BY <1>2

LEMMA BoundedMax ==
  ASSUME NEW b \in Nat, NEW S \in SUBSET (0..b), S # {}
  PROVE  Max(S) \in S /\ \A x \in S : x <= Max(S)
  <1>1. PICK m \in S : \A x \in S : x <= m
    BY GreatestFound
  <1>2. Max(S) = m
    <2>1. S \subseteq Int
      OBVIOUS
    <2> QED
      BY <1>1, <2>1, MaxIs
  <1> QED
    BY <1>1, <1>2

LEMMA LeastMin ==
  ASSUME NEW S \in SUBSET Nat, S # {}
  PROVE  Min(S) \in S /\ \A x \in S : Min(S) <= x
  <1> DEFINE P(x) == \A y \in S : x <= y
  <1>1. \E x \in S : P(x)
    BY LeastFound
  <1> HIDE DEF P
  <1>2. (CHOOSE x \in S : P(x)) \in S /\ P(CHOOSE x \in S : P(x))
    BY <1>1
  <1> QED
    BY <1>2 DEF Min, P

\* An interval extended keeps its start and its price.
LEMMA ExtendedIs ==
  ASSUME NEW r \in PriceInterval, NEW at \in Nat, NEW more \in Nat
  PROVE  /\ Extended(r, at, more) \in PriceInterval
         /\ Extended(r, at, more).at = r.at /\ Extended(r, at, more).price = r.price
         /\ Extended(r, at, more).polls = r.polls + more
         /\ Extended(r, at, more).until = Later(r.until, at)
         /\ Extended(r, at, more).until \in Nat
         /\ r.until <= Extended(r, at, more).until /\ at <= Extended(r, at, more).until
  <1> DEFINE until == Later(r.until, at)
             polls == r.polls + more
  <1>1. r.until \in Nat /\ r.polls \in Nat \ {0}
    BY DEF PriceInterval
  <1>2. until \in Nat /\ polls \in Nat \ {0} /\ r.until <= until /\ at <= until
    BY <1>1 DEF Later
  <1>3. Extended(r, at, more) = [r EXCEPT !.until = until, !.polls = polls]
    BY DEF Extended
  <1> HIDE DEF until, polls
  <1>4. /\ Extended(r, at, more) \in PriceInterval
        /\ Extended(r, at, more).at = r.at /\ Extended(r, at, more).price = r.price
        /\ Extended(r, at, more).polls = polls /\ Extended(r, at, more).until = until
    BY <1>2, <1>3, Zenon DEF PriceInterval
  <1> QED
    BY <1>2, <1>4 DEF until, polls

-----------------------------------------------------------------------------
(* Taking an interval out. *)

\* The interval at p stands in for the one taken out at `at`, and for the one at
\* n when they have one price.
Stretched(ps, at, p) ==
  [a \in DOMAIN ps \ {at} |-> IF a = p THEN Extended(ps[p], ps[at].until, 0) ELSE ps[a]]

Merged(ps, at, p, n) ==
  [a \in DOMAIN ps \ {at, n} |->
     IF a = p THEN Extended(ps[p], ps[n].until, ps[n].polls) ELSE ps[a]]

Before(ps, at, p) == p \in DOMAIN ps /\ p < at /\ \A b \in DOMAIN ps : b < at => b <= p
NextOne(ps, at, n)   == n \in DOMAIN ps /\ at < n /\ \A b \in DOMAIN ps : b > at => n <= b

\* Taking out the first interval leaves the others as they are; any other one is
\* covered by the one before.
LEMMA HealedCases ==
  ASSUME NEW top \in Nat, NEW ps, Series(ps, top), NEW at \in DOMAIN ps
  PROVE  \/ /\ \A b \in DOMAIN ps : b >= at
            /\ Healed(ps, at) = [a \in DOMAIN ps \ {at} |-> ps[a]]
         \/ \E p : Before(ps, at, p) /\ Healed(ps, at) = Stretched(ps, at, p)
         \/ \E p, n : /\ Before(ps, at, p) /\ NextOne(ps, at, n) /\ ps[n].price = ps[p].price
                      /\ Healed(ps, at) = Merged(ps, at, p, n)
  <1> DEFINE rest == [a \in DOMAIN ps \ {at} |-> ps[a]]
             prev == {a \in DOMAIN rest : a < at}
             nxt  == {a \in DOMAIN rest : a > at}
             p    == Max(prev)
             n    == Min(nxt)
             hs   == Healed(ps, at)
  <1>1. DOMAIN ps \subseteq Nat /\ at \in Nat /\ at <= top /\ DOMAIN ps \subseteq 0..top
    BY DEF Series
  <1>2. /\ DOMAIN rest = DOMAIN ps \ {at} /\ \A a \in DOMAIN rest : rest[a] = ps[a]
        /\ rest = [a \in DOMAIN ps \ {at} |-> ps[a]]
    OBVIOUS
  <1>3. hs = IF prev = {} THEN rest
             ELSE IF nxt # {} /\ rest[n].price = rest[p].price
             THEN [a \in DOMAIN rest \ {n} |->
                     IF a = p THEN Extended(rest[p], rest[n].until, rest[n].polls) ELSE rest[a]]
             ELSE [rest EXCEPT ![p] = Extended(rest[p], ps[at].until, 0)]
    BY DEF Healed
  <1>4. prev # {} => /\ p \in DOMAIN ps /\ p # at /\ p < at
                     /\ \A b \in DOMAIN ps : b < at => b <= p
    <2>1. prev \in SUBSET (0..top)
      BY <1>1, <1>2
    <2>2. prev # {} => p \in prev /\ \A x \in prev : x <= p
      BY <2>1, BoundedMax
    <2> HIDE DEF p
    <2>3. \A b \in DOMAIN ps : b < at => b \in prev
      BY <1>1, <1>2
    <2>4. \A b \in prev : b \in DOMAIN ps /\ b # at /\ b < at
      BY <1>1, <1>2
    <2> QED
      BY <2>2, <2>3, <2>4
  <1>5. nxt # {} => /\ n \in DOMAIN ps /\ n # at /\ at < n
                    /\ \A b \in DOMAIN ps : b > at => n <= b
    <2>1. nxt \in SUBSET Nat
      BY <1>1, <1>2
    <2>2. nxt # {} => n \in nxt /\ \A x \in nxt : n <= x
      BY <2>1, LeastMin
    <2> HIDE DEF n
    <2>3. \A b \in DOMAIN ps : b > at => b \in nxt
      BY <1>1, <1>2
    <2>4. \A b \in nxt : b \in DOMAIN ps /\ b # at /\ at < b
      BY <1>1, <1>2
    <2> QED
      BY <2>2, <2>3, <2>4
  <1>6. prev = {} => \A b \in DOMAIN ps : b >= at
    BY <1>1, <1>2
  <1> HIDE DEF rest, prev, nxt, p, n, hs
  <1>7. CASE prev = {}
    BY <1>2, <1>3, <1>6, <1>7 DEF hs
  <1>8. CASE prev # {} /\ nxt # {} /\ rest[n].price = rest[p].price
    <2>1. rest[p] = ps[p] /\ rest[n] = ps[n]
      BY <1>2, <1>4, <1>5, <1>8
    <2>2. hs = Merged(ps, at, p, n)
      BY <1>2, <1>3, <1>8, <2>1 DEF Merged
    <2> QED
      BY <1>4, <1>5, <1>8, <2>1, <2>2 DEF hs, Before, NextOne
  <1>9. CASE prev # {} /\ ~(nxt # {} /\ rest[n].price = rest[p].price)
    <2>1. rest[p] = ps[p] /\ hs = [rest EXCEPT ![p] = Extended(ps[p], ps[at].until, 0)]
      BY <1>2, <1>3, <1>4, <1>9
    <2>2. hs = Stretched(ps, at, p)
      BY <1>2, <2>1 DEF Stretched
    <2> QED
      BY <1>4, <1>9, <2>2 DEF hs, Before
  <1> QED
    BY <1>7, <1>8, <1>9

\* What is left of a series when the interval at `at` is taken out: starts and
\* prices stand, ends only move up to the next start, and what was shown still
\* is, unless the interval taken out showed it.
LEMMA HealedSeries ==
  ASSUME NEW top \in Nat, NEW ps, Series(ps, top), NEW at \in DOMAIN ps
  PROVE  /\ Series(Healed(ps, at), top)
         /\ DOMAIN Healed(ps, at) \subseteq DOMAIN ps \ {at}
         /\ \A t \in Int : \A v : Shown(ps, t, v) =>
              \/ Shown(Healed(ps, at), t, v)
              \/ ps[at].at <= t /\ t <= ps[at].until /\ ps[at].price = v
  <1> DEFINE hs == Healed(ps, at)
  <1>1. /\ DOMAIN ps \subseteq Nat /\ at \in Nat /\ at <= top
        /\ \A a \in DOMAIN ps : /\ ps[a] \in PriceInterval /\ ps[a].at = a
                                /\ a <= ps[a].until /\ ps[a].until <= top /\ ps[a].until \in Nat
        /\ \A a, b \in DOMAIN ps : a < b => ps[a].until <= b
    BY DEF Series, PriceInterval
  <1>2. CASE /\ \A b \in DOMAIN ps : b >= at
             /\ hs = [a \in DOMAIN ps \ {at} |-> ps[a]]
    <2> HIDE DEF hs
    <2>1. DOMAIN hs = DOMAIN ps \ {at} /\ \A a \in DOMAIN hs : hs[a] = ps[a]
      BY <1>2
    <2>2. Series(hs, top)
      BY <1>1, <1>2, <2>1 DEF Series
    <2>3. ASSUME NEW t \in Int, NEW v, Shown(ps, t, v)
          PROVE  Shown(hs, t, v) \/ (ps[at].at <= t /\ t <= ps[at].until /\ ps[at].price = v)
      <3>1. PICK a \in DOMAIN ps : /\ a <= t /\ t <= ps[a].until /\ ps[a].price = v
                                   /\ \A b \in DOMAIN ps : b <= t => b <= a
        BY <2>3 DEF Shown
      <3> QED
        BY <1>1, <2>1, <3>1 DEF Shown
    <2> QED
      BY <2>1, <2>2, <2>3 DEF hs
  <1>3. ASSUME NEW p, Before(ps, at, p),
               \/ hs = Stretched(ps, at, p)
               \/ \E n : /\ NextOne(ps, at, n) /\ ps[n].price = ps[p].price
                         /\ hs = Merged(ps, at, p, n)
        PROVE  /\ Series(hs, top) /\ DOMAIN hs \subseteq DOMAIN ps \ {at}
               /\ \A t \in Int : \A v : Shown(ps, t, v) =>
                    \/ Shown(hs, t, v)
                    \/ ps[at].at <= t /\ t <= ps[at].until /\ ps[at].price = v
    <2> HIDE DEF hs
    <2>1. p \in DOMAIN ps /\ p < at /\ p # at /\ \A b \in DOMAIN ps : b < at => b <= p
      BY <1>1, <1>3 DEF Before
    <2>2. PICK u \in Nat, e \in PriceInterval :
            /\ e.at = p /\ e.price = ps[p].price /\ e.until = Later(ps[p].until, u)
            /\ u <= top
            /\ p \in DOMAIN hs /\ hs[p] = e /\ hs = [a \in DOMAIN hs |-> hs[a]]
            /\ DOMAIN hs \subseteq DOMAIN ps \ {at}
            /\ \A a \in DOMAIN hs : a # p => hs[a] = ps[a]
            /\ \A b \in DOMAIN hs : p < b => u <= b
            /\ \A a \in DOMAIN ps \ {at} : a \notin DOMAIN hs =>
                 /\ ps[a].price = ps[p].price /\ p < a /\ ps[a].until <= u
                 /\ \A b \in DOMAIN hs : b <= a => b <= p
      <3>1. CASE \E n : /\ NextOne(ps, at, n) /\ ps[n].price = ps[p].price
                        /\ hs = Merged(ps, at, p, n)
        <4>1. PICK n \in DOMAIN ps : /\ at < n /\ \A b \in DOMAIN ps : b > at => n <= b
                                     /\ ps[n].price = ps[p].price /\ hs = Merged(ps, at, p, n)
          BY <3>1 DEF NextOne
        <4> DEFINE r  == ps[p]
                   to == ps[n].until
                   k  == ps[n].polls
                   e  == Extended(r, to, k)
        <4>2. r \in PriceInterval /\ to \in Nat /\ k \in Nat
          BY <1>1, <2>1 DEF PriceInterval
        <4>3. /\ e \in PriceInterval /\ e.at = r.at /\ e.price = r.price
              /\ e.until = Later(r.until, to) /\ r.at = p
          <5>1. r.at = p
            BY <1>1, <2>1
          <5> HIDE DEF r, to, k
          <5> QED
            BY <4>2, <5>1, ExtendedIs
        <4>4. hs = [a \in DOMAIN ps \ {at, n} |-> IF a = p THEN e ELSE ps[a]]
          BY <4>1 DEF Merged
        <4> HIDE DEF e
        <4>5. p # n /\ p < n /\ ps[n].until <= top
          BY <1>1, <2>1, <4>1
        <4>6. /\ DOMAIN hs = DOMAIN ps \ {at, n} /\ hs = [a \in DOMAIN hs |-> hs[a]]
              /\ p \in DOMAIN hs /\ hs[p] = e /\ \A a \in DOMAIN hs : a # p => hs[a] = ps[a]
          BY <2>1, <4>4, <4>5
        <4>7. \A b \in DOMAIN hs : p < b => ps[n].until <= b
          <5> SUFFICES ASSUME NEW b \in DOMAIN hs, p < b PROVE ps[n].until <= b
            OBVIOUS
          <5>1. b \in DOMAIN ps /\ b # at /\ b # n
            BY <4>6
          <5>2. n < b
            BY <1>1, <2>1, <4>1, <5>1
          <5> QED
            BY <1>1, <5>1, <5>2
        <4>8. \A b \in DOMAIN hs : b <= n => b <= p
          <5> SUFFICES ASSUME NEW b \in DOMAIN hs, b <= n PROVE b <= p
            OBVIOUS
          <5>1. b \in DOMAIN ps /\ b # at /\ b # n
            BY <4>6
          <5> QED
            BY <1>1, <2>1, <4>1, <5>1
        <4>9. \A a \in DOMAIN ps \ {at} : a \notin DOMAIN hs => a = n
          BY <4>6
        <4> QED
          BY <4>1, <4>2, <4>3, <4>5, <4>6, <4>7, <4>8, <4>9
      <3>2. CASE hs = Stretched(ps, at, p)
        <4> DEFINE r  == ps[p]
                   to == ps[at].until
                   e  == Extended(r, to, 0)
        <4>1. r \in PriceInterval /\ to \in Nat /\ 0 \in Nat
          BY <1>1, <2>1
        <4>2. /\ e \in PriceInterval /\ e.at = r.at /\ e.price = r.price
              /\ e.until = Later(r.until, to) /\ r.at = p
          <5>1. r.at = p
            BY <1>1, <2>1
          <5> HIDE DEF r, to
          <5> QED
            BY <4>1, <5>1, ExtendedIs
        <4>3. hs = [a \in DOMAIN ps \ {at} |-> IF a = p THEN e ELSE ps[a]]
          BY <3>2 DEF Stretched
        <4> HIDE DEF e
        <4>4. /\ DOMAIN hs = DOMAIN ps \ {at} /\ hs = [a \in DOMAIN hs |-> hs[a]]
              /\ p \in DOMAIN hs /\ hs[p] = e /\ \A a \in DOMAIN hs : a # p => hs[a] = ps[a]
          BY <2>1, <4>3
        <4>5. \A b \in DOMAIN hs : p < b => ps[at].until <= b
          <5> SUFFICES ASSUME NEW b \in DOMAIN hs, p < b PROVE ps[at].until <= b
            OBVIOUS
          <5>1. b \in DOMAIN ps /\ b # at
            BY <4>4
          <5>2. at < b
            BY <1>1, <2>1, <5>1
          <5> QED
            BY <1>1, <5>1, <5>2
        <4> QED
          BY <1>1, <4>1, <4>2, <4>4, <4>5
      <3> QED
        BY <1>3, <3>1, <3>2
    <2>3. /\ e.until \in Nat /\ e.until <= top /\ p <= e.until /\ ps[p].until <= e.until
          /\ u <= e.until /\ (e.until = ps[p].until \/ e.until = u)
      BY <1>1, <2>2 DEF Later
    <2>4. Series(hs, top)
      <3>1. ASSUME NEW a \in DOMAIN hs, NEW b \in DOMAIN hs, a < b PROVE hs[a].until <= b
        <4>1. a \in DOMAIN ps /\ b \in DOMAIN ps
          BY <2>2
        <4>2. CASE a # p
          BY <1>1, <2>2, <3>1, <4>1, <4>2
        <4>3. CASE a = p
          BY <1>1, <2>2, <2>3, <3>1, <4>1, <4>3
        <4> QED
          BY <4>2, <4>3
      <3>2. ASSUME NEW a \in DOMAIN hs
            PROVE  /\ hs[a] \in PriceInterval /\ hs[a].at = a
                   /\ a <= hs[a].until /\ hs[a].until <= top
        BY <1>1, <2>2, <2>3
      <3>3. DOMAIN hs \subseteq 0..top
        BY <2>2 DEF Series
      <3> QED
        BY <2>2, <3>1, <3>2, <3>3 DEF Series
    <2>5. ASSUME NEW t \in Int, NEW v, Shown(ps, t, v)
          PROVE  Shown(hs, t, v) \/ (ps[at].at <= t /\ t <= ps[at].until /\ ps[at].price = v)
      <3>1. PICK a \in DOMAIN ps : /\ a <= t /\ t <= ps[a].until /\ ps[a].price = v
                                   /\ \A b \in DOMAIN ps : b <= t => b <= a
        BY <2>5 DEF Shown
      <3>2. CASE a = at
        BY <1>1, <3>1, <3>2
      <3>3. CASE a # at /\ a \notin DOMAIN hs
        <4>1. /\ ps[a].price = ps[p].price /\ p < a /\ ps[a].until <= u
              /\ \A b \in DOMAIN hs : b <= a => b <= p
          BY <2>2, <3>3
        <4>2. p <= t /\ t <= hs[p].until /\ hs[p].price = v /\ p \in DOMAIN hs
          <5>1. t <= u
            BY <1>1, <3>1, <4>1
          <5> QED
            BY <1>1, <2>1, <2>2, <2>3, <3>1, <4>1, <5>1
        <4>3. \A b \in DOMAIN hs : b <= t => b <= p
          BY <2>2, <3>1, <4>1
        <4> QED
          BY <4>2, <4>3 DEF Shown
      <3>4. CASE a \in DOMAIN hs
        <4>1. t <= hs[a].until /\ hs[a].price = v
          BY <1>1, <2>2, <2>3, <3>1, <3>4
        <4>2. \A b \in DOMAIN hs : b <= t => b <= a
          BY <2>2, <3>1
        <4> QED
          BY <3>1, <3>4, <4>1, <4>2 DEF Shown
      <3> QED
        BY <3>2, <3>3, <3>4
    <2> QED
      BY <2>2, <2>4, <2>5
  <1>4. \/ /\ \A b \in DOMAIN ps : b >= at
           /\ hs = [a \in DOMAIN ps \ {at} |-> ps[a]]
        \/ \E p : Before(ps, at, p) /\ hs = Stretched(ps, at, p)
        \/ \E p, n : /\ Before(ps, at, p) /\ NextOne(ps, at, n) /\ ps[n].price = ps[p].price
                     /\ hs = Merged(ps, at, p, n)
    BY HealedCases
  <1> QED
    BY <1>2, <1>3, <1>4 DEF hs

-----------------------------------------------------------------------------
(* Counting the readings. *)

\* The readings that the intervals in S stand for, and those of the intervals
\* from a on.
PollsIn(ps) == [a \in DOMAIN ps |-> ps[a].polls]
CountOf(ps, S) == Added(PollsIn(ps), S)
From(ps, a) == {b \in DOMAIN ps : b >= a}

\* The last interval ends at e.
EndsAt(ps, e) == \E l \in DOMAIN ps : (\A b \in DOMAIN ps : b <= l) /\ ps[l].until = e

\* From every start to e there is a minute for each reading, but for k of them.
Fits(ps, e, k) ==
  \A a \in DOMAIN ps : Minute * (CountOf(ps, From(ps, a)) - 1 - k) <= e - a

LEMMA CountSteps ==
  ASSUME NEW top \in Nat, NEW ps, Series(ps, top), NEW S \in SUBSET DOMAIN ps
  PROVE  /\ CountOf(ps, S) \in Int /\ (S = {} => CountOf(ps, S) = 0)
         /\ \A x \in S : /\ CountOf(ps, S) = ps[x].polls + CountOf(ps, S \ {x})
                         /\ ps[x].polls \in Nat \ {0} /\ CountOf(ps, S \ {x}) \in Int
  <1> DEFINE w == PollsIn(ps)
  <1>1. IsFiniteSet(S)
    <2>1. IsFiniteSet(0..top)
      BY FS_Interval
    <2>2. S \in SUBSET (0..top)
      BY DEF Series
    <2> QED
      BY <2>1, <2>2, FS_Subset
  <1>2. \A x \in S : w[x] = ps[x].polls /\ ps[x].polls \in Nat \ {0} /\ w[x] \in Int
    BY DEF PollsIn, Series, PriceInterval
  <1>3. \A x \in S : w[x] \in Int /\ S \ {x} \in SUBSET S
    BY <1>2
  <1> HIDE DEF w
  <1>4. /\ Added(w, S) \in Int /\ (S = {} => Added(w, S) = 0)
        /\ \A x \in S : Added(w, S) = w[x] + Added(w, S \ {x})
        /\ \A T \in SUBSET S : Added(w, T) \in Int
    BY <1>1, <1>3, AddedSteps
  <1>5. \A T : CountOf(ps, T) = Added(w, T)
    BY DEF CountOf, w
  <1> QED
    BY <1>2, <1>3, <1>4, <1>5

LEMMA CountAlike ==
  ASSUME NEW top \in Nat, NEW ps, Series(ps, top), NEW qs,
         NEW S \in SUBSET DOMAIN ps, S \subseteq DOMAIN qs,
         \A x \in S : qs[x].polls = ps[x].polls
  PROVE  CountOf(qs, S) = CountOf(ps, S)
  <1>1. IsFiniteSet(S)
    <2>1. IsFiniteSet(0..top)
      BY FS_Interval
    <2>2. S \in SUBSET (0..top)
      BY DEF Series
    <2> QED
      BY <2>1, <2>2, FS_Subset
  <1>2. \A x \in S : PollsIn(qs)[x] \in Int /\ PollsIn(qs)[x] = PollsIn(ps)[x]
    BY DEF PollsIn, Series, PriceInterval
  <1> QED
    BY <1>1, <1>2, AddedSame DEF CountOf

\* Taking an interval out counts its readings no more, and keeps the end.
LEMMA HealedCounts ==
  ASSUME NEW top \in Nat, NEW ps, Series(ps, top), NEW at \in DOMAIN ps,
         NEW e \in Int, NEW k \in Int, EndsAt(ps, e), Fits(ps, e, k),
         DOMAIN Healed(ps, at) # {}
  PROVE  EndsAt(Healed(ps, at), e) /\ Fits(Healed(ps, at), e, k)
  <1> DEFINE hs == Healed(ps, at)
  <1>1. /\ DOMAIN ps \subseteq Nat /\ at \in Nat
        /\ \A a \in DOMAIN ps : /\ ps[a] \in PriceInterval /\ ps[a].at = a /\ a <= ps[a].until
                                /\ ps[a].until \in Nat /\ ps[a].polls \in Nat \ {0}
        /\ \A a, b \in DOMAIN ps : a < b => ps[a].until <= b
    BY DEF Series, PriceInterval
  <1>2. PICK l \in DOMAIN ps : (\A b \in DOMAIN ps : b <= l) /\ ps[l].until = e
    BY DEF EndsAt
  <1>3. Series(hs, top)
    BY HealedSeries
  <1>4. ASSUME \A a \in DOMAIN hs : CountOf(hs, From(hs, a)) <= CountOf(ps, From(ps, a)),
               DOMAIN hs \subseteq DOMAIN ps
        PROVE  Fits(hs, e, k)
    <2> SUFFICES ASSUME NEW a \in DOMAIN hs
                 PROVE  Minute * (CountOf(hs, From(hs, a)) - 1 - k) <= e - a
      BY DEF Fits
    <2> DEFINE x == CountOf(hs, From(hs, a))
               y == CountOf(ps, From(ps, a))
    <2>1. x \in Int /\ y \in Int /\ x <= y /\ a \in Int
      BY <1>1, <1>3, <1>4, CountSteps DEF From
    <2>2. Minute * (y - 1 - k) <= e - a
      BY <1>4 DEF Fits
    <2> HIDE DEF x, y
    <2>3. Minute * (x - 1 - k) <= e - a
      BY <2>1, <2>2 DEF Minute
    <2> QED
      BY <2>3 DEF x
  <1>5. CASE /\ \A b \in DOMAIN ps : b >= at
             /\ hs = [a \in DOMAIN ps \ {at} |-> ps[a]]
    <2> HIDE DEF hs
    <2>1. DOMAIN hs = DOMAIN ps \ {at} /\ \A a \in DOMAIN hs : hs[a] = ps[a]
      BY <1>5
    <2>2. ASSUME NEW a \in DOMAIN hs
          PROVE  CountOf(hs, From(hs, a)) <= CountOf(ps, From(ps, a))
      <3>1. From(hs, a) = From(ps, a)
        BY <1>1, <1>5, <2>1 DEF From
      <3>2. From(ps, a) \in SUBSET DOMAIN ps /\ From(ps, a) \subseteq DOMAIN hs
        BY <3>1 DEF From
      <3>3. CountOf(hs, From(ps, a)) = CountOf(ps, From(ps, a))
        BY <2>1, <3>2, CountAlike
      <3> QED
        BY <3>1, <3>2, <3>3, CountSteps
    <2>3. EndsAt(hs, e)
      <3>1. l # at
        <4>1. PICK b \in DOMAIN ps : b # at
          BY <2>1 DEF hs
        <4> QED
          BY <1>1, <1>2, <1>5, <4>1
      <3> QED
        BY <1>2, <2>1, <3>1 DEF EndsAt
    <2> QED
      BY <1>4, <2>1, <2>2, <2>3 DEF hs
  <1>6. ASSUME NEW p, Before(ps, at, p), hs = Stretched(ps, at, p)
        PROVE  EndsAt(hs, e) /\ Fits(hs, e, k)
    <2> HIDE DEF hs
    <2> DEFINE r == ps[p]
               to == ps[at].until
               x == Extended(r, to, 0)
    <2>1. /\ p \in DOMAIN ps /\ p < at /\ \A b \in DOMAIN ps : b < at => b <= p
          /\ r \in PriceInterval /\ to \in Nat /\ 0 \in Nat /\ r.polls \in Nat
      BY <1>1, <1>6 DEF Before
    <2>2. hs = [a \in DOMAIN ps \ {at} |-> IF a = p THEN x ELSE ps[a]]
      BY <1>6 DEF Stretched
    <2>3. x.polls = r.polls /\ x.until = Later(r.until, to)
      <3> HIDE DEF r, to
      <3>1. x.polls = r.polls + 0 /\ x.until = Later(r.until, to)
        BY <2>1, ExtendedIs
      <3> HIDE DEF x
      <3> QED
        BY <2>1, <3>1
    <2> HIDE DEF x
    <2>4. /\ DOMAIN hs = DOMAIN ps \ {at} /\ p \in DOMAIN hs /\ hs[p] = x
          /\ \A a \in DOMAIN hs : hs[a].polls = ps[a].polls /\ (a # p => hs[a] = ps[a])
      BY <1>1, <2>1, <2>2, <2>3
    <2>5. ASSUME NEW a \in DOMAIN hs
          PROVE  CountOf(hs, From(hs, a)) <= CountOf(ps, From(ps, a))
      <3>1. From(hs, a) = From(ps, a) \ {at} /\ From(ps, a) \in SUBSET DOMAIN ps
        BY <2>4 DEF From
      <3>2. CountOf(hs, From(hs, a)) = CountOf(ps, From(ps, a) \ {at})
        <4>1. /\ From(hs, a) \in SUBSET DOMAIN ps /\ From(hs, a) \subseteq DOMAIN hs
              /\ \A y \in From(hs, a) : hs[y].polls = ps[y].polls
          BY <2>4 DEF From
        <4>2. CountOf(hs, From(hs, a)) = CountOf(ps, From(hs, a))
          BY <4>1, CountAlike
        <4> QED
          BY <3>1, <4>2
      <3>3. CASE at \in From(ps, a)
        <4>1. /\ CountOf(ps, From(ps, a)) = ps[at].polls + CountOf(ps, From(ps, a) \ {at})
              /\ ps[at].polls \in Nat \ {0} /\ CountOf(ps, From(ps, a) \ {at}) \in Int
          <5> DEFINE S == From(ps, a)
          <5>1. S \in SUBSET DOMAIN ps /\ at \in S
            BY <3>1, <3>3
          <5> HIDE DEF S
          <5>2. /\ CountOf(ps, S) = ps[at].polls + CountOf(ps, S \ {at})
                /\ ps[at].polls \in Nat \ {0} /\ CountOf(ps, S \ {at}) \in Int
            BY <5>1, CountSteps
          <5> QED
            BY <5>2 DEF S
        <4> QED
          BY <3>2, <4>1
      <3>4. CASE at \notin From(ps, a)
        <4>1. From(ps, a) \ {at} = From(ps, a)
          BY <3>4
        <4>2. CountOf(ps, From(ps, a)) \in Int
          BY <3>1, CountSteps
        <4> QED
          BY <3>2, <4>1, <4>2
      <3> QED
        BY <3>3, <3>4
    <2>6. EndsAt(hs, e)
      <3>1. CASE l = at
        <4>1. \A b \in DOMAIN hs : b <= p
          BY <1>1, <1>2, <2>1, <2>4, <3>1
        <4>2. hs[p].until = e
          <5>1. ps[p].until <= at /\ at <= ps[at].until /\ ps[at].until = e
            BY <1>1, <1>2, <2>1, <3>1
          <5>2. ps[p].until \in Int /\ ps[at].until \in Int
            BY <1>1, <2>1
          <5> QED
            BY <1>1, <2>3, <2>4, <5>1, <5>2 DEF Later
        <4> QED
          BY <2>4, <4>1, <4>2 DEF EndsAt
      <3>2. CASE l # at
        <4>1. l # p /\ l \in DOMAIN hs
          BY <1>1, <1>2, <2>1, <2>4, <3>2
        <4> QED
          BY <1>2, <2>4, <4>1 DEF EndsAt
      <3> QED
        BY <3>1, <3>2
    <2> QED
      BY <1>4, <2>4, <2>5, <2>6
  <1>7. ASSUME NEW p, NEW n, Before(ps, at, p), NextOne(ps, at, n), hs = Merged(ps, at, p, n)
        PROVE  EndsAt(hs, e) /\ Fits(hs, e, k)
    <2> HIDE DEF hs
    <2> DEFINE r == ps[p]
               to == ps[n].until
               more == ps[n].polls
               x == Extended(r, to, more)
    <2>1. /\ p \in DOMAIN ps /\ p < at /\ \A b \in DOMAIN ps : b < at => b <= p
          /\ n \in DOMAIN ps /\ at < n /\ \A b \in DOMAIN ps : b > at => n <= b
      BY <1>7 DEF Before, NextOne
    <2>2. /\ r \in PriceInterval /\ to \in Nat /\ more \in Nat /\ r.polls \in Nat
          /\ p < n /\ p # n /\ p # at /\ n # at
      BY <1>1, <2>1
    <2>3. hs = [a \in DOMAIN ps \ {at, n} |-> IF a = p THEN x ELSE ps[a]]
      BY <1>7 DEF Merged
    <2>4. x.polls = r.polls + more /\ x.until = Later(r.until, to)
      <3> HIDE DEF r, to, more
      <3> QED
        BY <2>2, ExtendedIs
    <2> HIDE DEF x
    <2>5. /\ DOMAIN hs = DOMAIN ps \ {at, n} /\ p \in DOMAIN hs /\ hs[p] = x
          /\ \A a \in DOMAIN hs : a # p => hs[a] = ps[a]
      BY <2>1, <2>2, <2>3
    <2>6. ASSUME NEW a \in DOMAIN hs
          PROVE  CountOf(hs, From(hs, a)) <= CountOf(ps, From(ps, a))
      <3> DEFINE F == From(ps, a)
                 R == ((F \ {at}) \ {n}) \ {p}
      <3>1. F \in SUBSET DOMAIN ps /\ a \in DOMAIN ps /\ a # at /\ a # n
        BY <2>5 DEF From
      <3>2. CASE a > n
        <4>1. From(hs, a) = F
          BY <1>1, <2>1, <2>2, <2>5, <3>1, <3>2 DEF From
        <4>2. F \subseteq DOMAIN hs /\ \A y \in F : hs[y].polls = ps[y].polls
          <5>1. \A y \in F : y \in DOMAIN hs /\ y # p
            BY <1>1, <2>1, <2>2, <2>5, <3>1, <3>2, <4>1 DEF From
          <5> QED
            BY <2>5, <5>1
        <4>3. CountOf(hs, F) = CountOf(ps, F)
          BY <3>1, <4>2, CountAlike
        <4> QED
          BY <3>1, <4>1, <4>3, CountSteps
      <3>3. CASE ~(a > n)
        <4>1. a <= p
          BY <1>1, <2>1, <2>2, <3>1, <3>3
        <4>2. at \in F /\ n \in F \ {at} /\ p \in (F \ {at}) \ {n}
          <5>1. p >= a /\ at >= a /\ n >= a
            BY <1>1, <2>1, <2>2, <3>1, <4>1
          <5> QED
            BY <2>1, <2>2, <5>1 DEF From
        <4>3. From(hs, a) \ {p} = R /\ p \in From(hs, a)
          BY <2>5, <4>2 DEF From
        <4> HIDE DEF F, R
        <4>4. /\ F \ {at} \in SUBSET DOMAIN ps /\ (F \ {at}) \ {n} \in SUBSET DOMAIN ps
              /\ From(hs, a) \in SUBSET DOMAIN hs
          BY <3>1 DEF From
        <4>5. /\ CountOf(ps, F) = ps[at].polls + CountOf(ps, F \ {at})
              /\ CountOf(ps, F \ {at}) = ps[n].polls + CountOf(ps, (F \ {at}) \ {n})
              /\ CountOf(ps, (F \ {at}) \ {n}) = ps[p].polls + CountOf(ps, R)
              /\ CountOf(ps, R) \in Int
          BY <3>1, <4>2, <4>4, CountSteps DEF R
        <4>6. CountOf(hs, From(hs, a)) = hs[p].polls + CountOf(hs, R)
          BY <1>3, <4>3, <4>4, CountSteps
        <4>7. CountOf(hs, R) = CountOf(ps, R)
          <5>1. R \in SUBSET DOMAIN ps /\ R \subseteq DOMAIN hs /\ p \notin R
            BY <3>1, <4>3, <4>4 DEF R
          <5>2. \A y \in R : hs[y].polls = ps[y].polls
            BY <2>5, <5>1
          <5> QED
            BY <5>1, <5>2, CountAlike
        <4>8. /\ hs[p].polls = ps[p].polls + ps[n].polls
              /\ ps[p].polls \in Nat /\ ps[n].polls \in Nat /\ ps[at].polls \in Nat
          BY <1>1, <2>1, <2>4, <2>5
        <4>9. CountOf(hs, From(hs, a)) <= CountOf(ps, F)
          BY <4>5, <4>6, <4>7, <4>8
        <4> QED
          BY <4>9 DEF F
      <3> QED
        BY <3>2, <3>3
    <2>7. EndsAt(hs, e)
      <3>1. CASE l = n
        <4>1. \A b \in DOMAIN hs : b <= p
          BY <1>1, <1>2, <2>1, <2>5, <3>1
        <4>2. hs[p].until = e
          <5>1. ps[p].until <= n /\ n <= ps[n].until /\ ps[n].until = e
            BY <1>1, <1>2, <2>1, <2>2, <3>1
          <5>2. ps[p].until \in Int /\ ps[n].until \in Int
            BY <1>1, <2>1
          <5> QED
            BY <1>1, <2>1, <2>4, <2>5, <5>1, <5>2 DEF Later
        <4> QED
          BY <2>5, <4>1, <4>2 DEF EndsAt
      <3>2. CASE l # n
        <4>1. l # p /\ l # at /\ l \in DOMAIN hs
          BY <1>1, <1>2, <2>1, <2>2, <2>5, <3>2
        <4> QED
          BY <1>2, <2>5, <4>1 DEF EndsAt
      <3> QED
        BY <3>1, <3>2
    <2> QED
      BY <1>4, <2>5, <2>6, <2>7
  <1>8. \/ /\ \A b \in DOMAIN ps : b >= at
           /\ hs = [a \in DOMAIN ps \ {at} |-> ps[a]]
        \/ \E p : Before(ps, at, p) /\ hs = Stretched(ps, at, p)
        \/ \E p, n : /\ Before(ps, at, p) /\ NextOne(ps, at, n) /\ ps[n].price = ps[p].price
                     /\ hs = Merged(ps, at, p, n)
    BY HealedCases
  <1> QED
    BY <1>5, <1>6, <1>7, <1>8 DEF hs

-----------------------------------------------------------------------------
(* The orders the steps read their rows in. *)

\* Rows put in order make a sequence, however many share a time.
LEMMA InOrderSeq ==
  ASSUME NEW S, IsFiniteSet(S)
  PROVE  InOrder(S) \in Seq(S)
  <1> DEFINE Key(r) == 2 * r.at + (IF r.rejected THEN 1 ELSE 0)
             Cut(r, q) == Cardinality({i \in DOMAIN q : Key(q[i]) < Key(r)})
             Insert(r, q) == SubSeq(q, 1, Cut(r, q)) \o <<r>> \o SubSeq(q, Cut(r, q) + 1, Len(q))
             one(s) == CHOOSE x \in s : TRUE
             Step(s, g) == IF s = {} THEN <<>> ELSE Insert(one(s), g[s \ {one(s)}])
  <1>1. InOrder(S) = (CHOOSE g : g = [s \in SUBSET S |-> Step(s, g)])[S]
    BY DEF InOrder, Ordered, FoldSet, MapThenFoldSet
  <1>2. \A r \in S, q \in Seq(S) : Insert(r, q) \in Seq(S)
    <2> SUFFICES ASSUME NEW r \in S, NEW q \in Seq(S) PROVE Insert(r, q) \in Seq(S)
      OBVIOUS
    <2> DEFINE below == {i \in DOMAIN q : Key(q[i]) < Key(r)}
               k == Cardinality(below)
    <2>1. k \in 0..Len(q)
      <3>1. below \in SUBSET (1..Len(q))
        OBVIOUS
      <3>2. IsFiniteSet(1..Len(q)) /\ Cardinality(1..Len(q)) = Len(q)
        <4>1. Len(q) \in Nat /\ Len(q) \in Int /\ 1 \in Int
          OBVIOUS
        <4>2. /\ IsFiniteSet(1..Len(q))
              /\ Cardinality(1..Len(q)) = IF 1 > Len(q) THEN 0 ELSE Len(q) - 1 + 1
          BY <4>1, FS_Interval, Zenon
        <4> QED
          BY <4>1, <4>2
      <3> HIDE DEF below
      <3>3. IsFiniteSet(below) /\ Cardinality(below) <= Cardinality(1..Len(q))
        BY <3>1, <3>2, FS_Subset
      <3>4. Cardinality(below) \in Nat
        BY <3>3, FS_CardinalityType
      <3> QED
        BY <3>2, <3>3, <3>4
    <2>2. Insert(r, q) = SubSeq(q, 1, k) \o <<r>> \o SubSeq(q, k + 1, Len(q))
      OBVIOUS
    <2> HIDE DEF k, Insert
    <2>3. SubSeq(q, 1, k) \in Seq(S) /\ SubSeq(q, k + 1, Len(q)) \in Seq(S) /\ <<r>> \in Seq(S)
      BY <2>1
    <2> QED
      BY <2>2, <2>3
  <1> HIDE DEF Insert
  <1>3. \E g : g = [s \in SUBSET S |-> Step(s, g)]
    <2> DEFINE op == [p \in S \X Seq(S) |-> Insert(p[1], p[2])]
    <2>1. op \in [S \X Seq(S) -> Seq(S)] /\ <<>> \in Seq(S)
      BY <1>2
    <2>2. \A r \in S, q \in Seq(S) : op[<<r, q>>] = Insert(r, q)
      OBVIOUS
    <2> HIDE DEF op
    <2>3. PICK g \in [SUBSET S -> Seq(S)] : \A s \in SUBSET S : FoldsAt(S, <<>>, op, g, s)
      BY <2>1, FoldExists
    <2>4. \A s \in SUBSET S : g[s] = Step(s, g)
      <3> SUFFICES ASSUME NEW s \in SUBSET S PROVE g[s] = Step(s, g)
        OBVIOUS
      <3>1. s # {} => one(s) \in S /\ g[s \ {one(s)}] \in Seq(S)
        <4>1. s # {} => one(s) \in s
          OBVIOUS
        <4> HIDE DEF one
        <4> QED
          BY <4>1
      <3>2. g[s] = IF s = {} THEN <<>> ELSE op[<<one(s), g[s \ {one(s)}]>>]
        BY <2>3 DEF FoldsAt
      <3> HIDE DEF one
      <3> QED
        BY <2>2, <3>1, <3>2
    <2> HIDE DEF Step
    <2> QED
      BY <2>4
  <1>4. PICK g : g = [s \in SUBSET S |-> Step(s, g)] /\ InOrder(S) = g[S]
    <2> HIDE DEF Step
    <2> QED
      BY <1>1, <1>3
  <1>5. \A s \in SUBSET S : g[s] \in Seq(S)
    <2>1. \A s \in SUBSET S : g[s] = Step(s, g)
      <3> HIDE DEF Step
      <3> QED
        BY <1>4
    <2>2. g[{}] \in Seq(S)
      <3>1. g[{}] = <<>>
        BY <2>1
      <3> QED
        BY <3>1
    <2>3. \A s \in SUBSET S : s # {} => \E x \in s : g[s \ {x}] \in Seq(S) => g[s] \in Seq(S)
      <3> SUFFICES ASSUME NEW s \in SUBSET S, s # {}
                   PROVE  \E x \in s : g[s \ {x}] \in Seq(S) => g[s] \in Seq(S)
        OBVIOUS
      <3>1. one(s) \in s /\ g[s] = Insert(one(s), g[s \ {one(s)}])
        BY <2>1
      <3> HIDE DEF one
      <3> QED
        BY <1>2, <3>1
    <2> QED
      BY <2>2, <2>3, FoldStays
  <1> QED
    BY <1>4, <1>5

\* Finitely many intervals hold finitely many echoes.
LEMMA EchoesFinite ==
  ASSUME NEW since, IsFiniteSet(DOMAIN points), IsFiniteSet(DOMAIN rejects)
  PROVE  IsFiniteSet(EchoesIn(CheckRows(since)))
  <1> DEFINE S == CheckRows(since)
             RowOf(r, flag) == [at |-> r.at, until |-> r.until, price |-> r.price, rejected |-> flag]
  <1>1. IsFiniteSet(S)
    <2> DEFINE kept == {x \in Range(points) : x.until >= since}
               gone == {x \in Range(rejects) : x.until >= since}
               f == [r \in kept |-> RowOf(r, FALSE)]
               g == [r \in gone |-> RowOf(r, TRUE)]
    <2>1. IsFiniteSet(Range(points)) /\ IsFiniteSet(Range(rejects))
      BY RangeFinite DEF Range
    <2>2. IsFiniteSet(kept) /\ IsFiniteSet(gone)
      BY <2>1, FS_Subset
    <2>3. DOMAIN f = kept /\ DOMAIN g = gone
      OBVIOUS
    <2>4. S = {f[x] : x \in DOMAIN f} \cup {g[x] : x \in DOMAIN g}
      <3>1. S = {RowOf(r, FALSE) : r \in kept} \cup {RowOf(r, TRUE) : r \in gone}
        BY DEF CheckRows
      <3> HIDE DEF kept, gone, RowOf, S
      <3> QED
        BY <3>1
    <2> HIDE DEF f, g, kept, gone, S
    <2> QED
      BY <2>2, <2>3, <2>4, RangeFinite, FS_Union
  <1> HIDE DEF S
  <1> DEFINE kept == {r \in S : ~r.rejected}
             Over(j) == {r \in kept : r.at < j.at /\ \A x \in kept : x.at < j.at => x.at <= r.at}
             Again(r, j) == [r EXCEPT !.at = j.until + 1, !.rejected = TRUE]
             Copies(j) == {Again(r, j) : r \in {x \in Over(j) : x.until >= j.until}}
             more == UNION {Copies(j) : j \in S \ kept}
  <1>2. IsFiniteSet(S \cup more)
    <2>1. ASSUME NEW j \in S PROVE IsFiniteSet(Copies(j))
      <3> DEFINE over == {x \in Over(j) : x.until >= j.until}
                 f == [r \in over |-> Again(r, j)]
      <3>1. over \in SUBSET S
        OBVIOUS
      <3>2. DOMAIN f = over /\ Copies(j) = {f[x] : x \in DOMAIN f}
        <4> HIDE DEF Again
        <4> QED
          OBVIOUS
      <3> HIDE DEF over, f, Copies
      <3> QED
        BY <1>1, <3>1, <3>2, FS_Subset, RangeFinite
    <2> HIDE DEF Copies
    <2>2. IsFiniteSet({Copies(j) : j \in S \ kept})
      <3> DEFINE f == [j \in S \ kept |-> Copies(j)]
      <3>1. DOMAIN f = S \ kept /\ {Copies(j) : j \in S \ kept} = {f[x] : x \in DOMAIN f}
        OBVIOUS
      <3>2. IsFiniteSet(S \ kept)
        BY <1>1, FS_Subset
      <3> HIDE DEF f
      <3> QED
        BY <3>1, <3>2, RangeFinite
    <2>3. \A T \in {Copies(j) : j \in S \ kept} : IsFiniteSet(T)
      BY <2>1
    <2>4. IsFiniteSet(more)
      BY <2>2, <2>3, FS_UNION
    <2> HIDE DEF more
    <2> QED
      BY <1>1, <2>4, FS_Union
  <1> DEFINE rows == EchoSequence(S)
             frozen == {k \in FrozenRows(rows) : ~rows[k].rejected}
             f == [i \in frozen |-> rows[i].at]
  <1>3. rows \in Seq(S \cup more)
    <2>1. rows = InOrder(S \cup more)
      BY DEF EchoSequence
    <2> HIDE DEF rows, more
    <2> QED
      BY <1>2, <2>1, InOrderSeq
  <1> HIDE DEF rows, more
  <1>4. IsFiniteSet(frozen)
    <2>1. frozen \in SUBSET (1..Len(rows))
      BY DEF FrozenRows
    <2>2. IsFiniteSet(1..Len(rows))
      <3>1. Len(rows) \in Int /\ 1 \in Int
        BY <1>3
      <3> QED
        BY <3>1, FS_Interval
    <2> HIDE DEF frozen
    <2> QED
      BY <2>1, <2>2, FS_Subset
  <1>5. EchoesIn(S) = {f[x] : x \in DOMAIN f} /\ DOMAIN f = frozen
    BY DEF EchoesIn, rows
  <1> HIDE DEF f, frozen
  <1> QED
    BY <1>4, <1>5, RangeFinite DEF S

-----------------------------------------------------------------------------
(* What stays where it was. *)

\* The intervals before `at` stand, and reach up to it where there are any; what
\* an interval reached is reached by one as early, or lies before all that is left.
StandsBefore(ps, hs, at) ==
  /\ \A a \in DOMAIN ps : a < at =>
       a \in DOMAIN hs /\ hs[a].price = ps[a].price /\ ps[a].until <= hs[a].until
  /\ (\E a \in DOMAIN hs : a < at) => \E a \in DOMAIN hs : a < at /\ at <= hs[a].until

ReachesAsFar(ps, hs) ==
  \A a \in DOMAIN ps : \/ \E b \in DOMAIN hs : b <= a /\ ps[a].until <= hs[b].until
                       \/ \A b \in DOMAIN hs : ps[a].until <= b

\* Taking out an interval leaves no hole behind it.
LEMMA HealedStands ==
  ASSUME NEW top \in Nat, NEW ps, Series(ps, top), NEW at \in DOMAIN ps
  PROVE  StandsBefore(ps, Healed(ps, at), at) /\ ReachesAsFar(ps, Healed(ps, at))
  <1> DEFINE hs == Healed(ps, at)
  <1>1. /\ DOMAIN ps \subseteq Nat /\ at \in Nat
        /\ \A a \in DOMAIN ps : /\ ps[a] \in PriceInterval /\ ps[a].at = a
                                /\ a <= ps[a].until /\ ps[a].until \in Nat
                                /\ ps[a].polls \in Nat
        /\ \A a, b \in DOMAIN ps : a < b => ps[a].until <= b
    BY DEF Series, PriceInterval
  <1>2. CASE /\ \A b \in DOMAIN ps : b >= at
             /\ hs = [a \in DOMAIN ps \ {at} |-> ps[a]]
    <2> HIDE DEF hs
    <2>1. DOMAIN hs = DOMAIN ps \ {at} /\ \A a \in DOMAIN hs : hs[a] = ps[a]
      BY <1>2
    <2>2. \A a \in DOMAIN ps : ~(a < at)
      BY <1>1, <1>2
    <2>3. StandsBefore(ps, hs, at)
      BY <2>1, <2>2 DEF StandsBefore
    <2>4. ASSUME NEW a \in DOMAIN ps
          PROVE  \/ \E b \in DOMAIN hs : b <= a /\ ps[a].until <= hs[b].until
                 \/ \A b \in DOMAIN hs : ps[a].until <= b
      <3>1. CASE a = at
        <4>1. \A b \in DOMAIN hs : at < b
          BY <1>1, <1>2, <2>1
        <4> QED
          BY <1>1, <2>1, <3>1, <4>1
      <3>2. CASE a # at
        BY <1>1, <2>1, <3>2
      <3> QED
        BY <3>1, <3>2
    <2> QED
      BY <2>3, <2>4 DEF ReachesAsFar, hs
  <1>3. ASSUME NEW p, Before(ps, at, p),
               \/ hs = Stretched(ps, at, p)
               \/ \E n : NextOne(ps, at, n) /\ hs = Merged(ps, at, p, n)
        PROVE  StandsBefore(ps, hs, at) /\ ReachesAsFar(ps, hs)
    <2> HIDE DEF hs
    <2>1. p \in DOMAIN ps /\ p < at /\ p # at /\ \A b \in DOMAIN ps : b < at => b <= p
      BY <1>1, <1>3 DEF Before
    <2>2. PICK u \in Nat, e \in PriceInterval :
            /\ e.price = ps[p].price /\ e.until \in Nat
            /\ ps[p].until <= e.until /\ u <= e.until /\ ps[at].until <= u
            /\ p \in DOMAIN hs /\ hs[p] = e
            /\ \A a \in DOMAIN hs : a # p => hs[a] = ps[a]
            /\ \A a \in DOMAIN ps : a < at => a \in DOMAIN hs
            /\ \A a \in DOMAIN ps : a \notin DOMAIN hs => p < a /\ ps[a].until <= u
      <3>1. CASE \E n : NextOne(ps, at, n) /\ hs = Merged(ps, at, p, n)
        <4>1. PICK n \in DOMAIN ps : at < n /\ hs = Merged(ps, at, p, n)
          BY <3>1 DEF NextOne
        <4> DEFINE r  == ps[p]
                   to == ps[n].until
                   k  == ps[n].polls
                   e  == Extended(r, to, k)
        <4>2. r \in PriceInterval /\ to \in Nat /\ k \in Nat
          BY <1>1, <2>1
        <4>3. /\ e \in PriceInterval /\ e.price = r.price /\ e.until \in Nat
              /\ r.until <= e.until /\ to <= e.until
          <5> HIDE DEF r, to, k
          <5> QED
            BY <4>2, ExtendedIs
        <4>4. hs = [a \in DOMAIN ps \ {at, n} |-> IF a = p THEN e ELSE ps[a]]
          BY <4>1 DEF Merged
        <4> HIDE DEF e
        <4>5. p # n /\ p < n /\ ~(n < at) /\ ps[at].until <= to
          <5>1. ps[at].until <= n /\ n <= ps[n].until
            BY <1>1, <4>1
          <5> QED
            BY <1>1, <2>1, <4>1, <5>1
        <4>6. /\ DOMAIN hs = DOMAIN ps \ {at, n}
              /\ p \in DOMAIN hs /\ hs[p] = e /\ \A a \in DOMAIN hs : a # p => hs[a] = ps[a]
          BY <2>1, <4>4, <4>5
        <4>7. \A a \in DOMAIN ps : a \notin DOMAIN hs => p < a /\ ps[a].until <= to
          BY <1>1, <2>1, <4>2, <4>5, <4>6
        <4>8. \A a \in DOMAIN ps : a < at => a \in DOMAIN hs
          BY <1>1, <4>1, <4>5, <4>6
        <4> QED
          BY <4>2, <4>3, <4>5, <4>6, <4>7, <4>8
      <3>2. CASE hs = Stretched(ps, at, p)
        <4> DEFINE r  == ps[p]
                   to == ps[at].until
                   e  == Extended(r, to, 0)
        <4>1. r \in PriceInterval /\ to \in Nat /\ 0 \in Nat
          BY <1>1, <2>1
        <4>2. /\ e \in PriceInterval /\ e.price = r.price /\ e.until \in Nat
              /\ r.until <= e.until /\ to <= e.until
          <5> HIDE DEF r, to
          <5> QED
            BY <4>1, ExtendedIs
        <4>3. hs = [a \in DOMAIN ps \ {at} |-> IF a = p THEN e ELSE ps[a]]
          BY <3>2 DEF Stretched
        <4> HIDE DEF e
        <4>4. /\ DOMAIN hs = DOMAIN ps \ {at}
              /\ p \in DOMAIN hs /\ hs[p] = e /\ \A a \in DOMAIN hs : a # p => hs[a] = ps[a]
          BY <2>1, <4>3
        <4> QED
          BY <1>1, <2>1, <4>1, <4>2, <4>4
      <3> QED
        BY <1>3, <3>1, <3>2
    <2>3. StandsBefore(ps, hs, at)
      <3>1. \A a \in DOMAIN ps : a < at =>
              a \in DOMAIN hs /\ hs[a].price = ps[a].price /\ ps[a].until <= hs[a].until
        <4> SUFFICES ASSUME NEW a \in DOMAIN ps, a < at
                     PROVE  a \in DOMAIN hs /\ hs[a].price = ps[a].price /\ ps[a].until <= hs[a].until
          OBVIOUS
        <4>1. CASE a = p
          BY <2>2, <4>1
        <4>2. CASE a # p
          BY <1>1, <2>2, <4>2
        <4> QED
          BY <4>1, <4>2
      <3>2. at <= hs[p].until
        BY <1>1, <2>2
      <3> QED
        BY <2>1, <2>2, <3>1, <3>2 DEF StandsBefore
    <2>4. ASSUME NEW a \in DOMAIN ps
          PROVE  \E b \in DOMAIN hs : b <= a /\ ps[a].until <= hs[b].until
      <3>1. CASE a \notin DOMAIN hs
        <4>1. p <= a /\ ps[a].until <= hs[p].until
          BY <1>1, <2>1, <2>2, <3>1
        <4> QED
          BY <2>2, <4>1
      <3>2. CASE a \in DOMAIN hs
        <4>1. a <= a /\ ps[a].until <= hs[a].until
          BY <1>1, <2>2, <3>2
        <4> QED
          BY <3>2, <4>1
      <3> QED
        BY <3>1, <3>2
    <2> QED
      BY <2>3, <2>4 DEF ReachesAsFar
  <1>4. \/ /\ \A b \in DOMAIN ps : b >= at
           /\ hs = [a \in DOMAIN ps \ {at} |-> ps[a]]
        \/ \E p : Before(ps, at, p) /\ hs = Stretched(ps, at, p)
        \/ \E p, n : /\ Before(ps, at, p) /\ NextOne(ps, at, n) /\ ps[n].price = ps[p].price
                     /\ hs = Merged(ps, at, p, n)
    BY HealedCases
  <1> QED
    BY <1>2, <1>3, <1>4 DEF hs

-----------------------------------------------------------------------------
(* Setting intervals aside. *)

\* One interval of reject_prices: skipped, or taken out and kept apart.
Struck(s, a) ==
  IF a \notin DOMAIN s.points THEN s
  ELSE [points |-> Healed(s.points, a), moved |-> Put(s.moved, a, s.points[a])]

\* What is set aside of a series is out of it, whatever was shown is shown or
\* set aside, and the readings left still fit.
SetAside(s) ==
  /\ Series(s.points, now)
  /\ DOMAIN s.points \subseteq DOMAIN points /\ DOMAIN s.moved \subseteq DOMAIN points
  /\ \A a \in DOMAIN s.moved : a \notin DOMAIN s.points
  /\ \A t \in Int : \A v : Shown(points, t, v) =>
       \/ Shown(s.points, t, v)
       \/ \E a \in DOMAIN s.moved : /\ s.moved[a].at <= t /\ t <= s.moved[a].until
                                    /\ s.moved[a].price = v
  /\ \A e, k \in Int :
       EndsAt(points, e) /\ Fits(points, e, k) /\ DOMAIN s.points # {} =>
         EndsAt(s.points, e) /\ Fits(s.points, e, k)

LEMMA StruckIs ==
  ASSUME NEW s, NEW a, now \in Nat, SetAside(s)
  PROVE  SetAside(Struck(s, a))
  <1>1. CASE a \notin DOMAIN s.points
    <2>1. Struck(s, a) = s
      BY <1>1 DEF Struck
    <2> QED
      BY <2>1
  <1>2. CASE a \in DOMAIN s.points
    <2> DEFINE ps == s.points
               hs == Healed(ps, a)
               moved == Put(s.moved, a, ps[a])
               n == Struck(s, a)
    <2>1. n = [points |-> hs, moved |-> moved]
      BY <1>2 DEF Struck
    <2>2. n.points = hs /\ n.moved = moved
      BY <2>1
    <2>3. /\ Series(hs, now) /\ DOMAIN hs \subseteq DOMAIN ps \ {a}
          /\ \A t \in Int : \A v : Shown(ps, t, v) =>
               \/ Shown(hs, t, v)
               \/ ps[a].at <= t /\ t <= ps[a].until /\ ps[a].price = v
      <3>1. Series(ps, now) /\ a \in DOMAIN ps
        BY <1>2 DEF SetAside
      <3> HIDE DEF ps, hs
      <3> QED
        BY <3>1, HealedSeries DEF hs
    <2>4. \A e, k \in Int : EndsAt(ps, e) /\ Fits(ps, e, k) /\ DOMAIN hs # {} =>
                              EndsAt(hs, e) /\ Fits(hs, e, k)
      <3>1. Series(ps, now) /\ a \in DOMAIN ps
        BY <1>2 DEF SetAside
      <3> HIDE DEF ps
      <3> QED
        BY <3>1, HealedCounts
    <2>5. /\ DOMAIN moved = DOMAIN s.moved \cup {a} /\ moved[a] = ps[a]
          /\ \A b \in DOMAIN s.moved : b # a => moved[b] = s.moved[b]
      BY DEF Put
    <2>6. /\ a \in DOMAIN ps /\ DOMAIN ps \subseteq DOMAIN points
          /\ DOMAIN s.moved \subseteq DOMAIN points
          /\ \A b \in DOMAIN s.moved : b \notin DOMAIN ps
          /\ \A t \in Int : \A v : Shown(points, t, v) =>
               \/ Shown(ps, t, v)
               \/ \E b \in DOMAIN s.moved : /\ s.moved[b].at <= t /\ t <= s.moved[b].until
                                            /\ s.moved[b].price = v
          /\ \A e, k \in Int :
               EndsAt(points, e) /\ Fits(points, e, k) /\ DOMAIN ps # {} =>
                 EndsAt(ps, e) /\ Fits(ps, e, k)
      BY <1>2 DEF SetAside
    <2> HIDE DEF n, hs, moved, ps
    <2>7. /\ DOMAIN hs \subseteq DOMAIN points /\ DOMAIN moved \subseteq DOMAIN points
          /\ \A b \in DOMAIN moved : b \notin DOMAIN hs
      BY <2>3, <2>5, <2>6
    <2>8. ASSUME NEW t \in Int, NEW v, Shown(points, t, v), ~Shown(hs, t, v)
          PROVE  \E b \in DOMAIN moved : /\ moved[b].at <= t /\ t <= moved[b].until
                                         /\ moved[b].price = v
      <3>1. CASE Shown(ps, t, v)
        <4>1. ps[a].at <= t /\ t <= ps[a].until /\ ps[a].price = v
          BY <2>3, <2>8, <3>1
        <4> QED
          BY <2>5, <4>1
      <3>2. CASE ~Shown(ps, t, v)
        <4>1. PICK b \in DOMAIN s.moved : /\ s.moved[b].at <= t /\ t <= s.moved[b].until
                                          /\ s.moved[b].price = v
          BY <2>6, <2>8, <3>2
        <4>2. b # a /\ b \in DOMAIN moved /\ moved[b] = s.moved[b]
          BY <2>5, <2>6, <4>1
        <4> QED
          BY <4>1, <4>2
      <3> QED
        BY <3>1, <3>2
    <2>9. SetAside(n)
      <3>1. \A t \in Int : \A v : Shown(points, t, v) =>
              \/ Shown(n.points, t, v)
              \/ \E b \in DOMAIN n.moved : /\ n.moved[b].at <= t /\ t <= n.moved[b].until
                                           /\ n.moved[b].price = v
        BY <2>2, <2>8
      <3>2. \A e, k \in Int :
              EndsAt(points, e) /\ Fits(points, e, k) /\ DOMAIN n.points # {} =>
                EndsAt(n.points, e) /\ Fits(n.points, e, k)
        BY <2>2, <2>6, <2>4
      <3> QED
        BY <2>2, <2>3, <2>7, <3>1, <3>2 DEF SetAside
    <2> QED
      BY <2>9 DEF n
  <1> QED
    BY <1>1, <1>2

\* Of a series that intervals are set aside of, what lies before them stands and
\* reaches up to the first of them, and there is no hole behind any.
Steady(s) ==
  /\ IF s.moved = <<>> THEN s.points = points ELSE DOMAIN s.moved # {}
  /\ \A m \in DOMAIN s.moved :
       (\A x \in DOMAIN s.moved : m <= x) => StandsBefore(points, s.points, m)
  /\ ReachesAsFar(points, s.points)

LEMMA StruckSteady ==
  ASSUME NEW s, NEW a, now \in Nat, Series(points, now), SetAside(s), Steady(s)
  PROVE  Steady(Struck(s, a))
  <1>1. CASE a \notin DOMAIN s.points
    <2>1. Struck(s, a) = s
      BY <1>1 DEF Struck
    <2> QED
      BY <2>1
  <1>2. CASE a \in DOMAIN s.points
    <2> DEFINE ps == s.points
               hs == Healed(ps, a)
               moved == Put(s.moved, a, ps[a])
               n == Struck(s, a)
    <2>1. n = [points |-> hs, moved |-> moved]
      BY <1>2 DEF Struck
    <2>2. n.points = hs /\ n.moved = moved
      BY <2>1
    <2>3. Series(ps, now) /\ a \in DOMAIN ps
      BY <1>2 DEF SetAside
    <2>4. StandsBefore(ps, hs, a) /\ ReachesAsFar(ps, hs) /\ Series(hs, now)
          /\ DOMAIN hs \subseteq DOMAIN ps
      <3> HIDE DEF ps, hs
      <3> QED
        BY <2>3, HealedStands, HealedSeries DEF hs
    <2>5. DOMAIN moved = DOMAIN s.moved \cup {a} /\ moved # <<>>
      <3>1. DOMAIN moved = DOMAIN s.moved \cup {a}
        BY DEF Put
      <3>2. DOMAIN <<>> = {}
        OBVIOUS
      <3> HIDE DEF moved
      <3> QED
        BY <3>1, <3>2
    <2>6. /\ DOMAIN ps \subseteq DOMAIN points
          /\ DOMAIN s.moved \subseteq DOMAIN points
          /\ \A b \in DOMAIN s.moved : b \notin DOMAIN ps
          /\ IF s.moved = <<>> THEN ps = points ELSE DOMAIN s.moved # {}
          /\ \A m \in DOMAIN s.moved :
               (\A x \in DOMAIN s.moved : m <= x) => StandsBefore(points, ps, m)
          /\ ReachesAsFar(points, ps)
      BY DEF SetAside, Steady
    <2> HIDE DEF n, hs, moved, ps
    <2>7. /\ DOMAIN points \subseteq Nat /\ DOMAIN ps \subseteq Nat /\ DOMAIN hs \subseteq Nat /\ a \in Nat
          /\ \A b \in DOMAIN points : points[b].until \in Nat
          /\ \A b \in DOMAIN ps : ps[b].until \in Nat
          /\ \A b \in DOMAIN hs : hs[b].until \in Nat
      BY <2>3, <2>4 DEF Series, PriceInterval
    <2>8. ReachesAsFar(points, hs)
      <3> SUFFICES ASSUME NEW b \in DOMAIN points
                   PROVE  \/ \E x \in DOMAIN hs : x <= b /\ points[b].until <= hs[x].until
                          \/ \A x \in DOMAIN hs : points[b].until <= x
        BY DEF ReachesAsFar
      <3>1. CASE \E x \in DOMAIN ps : x <= b /\ points[b].until <= ps[x].until
        <4>1. PICK x \in DOMAIN ps : x <= b /\ points[b].until <= ps[x].until
          BY <3>1
        <4>2. CASE \E y \in DOMAIN hs : y <= x /\ ps[x].until <= hs[y].until
          BY <2>7, <4>1, <4>2
        <4>3. CASE \A y \in DOMAIN hs : ps[x].until <= y
          BY <2>7, <4>1, <4>3
        <4> QED
          BY <2>4, <4>2, <4>3 DEF ReachesAsFar
      <3>2. CASE \A x \in DOMAIN ps : points[b].until <= x
        BY <2>4, <3>2
      <3> QED
        BY <2>6, <3>1, <3>2 DEF ReachesAsFar
    <2>9. ASSUME NEW m \in DOMAIN moved, \A x \in DOMAIN moved : m <= x
          PROVE  StandsBefore(points, hs, m)
      <3>1. m \in Nat /\ \A x \in DOMAIN s.moved : m <= x /\ x \in Nat
        BY <2>5, <2>6, <2>7, <2>9
      <3>2. CASE m = a
        <4>1. \A b \in DOMAIN points : b < m =>
                b \in DOMAIN ps /\ ps[b].price = points[b].price /\ points[b].until <= ps[b].until
          <5>1. CASE s.moved = <<>>
            BY <2>6, <2>7, <5>1
          <5>2. CASE s.moved # <<>>
            <6>1. DOMAIN s.moved # {} /\ DOMAIN s.moved \in SUBSET Nat
              BY <2>6, <2>7, <5>2
            <6>2. PICK l \in DOMAIN s.moved : \A x \in DOMAIN s.moved : l <= x
              BY <6>1, LeastFound
            <6>3. StandsBefore(points, ps, l) /\ m <= l /\ l \in Nat
              BY <2>6, <3>1, <6>1, <6>2
            <6> QED
              BY <2>7, <3>1, <6>3 DEF StandsBefore
          <5> QED
            BY <5>1, <5>2
        <4>2. \A b \in DOMAIN points : b < m =>
                b \in DOMAIN hs /\ hs[b].price = points[b].price /\ points[b].until <= hs[b].until
          BY <2>4, <2>7, <3>2, <4>1 DEF StandsBefore
        <4> QED
          BY <2>4, <3>2, <4>2 DEF StandsBefore
      <3>3. CASE m # a
        <4>1. m \in DOMAIN s.moved /\ m < a
          <5>1. m \in DOMAIN s.moved
            BY <2>5, <3>3
          <5>2. a \in DOMAIN moved
            BY <2>5
          <5>3. m <= a
            BY <2>9, <5>2
          <5> QED
            BY <2>7, <3>1, <3>3, <5>1, <5>3
        <4>2. StandsBefore(points, ps, m)
          BY <2>6, <3>1, <4>1
        <4>3. \A b \in DOMAIN ps : b < m => b \in DOMAIN hs /\ hs[b].price = ps[b].price /\ ps[b].until <= hs[b].until
          BY <2>4, <2>7, <3>1, <4>1 DEF StandsBefore
        <4>4. \A b \in DOMAIN points : b < m =>
                b \in DOMAIN hs /\ hs[b].price = points[b].price /\ points[b].until <= hs[b].until
          BY <2>7, <4>2, <4>3 DEF StandsBefore
        <4>5. ASSUME NEW b \in DOMAIN hs, b < m PROVE \E x \in DOMAIN hs : x < m /\ m <= hs[x].until
          <5>1. PICK x \in DOMAIN ps : x < m /\ m <= ps[x].until
            BY <2>4, <4>2, <4>5 DEF StandsBefore
          <5> QED
            BY <2>7, <3>1, <4>3, <5>1
        <4> QED
          BY <4>4, <4>5 DEF StandsBefore
      <3> QED
        BY <3>2, <3>3
    <2>10. Steady(n)
      BY <2>2, <2>5, <2>8, <2>9 DEF Steady
    <2> QED
      BY <2>10 DEF n
  <1> QED
    BY <1>1, <1>2

\* reject_prices of finitely many intervals.
LEMMA RejectingIs ==
  ASSUME NEW ats, IsFiniteSet(ats), now \in Nat, Series(points, now)
  PROVE  SetAside(Rejecting(ats)) /\ Steady(Rejecting(ats))
  <1> DEFINE order == Ordered(ats, LAMBDA a : a)
             base == [points |-> points, moved |-> <<>>]
             c == Cardinality(ats)
             Good(r) == SetAside(r) /\ Steady(r)
             Step(f, i) == IF i = 0 THEN base ELSE Struck(f[i - 1], order[i])
  <1>1. c \in Nat
    BY FS_CardinalityType
  <1>2. Rejecting(ats) = (CHOOSE f : f = [i \in 0..c |-> Step(f, i)])[c]
    BY Zenon DEF Rejecting, Struck
  <1> HIDE DEF order
  <1>3. Good(base)
    <2>1. base.points = points /\ base.moved = <<>> /\ DOMAIN <<>> = {}
      OBVIOUS
    <2> HIDE DEF base
    <2>2. SetAside(base)
      BY <2>1 DEF SetAside
    <2>3. \A a \in DOMAIN points : a <= a /\ points[a].until <= points[a].until
      BY DEF Series, PriceInterval
    <2>4. Steady(base)
      BY <2>1, <2>3 DEF Steady, ReachesAsFar
    <2> QED
      BY <2>2, <2>4
  <1> HIDE DEF base, c, Good
  <1>4. \E f : f = [i \in 0..c |-> Step(f, i)]
    <2> DEFINE For(m) == \E f : f = [i \in 0..m |-> Step(f, i)]
               bad == {m \in Nat : ~For(m)}
    <2>1. bad = {}
      <3> SUFFICES ASSUME bad # {} PROVE FALSE
        OBVIOUS
      <3>1. PICK m \in bad : \A j \in bad : m <= j
        <4>1. bad \in SUBSET Nat
          OBVIOUS
        <4> HIDE DEF bad
        <4> QED
          BY <4>1, LeastFound
      <3>2. m \in Nat /\ ~For(m)
        OBVIOUS
      <3>3. m # 0
        <4> SUFFICES ASSUME m = 0 PROVE For(0)
          BY <3>2
        <4> DEFINE f == [i \in 0..0 |-> base]
        <4>1. f = [i \in 0..0 |-> Step(f, i)]
          <5>1. \A i \in 0..0 : Step(f, i) = base
            OBVIOUS
          <5> HIDE DEF Step
          <5> QED
            BY <5>1
        <4> QED
          BY <4>1
      <3>4. m - 1 \in Nat /\ m - 1 \notin bad
        <4>1. m - 1 \in Nat /\ ~(m <= m - 1)
          BY <3>2, <3>3
        <4> HIDE DEF bad
        <4> QED
          BY <3>1, <4>1
      <3>5. PICK f : f = [i \in 0..(m - 1) |-> Step(f, i)]
        BY <3>4
      <3> DEFINE g == [i \in 0..m |-> IF i = m THEN Struck(f[m - 1], order[m]) ELSE f[i]]
      <3>6. \A i \in 0..m : g[i] = Step(g, i)
        <4> SUFFICES ASSUME NEW i \in 0..m PROVE g[i] = Step(g, i)
          OBVIOUS
        <4>1. CASE i = m
          <5>1. m - 1 \in 0..m /\ m - 1 # m
            BY <3>2, <3>3
          <5>2. g[m - 1] = f[m - 1]
            BY <5>1
          <5> QED
            BY <3>3, <4>1, <5>2
        <4>2. CASE i # m
          <5>1. i \in 0..(m - 1)
            BY <3>2, <4>2
          <5>2. f[i] = Step(f, i)
            <6> HIDE DEF Step
            <6> QED
              BY <3>5, <5>1
          <5>3. i # 0 => g[i - 1] = f[i - 1]
            <6>1. i # 0 => i - 1 \in 0..m /\ i - 1 # m
              BY <3>2, <5>1
            <6> QED
              BY <6>1
          <5>4. g[i] = f[i]
            BY <4>2
          <5> HIDE DEF g
          <5> QED
            BY <5>2, <5>3, <5>4
        <4> QED
          BY <4>1, <4>2
      <3>7. g = [i \in 0..m |-> Step(g, i)]
        <4> HIDE DEF Step
        <4>1. g = [i \in 0..m |-> g[i]]
          OBVIOUS
        <4> HIDE DEF g
        <4> QED
          BY <3>6, <4>1
      <3> HIDE DEF g
      <3> QED
        BY <3>2, <3>7
    <2> HIDE DEF Step
    <2> QED
      BY <1>1, <2>1
  <1>5. PICK f : f = [i \in 0..c |-> Step(f, i)] /\ Rejecting(ats) = f[c]
    <2> HIDE DEF Step
    <2> QED
      BY <1>2, <1>4
  <1>6. \A i \in 0..c : f[i] = Step(f, i)
    <2> HIDE DEF Step
    <2> QED
      BY <1>5
  <1>7. \A i \in 0..c : Good(f[i])
    <2> DEFINE bad == {i \in 0..c : ~Good(f[i])}
    <2> SUFFICES ASSUME bad # {} PROVE FALSE
      OBVIOUS
    <2>1. PICK k \in bad : \A j \in bad : k <= j
      <3>1. bad \in SUBSET Nat
        BY <1>1
      <3> HIDE DEF bad
      <3> QED
        BY <3>1, LeastFound
    <2>2. k \in 0..c /\ ~Good(f[k])
      OBVIOUS
    <2>3. k # 0
      BY <1>3, <1>6, <2>2
    <2>4. k - 1 \in 0..c /\ k - 1 \notin bad
      <3>1. k - 1 \in 0..c /\ ~(k <= k - 1)
        BY <1>1, <2>2, <2>3
      <3> HIDE DEF bad
      <3> QED
        BY <2>1, <3>1
    <2>5. Good(f[k - 1])
      BY <2>4
    <2>6. f[k] = Struck(f[k - 1], order[k])
      BY <1>6, <2>2, <2>3
    <2>7. Good(Struck(f[k - 1], order[k]))
      BY <2>5, StruckIs, StruckSteady DEF Good
    <2> QED
      BY <2>2, <2>6, <2>7
  <1> QED
    BY <1>1, <1>5, <1>7 DEF Good

-----------------------------------------------------------------------------
(* The steps. *)

\* Whatever the echo detector finds is set aside as it should be.
LEMMA EchoesSetAside ==
  ASSUME NEW since, now \in Nat, Answered
  PROVE  LET res == Rejecting(EchoesIn(CheckRows(since)))
         IN  SetAside(res) /\ Steady(res)
  <1>1. IsFiniteSet(0..now)
    BY FS_Interval
  <1>2. /\ Series(points, now)
        /\ DOMAIN points \in SUBSET (0..now) /\ DOMAIN rejects \in SUBSET (0..now)
    BY DEF Answered, Series
  <1>3. IsFiniteSet(DOMAIN points) /\ IsFiniteSet(DOMAIN rejects)
    BY <1>1, <1>2, FS_Subset
  <1>4. IsFiniteSet(EchoesIn(CheckRows(since)))
    BY <1>3, EchoesFinite
  <1> QED
    BY <1>2, <1>4, RejectingIs

\* What is set aside is no longer heard; the rest is shown as before.
LEMMA RejectShows ==
  ASSUME NEW since, now \in Nat, Answered, RejectEchoes(since)
  PROVE  /\ DOMAIN heard' \subseteq DOMAIN heard /\ \A t \in DOMAIN heard' : heard'[t] = heard[t]
         /\ DOMAIN points' \subseteq DOMAIN points
         /\ \A t \in DOMAIN heard' : Shown(points, t, heard[t]) => Shown(points', t, heard'[t])
  <1> DEFINE res == Rejecting(EchoesIn(CheckRows(since)))
             gone == Forgotten(res.moved)
  <1>1. SetAside(res)
    BY EchoesSetAside
  <1>2. points' = res.points /\ heard' = [t \in DOMAIN heard \ gone |-> heard[t]]
    BY DEF RejectEchoes
  <1>3. \A t \in DOMAIN heard : t \in Int
    BY DEF Answered
  <1> HIDE DEF res
  <1>4. DOMAIN heard' = DOMAIN heard \ gone /\ \A t \in DOMAIN heard' : heard'[t] = heard[t]
    <2> HIDE DEF gone
    <2> QED
      BY <1>2
  <1>5. ASSUME NEW t \in DOMAIN heard', Shown(points, t, heard[t]), ~Shown(points', t, heard'[t])
        PROVE  FALSE
    <2>1. t \in DOMAIN heard /\ t \notin gone /\ t \in Int /\ ~Shown(res.points, t, heard[t])
      BY <1>2, <1>3, <1>4, <1>5
    <2>2. PICK a \in DOMAIN res.moved : /\ res.moved[a].at <= t /\ t <= res.moved[a].until
                                        /\ res.moved[a].price = heard[t]
      BY <1>1, <1>5, <2>1 DEF SetAside
    <2>3. t \in gone
      BY <2>1, <2>2 DEF Forgotten, Range
    <2> QED
      BY <2>1, <2>3
  <1>6. DOMAIN points' \subseteq DOMAIN points
    BY <1>1, <1>2 DEF SetAside
  <1> HIDE DEF gone
  <1> QED
    BY <1>4, <1>5, <1>6

\* Echoes are set aside: what was heard and stays on record is still shown.
LEMMA RejectKeeps ==
  ASSUME NEW since, now \in Nat, Answered, RejectEchoes(since), now' = now
  PROVE  Answered'
  <1> DEFINE res == Rejecting(EchoesIn(CheckRows(since)))
             gone == Forgotten(res.moved)
  <1>1. /\ DOMAIN points \subseteq 0..now
        /\ DOMAIN rejects \subseteq 0..now /\ DOMAIN heard \subseteq 0..now
        /\ \A t \in DOMAIN heard : t >= now - KeepSpan => Shown(points, t, heard[t])
    BY DEF Answered, Series
  <1>2. SetAside(res)
    BY EchoesSetAside
  <1>3. /\ points' = res.points /\ rejects' = Written(rejects, res.moved)
        /\ heard' = [t \in DOMAIN heard \ gone |-> heard[t]]
    BY DEF RejectEchoes
  <1> HIDE DEF res
  <1>4. Series(points', now')
    BY <1>2, <1>3 DEF SetAside
  <1>5. DOMAIN rejects' \subseteq 0..now'
    <2>1. DOMAIN rejects' = DOMAIN rejects \cup DOMAIN res.moved
      BY <1>3 DEF Written
    <2>2. DOMAIN res.moved \subseteq DOMAIN points
      BY <1>2 DEF SetAside
    <2> QED
      BY <1>1, <2>1, <2>2
  <1>6. heard' = [t \in DOMAIN heard' |-> heard'[t]]
    <2> HIDE DEF gone
    <2> QED
      BY <1>3
  <1>7. /\ DOMAIN heard' \subseteq DOMAIN heard /\ \A t \in DOMAIN heard' : heard'[t] = heard[t]
        /\ \A t \in DOMAIN heard' : Shown(points, t, heard[t]) => Shown(points', t, heard'[t])
    BY RejectShows
  <1>8. \A t \in DOMAIN heard' : t >= now' - KeepSpan => Shown(points', t, heard'[t])
    BY <1>1, <1>7
  <1>9. DOMAIN heard' \subseteq 0..now'
    BY <1>1, <1>7
  <1> HIDE DEF gone
  <1> QED
    BY <1>4, <1>5, <1>6, <1>8, <1>9 DEF Answered

\* A reading is written over the last interval, or opens one at its minute.
LEMMA ReadingPuts ==
  ASSUME NEW p \in Prices, now \in Nat, Answered
  PROVE  \E m \in 0..now, e \in PriceInterval :
           /\ PutReading(now, p) = Put(points, m, e) /\ e.at = m /\ e.price = p /\ e.until = now
           /\ \A a \in DOMAIN points : a <= m
           /\ m = now \/ (m \in DOMAIN points /\ points[m].price = p)
  <1> DEFINE last == Max(Ats)
             cur == points[last]
  <1>0. /\ DOMAIN points \in SUBSET (0..now)
        /\ \A a \in DOMAIN points :
             /\ points[a] \in PriceInterval /\ points[a].at = a
             /\ points[a].until <= now /\ points[a].until \in Nat /\ a <= now /\ a \in Nat
    BY DEF Answered, Series, PriceInterval
  <1>1. CASE Ats # {} /\ cur.price = p
    <2> DEFINE e == Extended(cur, now, 1)
    <2>1. last \in DOMAIN points /\ \A a \in DOMAIN points : a <= last
      BY <1>0, <1>1, BoundedMax DEF Ats
    <2>2. PutReading(now, p) = Put(points, last, e)
      BY <1>1 DEF PutReading
    <2> HIDE DEF last
    <2>3. /\ cur \in PriceInterval /\ cur.until <= now /\ cur.until \in Nat /\ cur.at = last
          /\ 1 \in Nat
      BY <1>0, <2>1
    <2> HIDE DEF cur
    <2>4. /\ e \in PriceInterval /\ e.at = cur.at /\ e.price = cur.price
          /\ e.until = Later(cur.until, now)
      BY <2>3, ExtendedIs
    <2>5. Later(cur.until, now) = now
      BY <2>3 DEF Later
    <2> HIDE DEF e
    <2> QED
      BY <1>0, <1>1, <2>1, <2>2, <2>3, <2>4, <2>5 DEF cur
  <1>2. CASE ~(Ats # {} /\ cur.price = p)
    <2> DEFINE n == IF now \in Ats THEN points[now].polls ELSE 1
               e == Interval(now, now, n, p)
    <2>1. PutReading(now, p) = Put(points, now, e)
      BY <1>2, Zenon DEF PutReading
    <2>2. n \in Nat \ {0}
      BY <1>0 DEF Ats, PriceInterval
    <2> HIDE DEF n
    <2>3. e \in PriceInterval /\ e.at = now /\ e.price = p /\ e.until = now
      BY <2>2 DEF Interval, PriceInterval
    <2> HIDE DEF e
    <2> QED
      BY <1>0, <2>1, <2>3
  <1> QED
    BY <1>1, <1>2

\* A reading is shown at its minute, and what was shown before it still is.
LEMMA ReadingShows ==
  ASSUME NEW p \in Prices, now \in Nat, Answered, points' = PutReading(now, p)
  PROVE  /\ Shown(points', now, p)
         /\ \A t \in Nat : \A v : t < now /\ Shown(points, t, v) => Shown(points', t, v)
         /\ DOMAIN points' \subseteq DOMAIN points \cup {now}
  <1>1. /\ DOMAIN points \subseteq Nat
        /\ \A a \in DOMAIN points : points[a].until <= now /\ points[a].until \in Nat
    BY DEF Answered, Series, PriceInterval
  <1>2. PICK m \in 0..now, e \in PriceInterval :
          /\ points' = Put(points, m, e) /\ e.at = m /\ e.price = p /\ e.until = now
          /\ \A a \in DOMAIN points : a <= m
          /\ m = now \/ (m \in DOMAIN points /\ points[m].price = p)
    BY ReadingPuts
  <1>3. /\ DOMAIN points' = DOMAIN points \cup {m} /\ points'[m] = e
        /\ \A a \in DOMAIN points : a # m => points'[a] = points[a]
    BY <1>2 DEF Put
  <1>4. Shown(points', now, p)
    <2>1. m \in DOMAIN points' /\ m <= now /\ now <= points'[m].until /\ points'[m].price = p
      BY <1>2, <1>3
    <2>2. \A b \in DOMAIN points' : b <= now => b <= m
      BY <1>1, <1>2, <1>3
    <2> QED
      BY <2>1, <2>2 DEF Shown
  <1>5. ASSUME NEW t \in Nat, NEW v, t < now, Shown(points, t, v) PROVE Shown(points', t, v)
    <2>1. PICK a \in DOMAIN points : /\ a <= t /\ t <= points[a].until /\ points[a].price = v
                                     /\ \A b \in DOMAIN points : b <= t => b <= a
      BY <1>5 DEF Shown
    <2>2. a \in DOMAIN points' /\ t <= points'[a].until /\ points'[a].price = v
      <3>1. CASE a = m
        <4>1. m # now
          BY <1>1, <1>5, <2>1, <3>1
        <4> QED
          BY <1>2, <1>3, <1>5, <2>1, <3>1, <4>1
      <3>2. CASE a # m
        BY <1>3, <2>1, <3>2
      <3> QED
        BY <3>1, <3>2
    <2>3. \A b \in DOMAIN points' : b <= t => b <= a
      BY <1>2, <1>3, <1>5, <2>1
    <2> QED
      BY <2>1, <2>2, <2>3 DEF Shown
  <1> QED
    BY <1>2, <1>3, <1>4, <1>5

\* A reading is taken: it is shown at its minute, and nothing before it moves.
LEMMA ReadingKeeps ==
  ASSUME NEW p \in Prices, now \in Nat, Answered, now' = now,
         points' = PutReading(now, p), heard' = Put(heard, now, p), UNCHANGED rejects
  PROVE  Answered'
  <1>1. /\ DOMAIN points \in SUBSET (0..now) /\ DOMAIN points \subseteq Nat
        /\ points = [a \in DOMAIN points |-> points[a]]
        /\ DOMAIN rejects \subseteq 0..now /\ DOMAIN heard \subseteq 0..now
        /\ \A a \in DOMAIN points :
             /\ points[a] \in PriceInterval /\ points[a].at = a /\ a <= points[a].until
             /\ points[a].until <= now /\ points[a].until \in Nat /\ a <= now /\ a \in Nat
        /\ \A a, b \in DOMAIN points : a < b => points[a].until <= b
        /\ \A t \in DOMAIN heard : t >= now - KeepSpan => Shown(points, t, heard[t])
    BY DEF Answered, Series, PriceInterval
  <1>2. /\ DOMAIN heard' = DOMAIN heard \cup {now} /\ heard'[now] = p
        /\ \A t \in DOMAIN heard : t # now => heard'[t] = heard[t]
        /\ heard' = [t \in DOMAIN heard' |-> heard'[t]]
    BY DEF Put
  <1>3. PICK m \in 0..now, e \in PriceInterval :
          /\ points' = Put(points, m, e) /\ e.at = m /\ e.price = p /\ e.until = now
          /\ \A a \in DOMAIN points : a <= m
          /\ m = now \/ (m \in DOMAIN points /\ points[m].price = p)
    BY ReadingPuts
  <1>4. /\ DOMAIN points' = DOMAIN points \cup {m} /\ points'[m] = e
        /\ \A a \in DOMAIN points : a # m => points'[a] = points[a]
        /\ points' = [a \in DOMAIN points' |-> points'[a]]
    BY <1>3 DEF Put
  <1>5. Series(points', now')
    <2>1. ASSUME NEW a \in DOMAIN points'
          PROVE  /\ points'[a] \in PriceInterval /\ points'[a].at = a
                 /\ a <= points'[a].until /\ points'[a].until <= now
      <3>1. CASE a = m
        BY <1>3, <1>4, <3>1
      <3>2. CASE a # m
        BY <1>1, <1>4, <3>2
      <3> QED
        BY <3>1, <3>2
    <2>2. ASSUME NEW a \in DOMAIN points', NEW b \in DOMAIN points', a < b
          PROVE  points'[a].until <= b
      <3>1. a \in DOMAIN points /\ a # m
        BY <1>1, <1>3, <1>4, <2>2
      <3>2. CASE b \in DOMAIN points
        BY <1>1, <1>4, <2>2, <3>1, <3>2
      <3>3. CASE b \notin DOMAIN points
        <4>1. b = m /\ m = now
          BY <1>3, <1>4, <3>3
        <4> QED
          BY <1>1, <1>4, <3>1, <4>1
      <3> QED
        BY <3>2, <3>3
    <2>3. DOMAIN points' \subseteq 0..now
      BY <1>1, <1>3, <1>4
    <2> QED
      BY <1>4, <2>1, <2>2, <2>3 DEF Series
  <1>6. ASSUME NEW t \in DOMAIN heard', t >= now' - KeepSpan
        PROVE  Shown(points', t, heard'[t])
    <2>1. CASE t = now
      BY <1>2, <2>1, ReadingShows
    <2>2. CASE t # now
      <3>1. t \in DOMAIN heard /\ heard'[t] = heard[t] /\ t \in Nat /\ t < now
        BY <1>1, <1>2, <2>2
      <3>2. Shown(points, t, heard[t])
        BY <1>1, <1>6, <3>1
      <3> QED
        BY <3>1, <3>2, ReadingShows
    <2> QED
      BY <2>1, <2>2
  <1>7. DOMAIN heard' \subseteq 0..now' /\ DOMAIN rejects' \subseteq 0..now'
    BY <1>1, <1>2
  <1> QED
    BY <1>2, <1>5, <1>6, <1>7 DEF Answered

\* Intervals that ended before the window go.
LEMMA PruneKeeps ==
  ASSUME now \in Nat, Answered, now' = now, UNCHANGED <<rejects, heard>>,
         points' = [a \in {b \in Ats : ~Expired(points[b])} |-> points[a]]
  PROVE  Answered'
  <1>1. /\ DOMAIN points' \subseteq DOMAIN points
        /\ \A a \in DOMAIN points' : points'[a] = points[a]
        /\ points' = [a \in DOMAIN points' |-> points'[a]]
        /\ \A a \in DOMAIN points : points[a].until >= now - KeepSpan => a \in DOMAIN points'
    <2>1. \A a \in DOMAIN points : points[a].until \in Int /\ now - KeepSpan \in Int
      BY PriceAssumption DEF Answered, Series, PriceInterval
    <2> QED
      BY <2>1 DEF Ats, Expired
  <1>2. Series(points', now')
    BY <1>1 DEF Answered, Series
  <1>3. ASSUME NEW t \in DOMAIN heard', t >= now' - KeepSpan
        PROVE  Shown(points', t, heard'[t])
    <2>1. t \in Int /\ now - KeepSpan \in Int
      BY PriceAssumption DEF Answered
    <2>2. PICK a \in DOMAIN points : /\ a <= t /\ t <= points[a].until
                                     /\ points[a].price = heard[t]
                                     /\ \A b \in DOMAIN points : b <= t => b <= a
      BY <1>3 DEF Answered, Shown
    <2>3. points[a].until \in Int
      BY DEF Answered, Series, PriceInterval
    <2>4. points[a].until >= now - KeepSpan
      BY <1>3, <2>1, <2>2, <2>3
    <2> QED
      BY <1>1, <2>2, <2>4 DEF Shown
  <1> QED
    BY <1>2, <1>3 DEF Answered

\* Nothing but the clock moves on.
LEMMA LaterKeeps ==
  ASSUME now \in Nat, now' \in Nat, now <= now', Answered, UNCHANGED <<points, rejects, heard>>
  PROVE  Answered'
  <1>1. Series(points', now')
    <2>1. \A a \in DOMAIN points : points[a].until \in Int
      BY DEF Answered, Series, PriceInterval
    <2> QED
      BY <2>1 DEF Answered, Series
  <1>2. ASSUME NEW t \in DOMAIN heard', t >= now' - KeepSpan
        PROVE  Shown(points', t, heard'[t])
    <2>1. t \in Int /\ t >= now - KeepSpan
      BY <1>2, PriceAssumption DEF Answered
    <2> QED
      BY <2>1 DEF Answered, Shown
  <1>3. DOMAIN heard' \subseteq 0..now' /\ DOMAIN rejects' \subseteq 0..now'
    BY DEF Answered
  <1> QED
    BY <1>1, <1>2, <1>3 DEF Answered

LEMMA AnswersStart == PriceInit => AnswersInv
  <1> SUFFICES ASSUME PriceInit PROVE AnswersInv
    OBVIOUS
  <1>1. DOMAIN <<>> = {} /\ <<>> = [t \in {} |-> <<>>[t]]
    OBVIOUS
  <1> QED
    BY <1>1 DEF PriceInit, AnswersInv, Answered, Series

LEMMA AnswersStep == AnswersInv /\ [PriceNext]_priceVars => AnswersInv'
  <1> SUFFICES ASSUME AnswersInv, [PriceNext]_priceVars PROVE AnswersInv'
    OBVIOUS
  <1>1. now \in Nat /\ backs \in Nat /\ (backs = 0 => Answered)
    BY DEF AnswersInv
  <1>2. CASE now' = now /\ backs' = backs /\ UNCHANGED <<points, rejects, heard>>
    BY <1>1, <1>2 DEF AnswersInv, Answered, Series, Shown
  <1>3. CASE Repair
    BY <1>1, <1>3, RejectKeeps DEF Repair, AnswersInv
  <1>4. CASE Rebuild
    BY <1>2, <1>4 DEF Rebuild
  <1>5. CASE Sample
    <2>1. now' = now /\ backs' = backs /\ UNCHANGED rejects
      BY <1>5 DEF Sample
    <2>2. CASE UNCHANGED <<points, heard>>
      BY <1>2, <2>1, <2>2
    <2>3. CASE ~UNCHANGED <<points, heard>>
      <3>1. PICK p \in Prices : points' = PutReading(now, p) /\ heard' = Put(heard, now, p)
        BY <1>5, <2>3 DEF Sample
      <3> QED
        BY <1>1, <2>1, <3>1, ReadingKeeps DEF AnswersInv
    <2> QED
      BY <2>2, <2>3
  <1>6. CASE Echoes
    BY <1>1, <1>6, RejectKeeps DEF Echoes, AnswersInv
  <1>7. CASE Refold
    BY <1>2, <1>7 DEF Refold
  <1>8. CASE Roll
    BY <1>2, <1>8 DEF Roll
  <1>9. CASE Prune
    <2>1. now' = now /\ backs' = backs /\ UNCHANGED <<rejects, heard>>
      BY <1>9 DEF Prune
    <2>2. CASE UNCHANGED points
      BY <1>2, <2>1, <2>2
    <2>3. CASE ~UNCHANGED points
      <3>1. points' = [a \in {b \in Ats : ~Expired(points[b])} |-> points[a]]
        BY <1>9, <2>3 DEF Prune
      <3> QED
        BY <1>1, <2>1, <3>1, PruneKeeps DEF AnswersInv
    <2> QED
      BY <2>2, <2>3
  <1>10. CASE Sleep
    <2>1. now' \in Nat /\ now <= now' /\ backs' = backs /\ UNCHANGED <<points, rejects, heard>>
      BY <1>1, <1>10 DEF Sleep, Minute
    <2> QED
      BY <1>1, <2>1, LaterKeeps DEF AnswersInv
  <1>11. CASE Stop
    <2>1. now' \in Nat /\ now <= now' /\ backs' = backs /\ UNCHANGED <<points, rejects, heard>>
      BY <1>1, <1>11 DEF Stop, Minute
    <2> QED
      BY <1>1, <2>1, LaterKeeps DEF AnswersInv
  <1>12. CASE SetBack
    <2>1. backs' = backs + 1 /\ now' = now - Minute /\ now >= Minute
      BY <1>12 DEF SetBack
    <2> QED
      BY <1>1, <2>1 DEF AnswersInv, Minute
  <1>13. CASE UNCHANGED priceVars
    BY <1>2, <1>13 DEF priceVars
  <1> QED
    BY <1>3, <1>4, <1>5, <1>6, <1>7, <1>8, <1>9, <1>10, <1>11, <1>12, <1>13 DEF PriceNext

LEMMA ShownIsAnswered == AnswersInv => ReadingsAnswered
  <1> SUFFICES ASSUME AnswersInv, backs = 0, NEW t \in DOMAIN heard, t >= now - KeepSpan
               PROVE  PriceAt(t) = heard[t]
    BY DEF ReadingsAnswered
  <1> DEFINE around == {a \in Ats : a <= t /\ t <= points[a].until}
  <1>1. PICK a \in DOMAIN points : /\ a <= t /\ t <= points[a].until
                                   /\ points[a].price = heard[t]
                                   /\ \A b \in DOMAIN points : b <= t => b <= a
    BY DEF AnswersInv, Answered, Shown
  <1>2. around \subseteq Int
    BY DEF AnswersInv, Answered, Series, Ats
  <1>3. a \in around /\ \A b \in around : b <= a
    BY <1>1 DEF Ats
  <1>4. PriceAt(t) = points[Max(around)].price
    BY <1>3 DEF PriceAt
  <1> HIDE DEF around
  <1>5. Max(around) = a
    BY <1>2, <1>3, MaxIs
  <1> QED
    BY <1>1, <1>4, <1>5

\* The price of every minute that was read, not set aside and not pruned is
\* answered as it was read last, for any prices and any spans: whatever the echo
\* detector sets aside, in whichever order, and wherever the process stops
\* (store.py price_at, put_price_reading, reject_prices).
THEOREM ReadingsAreAnswered == PriceSpec => []ReadingsAnswered
  <1>1. PriceInit => AnswersInv
    BY AnswersStart
  <1>2. AnswersInv /\ [PriceNext]_priceVars => AnswersInv'
    BY AnswersStep
  <1>3. AnswersInv => ReadingsAnswered
    BY ShownIsAnswered
  <1> QED
    BY <1>1, <1>2, <1>3, PTL DEF PriceSpec

-----------------------------------------------------------------------------
(* Where a hole may be. *)

\* An interval reaches over the minute t, or all of them begin after it.
Covered(ps, t) ==
  \/ \E a \in DOMAIN ps : a <= t /\ t <= ps[a].until
  \/ \A a \in DOMAIN ps : t < a

\* So it is for every minute of the window that was read.
Unbroken ==
  polled \subseteq 0..now /\ \A t \in polled : t >= now - KeepSpan => Covered(points, t)

HoleInv == AnswersInv /\ (backs = 0 => Unbroken)

LEMMA RejectCovers ==
  ASSUME NEW since, now \in Nat, Answered, Unbroken, RejectEchoes(since),
         UNCHANGED <<now, polled>>
  PROVE  Unbroken'
  <1> DEFINE res == Rejecting(EchoesIn(CheckRows(since)))
  <1>1. SetAside(res) /\ Steady(res) /\ points' = res.points
    BY EchoesSetAside DEF RejectEchoes
  <1> HIDE DEF res
  <1>2. /\ ReachesAsFar(points, points') /\ DOMAIN points' \subseteq DOMAIN points
        /\ Series(points, now) /\ Series(points', now)
    BY <1>1 DEF SetAside, Steady, Answered
  <1>3. /\ DOMAIN points \subseteq Nat
        /\ \A a \in DOMAIN points : points[a].until \in Nat
        /\ \A a \in DOMAIN points' : points'[a].until \in Nat /\ a <= points'[a].until
    BY <1>2 DEF Series, PriceInterval
  <1>4. ASSUME NEW t \in polled, t >= now - KeepSpan, NEW c \in DOMAIN points', ~(t < c)
        PROVE  \E a \in DOMAIN points' : a <= t /\ t <= points'[a].until
    <2>1. t \in Nat /\ c \in Nat /\ c \in DOMAIN points
      BY <1>2, <1>3 DEF Unbroken
    <2>2. PICK a \in DOMAIN points : a <= t /\ t <= points[a].until
      BY <1>4, <2>1 DEF Unbroken, Covered
    <2>3. CASE \E b \in DOMAIN points' : b <= a /\ points[a].until <= points'[b].until
      BY <1>2, <1>3, <2>1, <2>2, <2>3
    <2>4. CASE \A b \in DOMAIN points' : points[a].until <= b
      BY <1>2, <1>3, <1>4, <2>1, <2>2, <2>4
    <2> QED
      BY <1>2, <2>3, <2>4 DEF ReachesAsFar
  <1> QED
    BY <1>4 DEF Unbroken, Covered

LEMMA ReadingCovers ==
  ASSUME NEW p \in Prices, now \in Nat, Answered, Unbroken,
         points' = PutReading(now, p), polled' = polled \cup {now}, UNCHANGED now
  PROVE  Unbroken'
  <1>1. PICK m \in 0..now, e \in PriceInterval :
          /\ points' = Put(points, m, e) /\ e.at = m /\ e.price = p /\ e.until = now
          /\ \A a \in DOMAIN points : a <= m
          /\ m = now \/ (m \in DOMAIN points /\ points[m].price = p)
    BY ReadingPuts
  <1>2. /\ DOMAIN points' = DOMAIN points \cup {m} /\ points'[m] = e
        /\ \A a \in DOMAIN points : a # m => points'[a] = points[a]
    BY <1>1 DEF Put
  <1>3. /\ DOMAIN points \subseteq Nat
        /\ \A a \in DOMAIN points : points[a].until \in Nat /\ points[a].until <= now
    BY DEF Answered, Series, PriceInterval
  <1>4. ASSUME NEW t \in polled', t >= now - KeepSpan PROVE Covered(points', t)
    <2>1. t \in 0..now
      BY DEF Unbroken
    <2>2. CASE m <= t
      <3>1. t <= points'[m].until
        BY <1>1, <1>2, <2>1
      <3> QED
        BY <1>2, <2>2, <3>1 DEF Covered
    <2>3. CASE ~(m <= t)
      <3>1. t # now /\ t \in polled
        BY <1>1, <2>1, <2>3
      <3>2. CASE \E a \in DOMAIN points : a <= t /\ t <= points[a].until
        <4>1. PICK a \in DOMAIN points : a <= t /\ t <= points[a].until
          BY <3>2
        <4>2. a # m
          BY <2>3, <4>1
        <4> QED
          BY <1>2, <4>1, <4>2 DEF Covered
      <3>3. CASE \A a \in DOMAIN points : t < a
        BY <1>1, <1>2, <2>1, <2>3, <3>3 DEF Covered
      <3> QED
        BY <1>4, <3>1, <3>2, <3>3 DEF Unbroken, Covered
    <2> QED
      BY <2>2, <2>3
  <1> QED
    BY <1>4 DEF Unbroken

LEMMA PruneCovers ==
  ASSUME now \in Nat, Answered, Unbroken, UNCHANGED <<now, polled>>,
         points' = [a \in {b \in Ats : ~Expired(points[b])} |-> points[a]]
  PROVE  Unbroken'
  <1>1. /\ DOMAIN points' \subseteq DOMAIN points
        /\ \A a \in DOMAIN points' : points'[a] = points[a]
        /\ \A a \in DOMAIN points : points[a].until >= now - KeepSpan => a \in DOMAIN points'
    <2>1. \A a \in DOMAIN points : points[a].until \in Int /\ now - KeepSpan \in Int
      BY PriceAssumption DEF Answered, Series, PriceInterval
    <2> QED
      BY <2>1 DEF Ats, Expired
  <1>2. ASSUME NEW t \in polled, t >= now - KeepSpan PROVE Covered(points', t)
    <2>1. t \in Int /\ now - KeepSpan \in Int
      BY PriceAssumption DEF Unbroken
    <2>2. CASE \E a \in DOMAIN points : a <= t /\ t <= points[a].until
      <3>1. PICK a \in DOMAIN points : a <= t /\ t <= points[a].until
        BY <2>2
      <3>2. points[a].until \in Int
        BY DEF Answered, Series, PriceInterval
      <3>3. points[a].until >= now - KeepSpan
        BY <1>2, <2>1, <3>1, <3>2
      <3> QED
        BY <1>1, <3>1, <3>3 DEF Covered
    <2>3. CASE \A a \in DOMAIN points : t < a
      BY <1>1, <2>3 DEF Covered
    <2> QED
      BY <1>2, <2>2, <2>3 DEF Unbroken, Covered
  <1> QED
    BY <1>2 DEF Unbroken

LEMMA HolesStep == HoleInv /\ [PriceNext]_priceVars => HoleInv'
  <1> SUFFICES ASSUME HoleInv, [PriceNext]_priceVars PROVE HoleInv'
    OBVIOUS
  <1>1. AnswersInv /\ now \in Nat /\ backs \in Nat /\ (backs = 0 => Answered /\ Unbroken)
    BY DEF HoleInv, AnswersInv
  <1>2. AnswersInv'
    BY <1>1, AnswersStep
  <1> SUFFICES ASSUME backs' = 0 PROVE Unbroken'
    BY <1>2 DEF HoleInv
  <1>3. CASE now' \in Nat /\ now <= now' /\ backs' = backs /\ UNCHANGED <<points, polled>>
    <2>1. Unbroken /\ DOMAIN points \subseteq Nat
      BY <1>1, <1>3 DEF Answered, Series
    <2>2. \A t \in polled : t \in Nat /\ (t >= now' - KeepSpan => t >= now - KeepSpan)
      BY <1>1, <1>3, <2>1, PriceAssumption DEF Unbroken
    <2>3. polled \subseteq 0..now'
      BY <1>1, <1>3, <2>1 DEF Unbroken
    <2> QED
      BY <1>3, <2>1, <2>2, <2>3 DEF Unbroken
  <1>4. CASE Repair
    BY <1>1, <1>4, RejectCovers DEF Repair
  <1>5. CASE Echoes
    BY <1>1, <1>5, RejectCovers DEF Echoes
  <1>6. CASE Sample
    <2>1. UNCHANGED <<now, backs>>
      BY <1>6 DEF Sample
    <2>2. CASE UNCHANGED <<points, polled>>
      BY <1>1, <1>3, <2>1, <2>2
    <2>3. CASE ~UNCHANGED <<points, polled>>
      <3>1. PICK p \in Prices : points' = PutReading(now, p) /\ polled' = polled \cup {now}
        BY <1>6, <2>3 DEF Sample
      <3> QED
        BY <1>1, <2>1, <3>1, ReadingCovers
    <2> QED
      BY <2>2, <2>3
  <1>7. CASE Prune
    <2>1. UNCHANGED <<now, backs, polled>>
      BY <1>7 DEF Prune
    <2>2. CASE UNCHANGED points
      BY <1>1, <1>3, <2>1, <2>2
    <2>3. CASE ~UNCHANGED points
      <3>1. points' = [a \in {b \in Ats : ~Expired(points[b])} |-> points[a]]
        BY <1>7, <2>3 DEF Prune
      <3> QED
        BY <1>1, <2>1, <3>1, PruneCovers
    <2> QED
      BY <2>2, <2>3
  <1>8. CASE Rebuild \/ Refold \/ Roll
    BY <1>1, <1>3, <1>8 DEF Rebuild, Refold, Roll
  <1>9. CASE Sleep \/ Stop
    BY <1>1, <1>3, <1>9 DEF Sleep, Stop, Minute
  <1>10. CASE SetBack
    BY <1>1, <1>10 DEF SetBack
  <1>11. CASE UNCHANGED priceVars
    BY <1>1, <1>3, <1>11 DEF priceVars
  <1> QED
    BY <1>4, <1>5, <1>6, <1>7, <1>8, <1>9, <1>10, <1>11 DEF PriceNext

\* The record reaches back to every minute of the window that was read.
ReachesBack == \A t \in polled : t >= now - KeepSpan => \E a \in Ats : a <= t

LEMMA CoveredHolds == HoleInv => (ReachesBack => NoHoles)
  <1> SUFFICES ASSUME HoleInv, ReachesBack, backs = 0, NEW t \in polled, t >= now - KeepSpan
               PROVE  PriceAt(t) # None
    BY DEF NoHoles
  <1> DEFINE around == {a \in Ats : a <= t /\ t <= points[a].until}
  <1>1. now \in Nat /\ Answered /\ Unbroken
    BY DEF HoleInv, AnswersInv
  <1>2. /\ DOMAIN points \subseteq Nat /\ t \in Nat
        /\ \A a \in DOMAIN points : points[a] \in PriceInterval /\ a <= now
    BY <1>1 DEF Answered, Series, Unbroken
  <1>3. PICK a \in DOMAIN points : a <= t /\ t <= points[a].until
    <2>1. PICK b \in DOMAIN points : b <= t
      BY DEF ReachesBack, Ats
    <2>2. ~(t < b)
      BY <1>2, <2>1
    <2> QED
      BY <1>1, <2>2 DEF Unbroken, Covered
  <1>4. around # {} /\ around \in SUBSET (0..now)
    BY <1>2, <1>3 DEF Ats
  <1>5. PriceAt(t) = points[Max(around)].price
    BY <1>4 DEF PriceAt
  <1>6. Max(around) \in around
    <2> HIDE DEF around
    <2> QED
      BY <1>1, <1>4, BoundedMax
  <1>7. points[Max(around)].price \in Prices
    BY <1>2, <1>6 DEF Ats, PriceInterval
  <1> QED
    BY <1>5, <1>7, PriceAssumption DEF None

\* Whatever is set aside, in whichever order, every minute of the window that
\* was read is answered with a price, for any prices and spans, unless it lies
\* before all that is on record: only the first interval leaves a hole when it
\* is taken out (store.py reject_prices).
THEOREM HolesLieInFront == PriceSpec => [](ReachesBack => NoHoles)
  <1>1. PriceInit => HoleInv
    BY AnswersStart DEF PriceInit, HoleInv, Unbroken
  <1>2. HoleInv /\ [PriceNext]_priceVars => HoleInv'
    BY HolesStep
  <1>3. HoleInv => (ReachesBack => NoHoles)
    BY CoveredHolds
  <1> QED
    BY <1>1, <1>2, <1>3, PTL DEF PriceSpec

-----------------------------------------------------------------------------
(* Rows in the order of their times. *)

\* The rising sequence q with r put behind its rows of lower key.
Placing(q, r, key) ==
  LET k == Cardinality({i \in 1..Len(q) : key[q[i]] < key[r]})
  IN  SubSeq(q, 1, k) \o <<r>> \o SubSeq(q, k + 1, Len(q))

\* It rises, and holds the rows it held and r.
Slotted(n, q, r, key) ==
  /\ Len(n) = Len(q) + 1
  /\ \A i, j \in 1..Len(n) : i < j => key[n[i]] < key[n[j]]
  /\ \E i \in 1..Len(n) : n[i] = r
  /\ \A i \in 1..Len(q) : \E j \in 1..Len(n) : n[j] = q[i]
  /\ \A i \in 1..Len(n) : n[i] = r \/ \E j \in 1..Len(q) : n[i] = q[j]

LEMMA PutInOrder ==
  ASSUME NEW S, NEW q \in Seq(S), NEW r \in S, NEW key, \A x \in S : key[x] \in Nat,
         \A i, j \in 1..Len(q) : i < j => key[q[i]] < key[q[j]],
         \A i \in 1..Len(q) : key[q[i]] # key[r]
  PROVE  Placing(q, r, key) \in Seq(S) /\ Slotted(Placing(q, r, key), q, r, key)
  <1> DEFINE below == {i \in 1..Len(q) : key[q[i]] < key[r]}
             k == Cardinality(below)
             n == SubSeq(q, 1, k) \o <<r>> \o SubSeq(q, k + 1, Len(q))
  <1>1. Len(q) \in Nat /\ \A i \in 1..Len(q) : q[i] \in S
    OBVIOUS
  <1>2. \A i \in Nat : IsFiniteSet(1..i) /\ Cardinality(1..i) = i
    <2> SUFFICES ASSUME NEW i \in Nat PROVE IsFiniteSet(1..i) /\ Cardinality(1..i) = i
      OBVIOUS
    <2>1. i \in Int /\ 1 \in Int
      OBVIOUS
    <2>2. IsFiniteSet(1..i) /\ Cardinality(1..i) = IF 1 > i THEN 0 ELSE i - 1 + 1
      BY <2>1, FS_Interval, Zenon
    <2> QED
      BY <2>2
  <1>3. below \in SUBSET (1..Len(q)) /\ IsFiniteSet(below)
    <2>1. below \in SUBSET (1..Len(q))
      OBVIOUS
    <2> HIDE DEF below
    <2> QED
      BY <1>1, <1>2, <2>1, FS_Subset
  <1>4. k \in 0..Len(q)
    <2> HIDE DEF below
    <2>1. k \in Nat /\ k <= Cardinality(1..Len(q))
      BY <1>1, <1>2, <1>3, FS_Subset, FS_CardinalityType
    <2> QED
      BY <1>1, <1>2, <2>1
  <1>5. \A i \in 1..Len(q) : i \in below <=> i <= k
    <2> SUFFICES ASSUME NEW i \in 1..Len(q) PROVE i \in below <=> i <= k
      OBVIOUS
    <2>1. CASE i \in below
      <3>1. 1..i \subseteq below
        <4> SUFFICES ASSUME NEW j \in 1..i PROVE j \in below
          OBVIOUS
        <4>1. j \in 1..Len(q) /\ (j = i \/ j < i)
          BY <1>1
        <4>2. key[q[i]] < key[r] /\ key[q[i]] \in Nat /\ key[r] \in Nat /\ key[q[j]] \in Nat
          BY <1>1, <2>1, <4>1
        <4> QED
          BY <4>1, <4>2
      <3> HIDE DEF below
      <3>2. Cardinality(1..i) <= k /\ Cardinality(1..i) = i
        BY <1>2, <1>3, <3>1, FS_Subset
      <3> QED
        BY <2>1, <3>2
    <2>2. CASE i \notin below
      <3>1. below \subseteq 1..(i - 1)
        <4> SUFFICES ASSUME NEW j \in below, ~(j < i) PROVE FALSE
          BY <1>1
        <4>1. j \in 1..Len(q) /\ (j = i \/ i < j) /\ key[q[j]] < key[r]
          OBVIOUS
        <4>2. ~(key[q[i]] < key[r]) /\ key[q[i]] \in Nat /\ key[r] \in Nat /\ key[q[j]] \in Nat
          BY <1>1, <2>2, <4>1
        <4> QED
          BY <4>1, <4>2
      <3>2. i - 1 \in Nat
        OBVIOUS
      <3> HIDE DEF below
      <3>3. k <= Cardinality(1..(i - 1)) /\ Cardinality(1..(i - 1)) = i - 1
        BY <1>2, <3>1, <3>2, FS_Subset
      <3> QED
        BY <1>4, <2>2, <3>3
    <2> QED
      BY <2>1, <2>2
  <1>6. \A i \in 1..Len(q) : IF i <= k THEN key[q[i]] < key[r] ELSE key[r] < key[q[i]]
    BY <1>1, <1>5
  <1> HIDE DEF k, below
  <1>7. /\ SubSeq(q, 1, k) \in Seq(S) /\ Len(SubSeq(q, 1, k)) = k
        /\ \A i \in 1..k : SubSeq(q, 1, k)[i] = q[i]
    BY <1>1, <1>4
  <1>8. /\ SubSeq(q, k + 1, Len(q)) \in Seq(S) /\ Len(SubSeq(q, k + 1, Len(q))) = Len(q) - k
        /\ \A i \in 1..(Len(q) - k) : SubSeq(q, k + 1, Len(q))[i] = q[k + i]
    BY <1>1, <1>4
  <1>9. /\ n \in Seq(S) /\ Len(n) = Len(q) + 1
        /\ \A i \in 1..Len(n) : n[i] = IF i <= k THEN q[i] ELSE IF i = k + 1 THEN r ELSE q[i - 1]
    <2> DEFINE f == SubSeq(q, 1, k)
               l == SubSeq(q, k + 1, Len(q))
    <2>1. n = f \o <<r>> \o l /\ f \in Seq(S) /\ l \in Seq(S) /\ Len(f) = k /\ Len(l) = Len(q) - k
      BY <1>7, <1>8
    <2>2. n \in Seq(S) /\ Len(n) = Len(q) + 1
      <3> HIDE DEF f, l, n
      <3>1. <<r>> \in Seq(S) /\ Len(<<r>>) = 1
        OBVIOUS
      <3>2. f \o <<r>> \in Seq(S) /\ Len(f \o <<r>>) = k + 1
        BY <1>4, <2>1, <3>1
      <3>3. (f \o <<r>>) \o l \in Seq(S) /\ Len((f \o <<r>>) \o l) = (k + 1) + (Len(q) - k)
        <4> DEFINE fr == f \o <<r>>
        <4>1. fr \in Seq(S) /\ Len(fr) = k + 1
          BY <3>2
        <4> HIDE DEF fr
        <4>2. fr \o l \in Seq(S) /\ Len(fr \o l) = Len(fr) + Len(l)
          BY <2>1, <4>1, ConcatProperties
        <4> QED
          BY <2>1, <4>1, <4>2 DEF fr
      <3>4. n = (f \o <<r>>) \o l
        BY <2>1
      <3> QED
        BY <1>1, <1>4, <3>3, <3>4
    <2>3. ASSUME NEW i \in 1..Len(n)
          PROVE  n[i] = IF i <= k THEN f[i] ELSE IF i = k + 1 THEN r ELSE l[i - (k + 1)]
      <3> HIDE DEF f, l, n
      <3> QED
        BY <1>1, <1>4, <2>1, <2>2
    <2>4. \A i \in 1..Len(n) : /\ (i <= k => f[i] = q[i])
                               /\ (i > k + 1 => l[i - (k + 1)] = q[i - 1])
      <3> HIDE DEF f, l, n
      <3>1. \A i \in 1..Len(n) : i <= k => f[i] = q[i]
        BY <1>4, <1>7, <2>2 DEF f
      <3>2. ASSUME NEW i \in 1..Len(n), i > k + 1 PROVE l[i - (k + 1)] = q[i - 1]
        <4>1. i - (k + 1) \in 1..(Len(q) - k) /\ k + (i - (k + 1)) = i - 1
          BY <1>1, <1>4, <2>2, <3>2
        <4> QED
          BY <1>8, <4>1 DEF l
      <3> QED
        BY <3>1, <3>2
    <2> HIDE DEF f, l, n
    <2>5. ASSUME NEW i \in 1..Len(n)
          PROVE  n[i] = IF i <= k THEN q[i] ELSE IF i = k + 1 THEN r ELSE q[i - 1]
      <3>1. i \in Nat /\ (i <= k \/ i = k + 1 \/ (~(i <= k) /\ i # k + 1 /\ i > k + 1))
        BY <1>4, <2>2
      <3>2. CASE i <= k
        BY <2>3, <2>4, <3>2
      <3>3. CASE i = k + 1
        BY <1>4, <2>3, <3>3
      <3>4. CASE ~(i <= k) /\ i # k + 1 /\ i > k + 1
        BY <2>3, <2>4, <3>4
      <3> QED
        BY <3>1, <3>2, <3>3, <3>4
    <2> HIDE DEF k
    <2> QED
      BY <2>2, <2>5
  <1> HIDE DEF n
  <1>10. ASSUME NEW i \in 1..Len(n), NEW j \in 1..Len(n), i < j PROVE key[n[i]] < key[n[j]]
    <2>1. \A a, b \in 1..Len(q) : a < b => key[q[a]] < key[q[b]]
      OBVIOUS
    <2>2. CASE j <= k
      <3>1. n[i] = q[i] /\ n[j] = q[j] /\ i \in 1..Len(q) /\ j \in 1..Len(q)
        BY <1>1, <1>4, <1>9, <1>10, <2>2
      <3> QED
        BY <1>10, <2>1, <3>1
    <2>3. CASE j = k + 1
      <3>1. i <= k /\ i \in 1..Len(q)
        BY <1>1, <1>4, <1>10, <2>3
      <3>2. n[i] = q[i] /\ n[j] = r
        BY <1>4, <1>9, <1>10, <2>3, <3>1
      <3>3. key[q[i]] < key[r]
        BY <1>6, <3>1
      <3> QED
        BY <3>2, <3>3
    <2>4. CASE j > k + 1
      <3>1. n[j] = q[j - 1] /\ j - 1 \in 1..Len(q) /\ j - 1 > k
        BY <1>1, <1>4, <1>9, <2>4
      <3>2. CASE i <= k
        <4>1. n[i] = q[i] /\ i \in 1..Len(q) /\ i < j - 1
          BY <1>1, <1>4, <1>9, <3>1, <3>2
        <4> QED
          BY <2>1, <3>1, <4>1
      <3>3. CASE i = k + 1
        <4>1. n[i] = r /\ ~(j - 1 <= k)
          BY <1>1, <1>4, <1>9, <3>1, <3>3
        <4> QED
          BY <1>6, <3>1, <4>1
      <3>4. CASE i > k + 1
        <4>1. n[i] = q[i - 1] /\ i - 1 \in 1..Len(q) /\ i - 1 < j - 1
          BY <1>1, <1>4, <1>9, <1>10, <3>4
        <4> QED
          BY <2>1, <3>1, <4>1
      <3> QED
        BY <1>4, <3>2, <3>3, <3>4
    <2> QED
      BY <1>4, <2>2, <2>3, <2>4
  <1>11. k + 1 \in 1..Len(n) /\ n[k + 1] = r
    BY <1>1, <1>4, <1>9
  <1>12. ASSUME NEW i \in 1..Len(q) PROVE \E j \in 1..Len(n) : n[j] = q[i]
    <2>1. CASE i <= k
      BY <1>1, <1>4, <1>9, <2>1
    <2>2. CASE i > k
      <3>1. i + 1 \in 1..Len(n) /\ n[i + 1] = q[i]
        BY <1>1, <1>4, <1>9, <2>2
      <3> QED
        BY <3>1
    <2> QED
      BY <1>4, <2>1, <2>2
  <1>13. ASSUME NEW i \in 1..Len(n) PROVE n[i] = r \/ \E j \in 1..Len(q) : n[i] = q[j]
    <2>1. CASE i <= k
      BY <1>1, <1>4, <1>9, <2>1
    <2>2. CASE i > k + 1
      <3>1. i - 1 \in 1..Len(q) /\ n[i] = q[i - 1]
        BY <1>1, <1>4, <1>9, <2>2
      <3> QED
        BY <3>1
    <2> QED
      BY <1>4, <1>9, <2>1, <2>2
  <1>14. Slotted(n, q, r, key)
    BY <1>9, <1>10, <1>11, <1>12, <1>13 DEF Slotted
  <1>15. Placing(q, r, key) = n
    BY DEF Placing, n, k, below
  <1> QED
    BY <1>9, <1>14, <1>15

\* Rows of different times, put in the order of their times.
LEMMA OrderedRows ==
  ASSUME NEW S, IsFiniteSet(S), \A r \in S : r.at \in Nat, \A r, q \in S : r.at = q.at => r = q
  PROVE  LET rows == Ordered(S, LAMBDA r : r.at)
         IN  /\ rows \in Seq(S) /\ Len(rows) \in Nat
             /\ \A i, j \in 1..Len(rows) : i < j => rows[i].at < rows[j].at
             /\ \A r \in S : \E i \in 1..Len(rows) : rows[i] = r
             /\ \A i \in 1..Len(rows) : rows[i] \in S
  <1> DEFINE Cut(r, q) == Cardinality({i \in DOMAIN q : q[i].at < r.at})
             Insert(r, q) == SubSeq(q, 1, Cut(r, q)) \o <<r>> \o SubSeq(q, Cut(r, q) + 1, Len(q))
             one(s) == CHOOSE x \in s : TRUE
             Step(s, g) == IF s = {} THEN <<>> ELSE Insert(one(s), g[s \ {one(s)}])
             rows == Ordered(S, LAMBDA r : r.at)
  <1>1. rows = (CHOOSE g : g = [s \in SUBSET S |-> Step(s, g)])[S]
    BY DEF Ordered, FoldSet, MapThenFoldSet
  <1> HIDE DEF rows
  <1>2. \A r \in S, q \in Seq(S) : Insert(r, q) \in Seq(S)
    <2> SUFFICES ASSUME NEW r \in S, NEW q \in Seq(S) PROVE Insert(r, q) \in Seq(S)
      OBVIOUS
    <2> DEFINE below == {i \in DOMAIN q : q[i].at < r.at}
               k == Cardinality(below)
    <2>1. k \in 0..Len(q)
      <3>1. below \in SUBSET (1..Len(q))
        OBVIOUS
      <3>2. IsFiniteSet(1..Len(q)) /\ Cardinality(1..Len(q)) = Len(q)
        <4>1. Len(q) \in Nat /\ Len(q) \in Int /\ 1 \in Int
          OBVIOUS
        <4>2. /\ IsFiniteSet(1..Len(q))
              /\ Cardinality(1..Len(q)) = IF 1 > Len(q) THEN 0 ELSE Len(q) - 1 + 1
          BY <4>1, FS_Interval, Zenon
        <4> QED
          BY <4>1, <4>2
      <3> HIDE DEF below
      <3>3. IsFiniteSet(below) /\ Cardinality(below) <= Cardinality(1..Len(q))
        BY <3>1, <3>2, FS_Subset
      <3>4. Cardinality(below) \in Nat
        BY <3>3, FS_CardinalityType
      <3> QED
        BY <3>2, <3>3, <3>4
    <2>2. Insert(r, q) = SubSeq(q, 1, k) \o <<r>> \o SubSeq(q, k + 1, Len(q))
      OBVIOUS
    <2> HIDE DEF k, Insert
    <2>3. SubSeq(q, 1, k) \in Seq(S) /\ SubSeq(q, k + 1, Len(q)) \in Seq(S) /\ <<r>> \in Seq(S)
      BY <2>1
    <2> QED
      BY <2>2, <2>3
  <1> DEFINE Rising(s, q) ==
        /\ q \in Seq(S)
        /\ \A i, j \in 1..Len(q) : i < j => q[i].at < q[j].at
        /\ \A r \in s : \E i \in 1..Len(q) : q[i] = r
        /\ \A i \in 1..Len(q) : q[i] \in s
  <1>3. ASSUME NEW s \in SUBSET S, NEW r \in s, NEW q, Rising(s \ {r}, q)
        PROVE  Rising(s, Insert(r, q))
    <2> DEFINE key == [x \in S |-> x.at]
               n == Placing(q, r, key)
    <2>1. /\ q \in Seq(S) /\ r \in S /\ (\A x \in S : key[x] = x.at /\ key[x] \in Nat)
          /\ \A i \in 1..Len(q) : q[i] \in S
      BY <1>3
    <2>2. n = Insert(r, q)
      <3>1. {i \in DOMAIN q : q[i].at < r.at} = {i \in 1..Len(q) : key[q[i]] < key[r]}
        <4> HIDE DEF key
        <4> QED
          BY <2>1
      <3> QED
        BY <3>1, Zenon DEF Placing
    <2>3. /\ \A i, j \in 1..Len(q) : i < j => key[q[i]] < key[q[j]]
          /\ \A i \in 1..Len(q) : key[q[i]] # key[r]
      BY <1>3, <2>1
    <2> HIDE DEF key
    <2> HIDE DEF n, Insert
    <2>4. n \in Seq(S) /\ Slotted(n, q, r, key)
      BY <2>1, <2>3, PutInOrder DEF n
    <2>5. \A i, j \in 1..Len(n) : i < j => n[i].at < n[j].at
      BY <2>1, <2>4 DEF Slotted
    <2>6. ASSUME NEW x \in s PROVE \E i \in 1..Len(n) : n[i] = x
      <3>1. CASE x = r
        BY <2>4, <3>1 DEF Slotted
      <3>2. CASE x # r
        <4>1. PICK i \in 1..Len(q) : q[i] = x
          BY <1>3, <3>2
        <4> QED
          BY <2>4, <4>1 DEF Slotted
      <3> QED
        BY <3>1, <3>2
    <2>7. \A i \in 1..Len(n) : n[i] \in s
      BY <1>3, <2>4 DEF Slotted
    <2> QED
      BY <2>2, <2>4, <2>5, <2>6, <2>7
  <1> HIDE DEF Insert
  <1>4. \E g : g = [s \in SUBSET S |-> Step(s, g)]
    <2> DEFINE op == [p \in S \X Seq(S) |-> Insert(p[1], p[2])]
    <2>1. op \in [S \X Seq(S) -> Seq(S)] /\ <<>> \in Seq(S)
      BY <1>2
    <2>2. \A r \in S, q \in Seq(S) : op[<<r, q>>] = Insert(r, q)
      OBVIOUS
    <2> HIDE DEF op
    <2>3. PICK g \in [SUBSET S -> Seq(S)] : \A s \in SUBSET S : FoldsAt(S, <<>>, op, g, s)
      BY <2>1, FoldExists
    <2>4. \A s \in SUBSET S : g[s] = Step(s, g)
      <3> SUFFICES ASSUME NEW s \in SUBSET S PROVE g[s] = Step(s, g)
        OBVIOUS
      <3>1. s # {} => one(s) \in S /\ g[s \ {one(s)}] \in Seq(S)
        <4>1. s # {} => one(s) \in s
          OBVIOUS
        <4> HIDE DEF one
        <4> QED
          BY <4>1
      <3>2. g[s] = IF s = {} THEN <<>> ELSE op[<<one(s), g[s \ {one(s)}]>>]
        BY <2>3 DEF FoldsAt
      <3> HIDE DEF one
      <3> QED
        BY <2>2, <3>1, <3>2
    <2> HIDE DEF Step
    <2> QED
      BY <2>4
  <1>5. PICK g : g = [s \in SUBSET S |-> Step(s, g)] /\ rows = g[S]
    <2> HIDE DEF Step
    <2> QED
      BY <1>1, <1>4
  <1>6. \A s \in SUBSET S : g[s] = Step(s, g)
    <2> HIDE DEF Step
    <2> QED
      BY <1>5
  <1> DEFINE d == [s \in SUBSET S |-> IF Rising(s, g[s]) THEN 1 ELSE 0]
             X == {1}
  <1>7. \A s \in SUBSET S : d[s] \in X
    <2>1. d[{}] \in X
      <3>1. g[{}] = <<>>
        BY <1>6
      <3>2. Rising({}, <<>>)
        OBVIOUS
      <3> HIDE DEF Rising
      <3> QED
        BY <3>1, <3>2
    <2>2. \A s \in SUBSET S : s # {} => \E x \in s : d[s \ {x}] \in X => d[s] \in X
      <3> SUFFICES ASSUME NEW s \in SUBSET S, s # {}
                   PROVE  \E x \in s : d[s \ {x}] \in X => d[s] \in X
        OBVIOUS
      <3>1. one(s) \in s /\ g[s] = Insert(one(s), g[s \ {one(s)}])
        BY <1>6
      <3> HIDE DEF one, Rising
      <3>2. CASE Rising(s \ {one(s)}, g[s \ {one(s)}])
        BY <1>3, <3>1, <3>2
      <3>3. CASE ~Rising(s \ {one(s)}, g[s \ {one(s)}])
        BY <3>1, <3>3
      <3> QED
        BY <3>2, <3>3
    <2> HIDE DEF d, X
    <2> QED
      BY <2>1, <2>2, FoldStays, Zenon
  <1>8. Rising(S, rows)
    <2>1. d[S] = 1
      BY <1>7
    <2> HIDE DEF Rising
    <2> QED
      BY <1>5, <2>1
  <1> QED
    BY <1>8 DEF rows

-----------------------------------------------------------------------------
(* Hours. *)

IsHour(h) == \E k \in Int : h = k * HourS

\* A time lies in its hour.
LEMMA HourIs ==
  ASSUME NEW t \in Int
  PROVE  /\ HourS \in Nat /\ Minute <= HourS
         /\ HourOf(t) \in Int /\ IsHour(HourOf(t))
         /\ HourOf(t) <= t /\ t < HourOf(t) + HourS
         /\ (t \in Nat => HourOf(t) \in Nat)
  <1> DEFINE H == HourS
             q == t \div H
  <1>1. H \in Nat /\ Minute <= H
    BY PriceAssumption DEF HourS, Minute
  <1>2. H > 0
    BY <1>1 DEF Minute
  <1> HIDE DEF H
  <1>3. q \in Int /\ q * H <= t /\ t < q * H + H
    BY <1>1, <1>2, Z3
  <1>4. t \in Nat => q \in Nat
    BY <1>1, <1>2, Z3
  <1>5. HourOf(t) = q * H
    BY DEF HourOf, H
  <1> HIDE DEF q
  <1>6. q * H \in Int /\ (q \in Nat => q * H \in Nat)
    BY <1>1, <1>3
  <1> QED
    BY <1>1, <1>3, <1>4, <1>5, <1>6 DEF IsHour, H

\* Of two hours the later begins when the earlier has ended.
LEMMA HoursApart ==
  ASSUME NEW g, NEW h, IsHour(g), IsHour(h)
  PROVE  g \in Int /\ h \in Int /\ (g < h => g + HourS <= h)
  <1> DEFINE H == HourS
  <1>1. H \in Nat /\ H > 0
    BY PriceAssumption DEF HourS, Minute
  <1> HIDE DEF H
  <1>2. PICK k \in Int, l \in Int : g = k * H /\ h = l * H
    BY DEF IsHour, H
  <1>3. g \in Int /\ h \in Int
    BY <1>1, <1>2
  <1>4. ASSUME k * H < l * H PROVE k * H + H <= l * H
    <2>1. k < l
      BY <1>1, <1>4, Z3
    <2>2. (k + 1) * H <= l * H
      BY <1>1, <2>1, Z3
    <2>3. (k + 1) * H = k * H + H
      BY <1>1, Z3
    <2> QED
      BY <2>2, <2>3
  <1> QED
    BY <1>2, <1>3, <1>4 DEF H

\* The hour of an hour is itself, and later times have no earlier hour.
LEMMA HourOfHour ==
  ASSUME NEW h, IsHour(h)
  PROVE  HourOf(h) = h
  <1>1. h \in Int
    BY HoursApart
  <1>2. HourOf(h) \in Int /\ HourS \in Nat /\ IsHour(HourOf(h)) /\ HourOf(h) <= h /\ h < HourOf(h) + HourS
    BY <1>1, HourIs
  <1>3. HourOf(h) < h => HourOf(h) + HourS <= h
    BY <1>2, HoursApart
  <1> QED
    BY <1>1, <1>2, <1>3

LEMMA HoursGrow ==
  ASSUME NEW s \in Int, NEW t \in Int, s <= t
  PROVE  HourOf(s) <= HourOf(t)
  <1>1. /\ HourOf(s) \in Int /\ IsHour(HourOf(s)) /\ HourOf(s) <= s
        /\ HourOf(t) \in Int /\ IsHour(HourOf(t)) /\ t < HourOf(t) + HourS /\ HourS \in Nat
    BY HourIs
  <1>2. HourOf(t) < HourOf(s) => HourOf(t) + HourS <= HourOf(s)
    BY <1>1, HoursApart
  <1> QED
    BY <1>1, <1>2

-----------------------------------------------------------------------------
(* One hour of the fold. *)

LEMMA GreatestMax ==
  ASSUME NEW S \in SUBSET Nat, IsFiniteSet(S), S # {}
  PROVE  Max(S) \in S /\ \A x \in S : x <= Max(S)
  <1> DEFINE Topped(s) == s = {} \/ \E m \in s : \A x \in s : x <= m
             d == [s \in SUBSET S |-> IF Topped(s) THEN 1 ELSE 0]
             X == {1}
  <1>1. d[{}] \in X
    OBVIOUS
  <1>2. \A s \in SUBSET S : s # {} => \E x \in s : d[s \ {x}] \in X => d[s] \in X
    <2> SUFFICES ASSUME NEW s \in SUBSET S, NEW y \in s, Topped(s \ {y})
                 PROVE  Topped(s)
      BY Zenon
    <2>1. CASE s \ {y} = {}
      <3>1. \A x \in s : x <= y
        BY <2>1
      <3> QED
        BY <3>1
    <2>2. CASE s \ {y} # {}
      <3>1. PICK m \in s \ {y} : \A x \in s \ {y} : x <= m
        BY <2>2
      <3>2. CASE m <= y
        <4>1. \A x \in s : x <= y
          BY <3>1, <3>2
        <4> QED
          BY <4>1
      <3>3. CASE ~(m <= y)
        <4>1. \A x \in s : x <= m
          BY <3>1, <3>3
        <4> QED
          BY <3>1, <4>1
      <3> QED
        BY <3>2, <3>3
    <2> QED
      BY <2>1, <2>2
  <1>3. \A s \in SUBSET S : d[s] \in X
    <2> HIDE DEF d, X
    <2> QED
      BY <1>1, <1>2, FoldStays, Zenon
  <1>4. PICK m \in S : \A x \in S : x <= m
    <2>1. d[S] = 1 /\ S \in SUBSET S
      BY <1>3
    <2>2. Topped(S)
      <3> HIDE DEF Topped
      <3> QED
        BY <2>1
    <2> QED
      BY <2>2
  <1>5. S \subseteq Int
    OBVIOUS
  <1>6. Max(S) = m
    BY <1>4, <1>5, MaxIs
  <1> QED
    BY <1>4, <1>6

\* The four prices of r are those of the rows in `in`.
ShowsOnly(r, rows, in) ==
  \A v \in {r.open, r.high, r.low, r.close} : \E i \in in : rows[i].price = v

LEMMA HourIsOf ==
  ASSUME NEW rows, NEW n \in Nat, NEW in \in SUBSET (1..n), in # {}, NEW h,
         \A i \in in : rows[i].price \in Nat
  PROVE  ShowsOnly(Hour(rows, in, h), rows, in)
  <1> DEFINE prices == {rows[i].price : i \in in}
             f == [i \in in |-> rows[i].price]
  <1>1. /\ Hour(rows, in, h).open = rows[Min(in)].price
        /\ Hour(rows, in, h).close = rows[Max(in)].price
        /\ Hour(rows, in, h).high = Max(prices)
        /\ Hour(rows, in, h).low = Min(prices)
    BY Zenon DEF Hour
  <1>2. Min(in) \in in
    <2>1. in \in SUBSET Nat
      OBVIOUS
    <2> QED
      BY <2>1, LeastMin
  <1>3. Max(in) \in in
    <2>1. in \in SUBSET (0..n)
      OBVIOUS
    <2> QED
      BY <2>1, BoundedMax
  <1>4. IsFiniteSet(prices) /\ prices # {} /\ prices \in SUBSET Nat
    <2>1. IsFiniteSet(1..n)
      <3>1. 1 \in Int /\ n \in Int
        OBVIOUS
      <3> QED
        BY <3>1, FS_Interval
    <2>2. IsFiniteSet(in) /\ DOMAIN f = in
      BY <2>1, FS_Subset
    <2>3. prices = {f[i] : i \in DOMAIN f}
      OBVIOUS
    <2>4. prices # {} /\ prices \in SUBSET Nat
      OBVIOUS
    <2> HIDE DEF prices, f
    <2> QED
      BY <2>2, <2>3, <2>4, RangeFinite
  <1>5. Max(prices) \in prices /\ Min(prices) \in prices
    <2> HIDE DEF prices
    <2> QED
      BY <1>4, GreatestMax, LeastMin
  <1>6. \A v \in prices : \E i \in in : rows[i].price = v
    OBVIOUS
  <1> HIDE DEF prices
  <1> QED
    BY <1>1, <1>2, <1>3, <1>5, <1>6 DEF ShowsOnly

-----------------------------------------------------------------------------
(* The fold. *)

\* The interval at a is read by the fold from cut on.
Reads(a, cut) ==
  a < HourOf(now) /\ (cut # None => points[a].until >= ReachBack(HourOf(cut)))

RowsRead(cut) ==
  Ordered({r \in Range(points) : r.at < HourOf(now) /\ (cut # None => r.until >= ReachBack(HourOf(cut)))},
          LAMBDA r : r.at)

\* The rows that reach the hour h.
InHour(rows, h) ==
  {i \in DOMAIN rows : /\ rows[i].at < h + HourS
                       /\ Sooner(StoodUntil(rows, i), HourOf(now) - 1) >= Later(h, rows[i].at)}

ReadInOrder(rows, cut) ==
  /\ Len(rows) \in Nat /\ DOMAIN rows = 1..Len(rows)
  /\ \A i \in 1..Len(rows) : /\ rows[i].at \in Ats /\ rows[i] = points[rows[i].at]
                             /\ Reads(rows[i].at, cut)
  /\ \A i, j \in 1..Len(rows) : i < j => rows[i].at < rows[j].at
  /\ \A a \in Ats : Reads(a, cut) => \E i \in 1..Len(rows) : rows[i].at = a

LEMMA RowsReadAre ==
  ASSUME NEW cut, now \in Nat, Series(points, now)
  PROVE  ReadInOrder(RowsRead(cut), cut)
  <1> DEFINE read == {r \in Range(points) :
                        r.at < HourOf(now) /\ (cut # None => r.until >= ReachBack(HourOf(cut)))}
             rows == RowsRead(cut)
  <1>1. /\ DOMAIN points \in SUBSET (0..now)
        /\ \A a \in DOMAIN points : points[a].at = a /\ a \in Nat
    BY DEF Series
  <1>2. IsFiniteSet(DOMAIN points)
    <2>1. IsFiniteSet(0..now)
      BY FS_Interval
    <2> QED
      BY <1>1, <2>1, FS_Subset
  <1>3. /\ \A r \in read : r.at \in DOMAIN points /\ r = points[r.at] /\ Reads(r.at, cut)
        /\ \A a \in DOMAIN points : Reads(a, cut) => points[a] \in read
    BY <1>1 DEF Range, Reads
  <1>4. IsFiniteSet(read)
    <2>1. IsFiniteSet(Range(points))
      BY <1>2, RangeFinite DEF Range
    <2> QED
      BY <2>1, FS_Subset
  <1>5. rows = Ordered(read, LAMBDA r : r.at)
    BY DEF RowsRead
  <1> HIDE DEF read, rows
  <1>6. /\ \A r \in read : r.at \in Nat
        /\ \A r, q \in read : r.at = q.at => r = q
    BY <1>1, <1>3
  <1>7. /\ rows \in Seq(read) /\ Len(rows) \in Nat
        /\ \A i, j \in 1..Len(rows) : i < j => rows[i].at < rows[j].at
        /\ \A r \in read : \E i \in 1..Len(rows) : rows[i] = r
        /\ \A i \in 1..Len(rows) : rows[i] \in read
    BY <1>4, <1>5, <1>6, OrderedRows
  <1>8. DOMAIN rows = 1..Len(rows)
    BY <1>7
  <1>9. \A i \in 1..Len(rows) : /\ rows[i].at \in Ats /\ rows[i] = points[rows[i].at]
                                /\ Reads(rows[i].at, cut)
    BY <1>3, <1>7 DEF Ats
  <1>10. ASSUME NEW a \in Ats, Reads(a, cut) PROVE \E i \in 1..Len(rows) : rows[i].at = a
    <2>1. points[a] \in read /\ points[a].at = a
      BY <1>1, <1>3, <1>10 DEF Ats
    <2> QED
      BY <1>7, <2>1
  <1> QED
    BY <1>7, <1>8, <1>9, <1>10 DEF ReadInOrder, rows

\* The interval at a stood in the hour h, in the series ps.
Standing(ps, a, h) ==
  /\ a < h + HourS
  /\ \/ h <= ps[a].until
     \/ (\E b \in DOMAIN ps : a < b) /\ \A b \in DOMAIN ps : a < b => h < b
     \/ (\A b \in DOMAIN ps : b <= a) /\ h <= ps[a].until + Minute

\* What the fold needs to know of the series.
Laid ==
  /\ DOMAIN points \subseteq Nat
  /\ \A a \in DOMAIN points : /\ points[a].until \in Nat /\ a <= points[a].until
                              /\ points[a].at = a /\ points[a].price \in Nat
  /\ \A a, b \in DOMAIN points : a < b => points[a].until <= b

\* A row that reaches an hour stood in it, and is one that the hour follows within
\* a minute.
LEMMA StandingIn ==
  ASSUME NEW cut \in Int, now \in Nat, Laid, NEW rows, ReadInOrder(rows, cut),
         NEW h \in Nat, h < HourOf(now), NEW i \in InHour(rows, h)
  PROVE  /\ rows[i].at \in Ats /\ Standing(points, rows[i].at, h)
         /\ \E z \in Ats : z < HourOf(now) /\ h <= points[z].until + Minute
  <1> DEFINE a == rows[i].at
             u == StoodUntil(rows, i)
             top == HourOf(now)
             back == ReachBack(HourOf(cut))
  <1>1. /\ i \in 1..Len(rows) /\ Len(rows) \in Nat /\ a < h + HourS
        /\ Sooner(u, top - 1) >= Later(h, a)
    BY DEF InHour, ReadInOrder
  <1>2. a \in Ats /\ rows[i] = points[a] /\ Reads(a, cut)
    BY <1>1 DEF ReadInOrder
  <1>3. top \in Int /\ back \in Int
    BY HourIs DEF ReachBack
  <1>4. a \in Nat /\ points[a].until \in Nat /\ a <= points[a].until /\ a < top
    BY <1>2 DEF Laid, Ats, Reads
  <1>5. u \in Int /\ (u >= h)
    <2>1. u \in Int
      <3>1. i < Len(rows) => rows[i + 1].at \in Nat
        BY <1>1 DEF ReadInOrder, Laid, Ats
      <3> QED
        BY <1>2, <1>4, <3>1 DEF StoodUntil, Later, Minute
    <2> HIDE DEF u, a, top
    <2> QED
      BY <1>1, <1>3, <1>4, <2>1 DEF Sooner, Later
  <1>6. \A b \in Ats : a < b /\ ~Reads(b, cut) => h < b
    <2> SUFFICES ASSUME NEW b \in Ats, a < b, ~Reads(b, cut) PROVE h < b
      OBVIOUS
    <2>1. b \in Nat /\ points[a].until <= points[b].until /\ points[b].until \in Nat
      BY <1>2, <1>4 DEF Laid, Ats
    <2>2. ~(b < top)
      BY <1>2, <1>3, <1>4, <2>1 DEF Reads
    <2> QED
      BY <1>3, <2>1, <2>2
  <1>7. CASE i < Len(rows)
    <2> DEFINE b == rows[i + 1].at
    <2>1. i + 1 \in 1..Len(rows) /\ b \in Ats /\ a < b /\ Reads(b, cut) /\ b \in Nat
      <3>1. i + 1 \in 1..Len(rows) /\ i < i + 1
        BY <1>1, <1>7
      <3> QED
        BY <1>1, <3>1 DEF ReadInOrder, Laid, Ats
    <2>2. u = Later(points[a].until, b - 1)
      BY <1>2, <1>7 DEF StoodUntil
    <2>3. \A c \in Ats : a < c /\ Reads(c, cut) => b <= c
      <3> SUFFICES ASSUME NEW c \in Ats, a < c, Reads(c, cut) PROVE b <= c
        OBVIOUS
      <3>1. PICK j \in 1..Len(rows) : rows[j].at = c
        BY DEF ReadInOrder
      <3>2. c \in Nat /\ a \in Nat
        BY <1>4 DEF Laid, Ats
      <3>3. ~(j <= i)
        <4>1. j # i
          BY <3>1, <3>2
        <4>2. j < i => c < a
          BY <1>1, <3>1 DEF ReadInOrder
        <4> QED
          BY <1>1, <3>1, <3>2, <4>1, <4>2
      <3>4. j = i + 1 \/ i + 1 < j
        BY <1>1, <3>1, <3>3
      <3>5. i + 1 < j => b < c
        BY <2>1, <3>1 DEF ReadInOrder
      <3> QED
        BY <2>1, <3>1, <3>2, <3>4, <3>5
    <2>4. points[b].until \in Nat /\ b <= points[b].until /\ b < top
      BY <2>1 DEF Laid, Ats, Reads
    <2>5. CASE h <= points[a].until
      <3>1. h <= points[a].until + Minute
        BY <1>4, <2>5 DEF Minute
      <3> QED
        BY <1>1, <1>2, <1>4, <2>5, <3>1 DEF Standing
    <2>6. CASE ~(h <= points[a].until)
      <3> HIDE DEF u, b
      <3>1. h <= b - 1
        BY <1>4, <1>5, <2>1, <2>2, <2>6 DEF Later
      <3>2. \A c \in Ats : a < c => h < c
        <4> SUFFICES ASSUME NEW c \in Ats, a < c PROVE h < c
          OBVIOUS
        <4>1. c \in Nat
          BY DEF Laid, Ats
        <4>2. CASE Reads(c, cut)
          BY <2>1, <2>3, <3>1, <4>1, <4>2
        <4>3. CASE ~Reads(c, cut)
          BY <1>6, <4>3
        <4> QED
          BY <4>2, <4>3
      <3>3. h <= points[b].until + Minute
        BY <2>1, <2>4, <3>1 DEF Minute
      <3> QED
        BY <1>1, <1>2, <2>1, <2>4, <3>2, <3>3 DEF Standing, Ats
    <2> QED
      BY <2>5, <2>6
  <1>8. CASE ~(i < Len(rows))
    <2>1. u = points[a].until + Minute
      BY <1>2, <1>8 DEF StoodUntil
    <2>2. h <= points[a].until + Minute
      <3> HIDE DEF u
      <3> QED
        BY <1>4, <1>5, <2>1 DEF Minute
    <2>3. \A c \in Ats : a < c => h < c
      <3> SUFFICES ASSUME NEW c \in Ats, a < c, Reads(c, cut) PROVE FALSE
        BY <1>6
      <3>1. PICK j \in 1..Len(rows) : rows[j].at = c
        BY DEF ReadInOrder
      <3>2. c \in Nat
        BY DEF Laid, Ats
      <3>3. j = i \/ j < i
        BY <1>1, <1>8, <3>1
      <3>4. j < i => c < a
        BY <1>1, <3>1 DEF ReadInOrder
      <3> QED
        BY <1>4, <3>1, <3>2, <3>3, <3>4
    <2>4. CASE \E c \in Ats : a < c
      BY <1>1, <1>2, <1>4, <2>2, <2>3, <2>4 DEF Standing, Ats
    <2>5. CASE ~\E c \in Ats : a < c
      <3>1. \A c \in Ats : c <= a
        BY <1>4, <2>5 DEF Laid, Ats
      <3> QED
        BY <1>1, <1>2, <1>4, <2>2, <3>1 DEF Standing, Ats
    <2> QED
      BY <2>4, <2>5
  <1> QED
    BY <1>7, <1>8

\* An hour that some interval reaches is reached by the last one read that began
\* before its end.
LEMMA FilledIn ==
  ASSUME NEW cut \in Int, now \in Nat, Laid, NEW rows, ReadInOrder(rows, cut),
         NEW h \in Nat, h + HourS <= HourOf(now),
         NEW a \in Ats, a < h + HourS, \A b \in Ats : b < h + HourS => b <= a, Reads(a, cut),
         \E z \in Ats : z < HourOf(now) /\ h <= points[z].until + Minute
  PROVE  InHour(rows, h) # {}
  <1> DEFINE top == HourOf(now)
  <1>1. top \in Int /\ HourS \in Nat /\ Minute <= HourS /\ HourOf(cut) \in Int
    BY HourIs
  <1>2. PICK i \in 1..Len(rows) : rows[i].at = a
    BY DEF ReadInOrder
  <1>3. rows[i] = points[a] /\ i \in DOMAIN rows /\ Len(rows) \in Nat
    BY <1>2 DEF ReadInOrder
  <1>4. a \in Nat /\ points[a].until \in Nat /\ a <= points[a].until /\ a < top
    BY DEF Laid, Ats, Reads
  <1>5. StoodUntil(rows, i) \in Int /\ h <= StoodUntil(rows, i) /\ a <= StoodUntil(rows, i)
    <2>1. CASE i < Len(rows)
      <3> DEFINE b == rows[i + 1].at
      <3>1. i + 1 \in 1..Len(rows) /\ i < i + 1
        BY <1>3, <2>1
      <3>2. b \in Ats /\ a < b /\ b \in Nat
        BY <1>2, <3>1 DEF ReadInOrder, Laid, Ats
      <3>3. StoodUntil(rows, i) = Later(points[a].until, b - 1)
        BY <1>3, <2>1 DEF StoodUntil
      <3> HIDE DEF b
      <3>4. ~(b < h + HourS)
        BY <1>4, <3>2
      <3> QED
        BY <1>1, <1>4, <3>2, <3>3, <3>4 DEF Later, Minute
    <2>2. CASE ~(i < Len(rows))
      <3>1. StoodUntil(rows, i) = points[a].until + Minute
        BY <1>3, <2>2 DEF StoodUntil
      <3>2. PICK z \in Ats : z < top /\ h <= points[z].until + Minute
        OBVIOUS
      <3>3. z \in Nat /\ points[z].until \in Nat /\ z <= points[z].until
        BY DEF Laid, Ats
      <3>4. CASE z <= a
        <4>1. points[z].until <= points[a].until
          <5>1. z = a \/ z < a
            BY <1>4, <3>3, <3>4
          <5>2. z < a => points[z].until <= a
            BY DEF Laid, Ats
          <5> QED
            BY <1>4, <3>3, <5>1, <5>2
        <4> DEFINE u == StoodUntil(rows, i)
                   to == points[a].until
        <4>2. u = to + 60 /\ to \in Nat /\ a <= to /\ h <= points[z].until + 60
              /\ points[z].until <= to /\ points[z].until \in Nat
          BY <1>4, <3>1, <3>2, <3>3, <4>1 DEF Minute
        <4> HIDE DEF u, to
        <4>3. u \in Int /\ h <= u /\ a <= u
          BY <1>4, <4>2
        <4> QED
          BY <4>3 DEF u
      <3>5. CASE ~(z <= a)
        <4>1. a < z /\ points[a].until <= z
          BY <1>4, <3>3, <3>5 DEF Laid, Ats
        <4>2. Reads(z, cut)
          <5>1. points[a].until <= points[z].until
            BY <1>4, <3>3, <4>1
          <5>2. ReachBack(HourOf(cut)) \in Int
            BY <1>1 DEF ReachBack
          <5>3. cut # None => points[a].until >= ReachBack(HourOf(cut))
            BY DEF Reads
          <5> HIDE DEF top
          <5>4. cut # None => points[z].until >= ReachBack(HourOf(cut))
            BY <1>4, <3>3, <5>1, <5>2, <5>3
          <5> QED
            BY <3>2, <5>4 DEF Reads, top
        <4>3. PICK j \in 1..Len(rows) : rows[j].at = z
          BY <4>2 DEF ReadInOrder
        <4>4. j < i \/ j = i
          BY <1>3, <2>2
        <4>5. j < i => z < a
          BY <1>2, <4>3 DEF ReadInOrder
        <4> QED
          BY <1>2, <1>4, <3>3, <4>1, <4>3, <4>4, <4>5
      <3> QED
        BY <3>4, <3>5
    <2> QED
      BY <2>1, <2>2
  <1>6. Sooner(StoodUntil(rows, i), top - 1) >= Later(h, rows[i].at)
    <2> DEFINE u == StoodUntil(rows, i)
    <2>1. u \in Int /\ h <= u /\ a <= u /\ h <= top - 1 /\ a <= top - 1
      BY <1>1, <1>4, <1>5 DEF Minute
    <2> HIDE DEF u, top
    <2> QED
      BY <1>1, <1>2, <1>4, <2>1 DEF Sooner, Later, u
  <1>7. i \in InHour(rows, h)
    BY <1>2, <1>3, <1>6 DEF InHour
  <1> QED
    BY <1>7

\* The figures r of the hour h are prices that stood in it.
Clean(ps, r, h) ==
  \A v \in {r.open, r.high, r.low, r.close} :
    \E a \in DOMAIN ps : Standing(ps, a, h) /\ ps[a].price = v

\* A finished hour that an interval from before this hour reaches.
Reached(h) == \E z \in Ats : z < HourOf(now) /\ h <= points[z].until + Minute

\* The last interval that began before the end of h is read.
ReadFor(h, cut) ==
  \E a \in Ats : a < h + HourS /\ (\A b \in Ats : b < h + HourS => b <= a) /\ Reads(a, cut)

\* What a fold from cut on writes: hours of prices that stood in them, and all
\* that are reached.
Rolled(new, cut) ==
  /\ \A h \in DOMAIN new : /\ h \in Nat /\ IsHour(h) /\ h + HourS <= HourOf(now)
                           /\ Clean(points, new[h], h) /\ Reached(h)
  /\ \A h \in Nat : /\ IsHour(h) /\ h + HourS <= HourOf(now)
                    /\ (cut # None => HourOf(cut) <= h)
                    /\ Reached(h) /\ ReadFor(h, cut)
                    => h \in DOMAIN new

LEMMA RollUpIs ==
  ASSUME NEW cut \in Int, now \in Nat, Series(points, now)
  PROVE  Rolled(RollUp(cut), cut)
  <1> DEFINE rows == RowsRead(cut)
             over == {h \in {HourOf(t) : t \in 0..(now - 1)} :
                        /\ h < HourOf(now) /\ (cut # None => h >= HourOf(cut))
                        /\ InHour(rows, h) # {}}
             new == RollUp(cut)
  <1>1. new = [h \in over |-> Hour(rows, InHour(rows, h), h)]
    BY Zenon DEF RollUp, RowsRead, InHour
  <1>2. ReadInOrder(rows, cut)
    BY RowsReadAre
  <1>3. Laid
    BY PriceAssumption DEF Laid, Series, PriceInterval
  <1>4. HourOf(now) \in Int /\ IsHour(HourOf(now)) /\ HourOf(now) <= now /\ HourS \in Nat
        /\ HourOf(cut) \in Int /\ HourS >= 60
    BY HourIs DEF Minute
  <1> HIDE DEF rows
  <1>5. ASSUME NEW h \in over
        PROVE  /\ h \in Nat /\ IsHour(h) /\ h + HourS <= HourOf(now)
               /\ Clean(points, new[h], h) /\ Reached(h)
    <2> DEFINE in == InHour(rows, h)
    <2>1. PICK t \in 0..(now - 1) : h = HourOf(t)
      OBVIOUS
    <2>2. h \in Nat /\ IsHour(h) /\ h < HourOf(now) /\ in # {}
      <3>1. t \in Nat
        OBVIOUS
      <3> QED
        BY <2>1, <3>1, HourIs
    <2>3. h + HourS <= HourOf(now)
      BY <1>4, <2>2, HoursApart
    <2>4. new[h] = Hour(rows, in, h)
      BY <1>1
    <2> HIDE DEF over
    <2>5. \A i \in in : /\ rows[i].at \in Ats /\ Standing(points, rows[i].at, h)
                        /\ \E z \in Ats : z < HourOf(now) /\ h <= points[z].until + Minute
      BY <1>2, <1>3, <2>2, StandingIn
    <2>6. /\ Len(rows) \in Nat /\ in \in SUBSET (1..Len(rows))
          /\ \A i \in in : rows[i] = points[rows[i].at] /\ rows[i].price \in Nat
      <3>1. Len(rows) \in Nat /\ DOMAIN rows = 1..Len(rows)
        BY <1>2 DEF ReadInOrder
      <3>2. in \in SUBSET (1..Len(rows))
        BY <3>1 DEF InHour
      <3>3. ASSUME NEW i \in in PROVE rows[i] = points[rows[i].at] /\ rows[i].price \in Nat
        <4>1. i \in 1..Len(rows)
          BY <3>2
        <4>2. rows[i].at \in Ats /\ rows[i] = points[rows[i].at]
          BY <1>2, <4>1 DEF ReadInOrder
        <4>3. points[rows[i].at].price \in Nat
          BY <1>3, <4>2 DEF Laid, Ats
        <4> QED
          BY <4>2, <4>3, Zenon
      <3> QED
        BY <3>1, <3>2, <3>3
    <2> HIDE DEF in
    <2>7. ShowsOnly(new[h], rows, in)
      <3> DEFINE n == Len(rows)
      <3>1. n \in Nat /\ in \in SUBSET (1..n) /\ in # {} /\ \A i \in in : rows[i].price \in Nat
        BY <2>2, <2>6
      <3> HIDE DEF n
      <3>2. ShowsOnly(Hour(rows, in, h), rows, in)
        BY <3>1, HourIsOf
      <3> QED
        BY <2>4, <3>2, Zenon
    <2>8. ASSUME NEW v \in {new[h].open, new[h].high, new[h].low, new[h].close}
          PROVE  \E a \in DOMAIN points : Standing(points, a, h) /\ points[a].price = v
      <3>1. PICK i \in in : rows[i].price = v
        BY <2>7 DEF ShowsOnly
      <3>2. rows[i].at \in DOMAIN points /\ points[rows[i].at].price = v
        BY <2>5, <2>6, <3>1, Zenon DEF Ats
      <3> QED
        BY <2>5, <3>2
    <2>9. Reached(h)
      BY <2>2, <2>5 DEF in, Reached
    <2> QED
      BY <2>2, <2>3, <2>8, <2>9 DEF Clean
  <1>6. ASSUME NEW h \in Nat, IsHour(h), h + HourS <= HourOf(now),
               cut # None => HourOf(cut) <= h, Reached(h), ReadFor(h, cut)
        PROVE  h \in over
    <2>1. InHour(rows, h) # {}
      <3>1. PICK a \in Ats : a < h + HourS /\ (\A b \in Ats : b < h + HourS => b <= a) /\ Reads(a, cut)
        BY <1>6 DEF ReadFor
      <3> QED
        BY <1>2, <1>3, <1>6, <3>1, FilledIn DEF Reached
    <2>2. HourOf(h) = h
      BY <1>6, HourOfHour
    <2>3. h \in 0..(now - 1) /\ h < HourOf(now)
      BY <1>4, <1>6
    <2>4. cut # None => h >= HourOf(cut)
      BY <1>4, <1>6
    <2> QED
      BY <2>1, <2>2, <2>3, <2>4
  <1>7. DOMAIN new = over
    BY <1>1
  <1> HIDE DEF over, new
  <1> QED
    BY <1>5, <1>6, <1>7 DEF Rolled, new

-----------------------------------------------------------------------------
(* No echo in the hours: the inductive invariant. *)

\* HoursOver hours are over, and reached by the record once it begins before them.
Begun(h) == \E a \in Ats : a < h

HoursOver ==
  \A h \in DOMAIN hours : /\ h \in Nat /\ IsHour(h) /\ h + HourS <= HourOf(now)
                          /\ (Begun(h) => Reached(h))

\* The hours in S are made of prices that stood in them.
CleanIn(S) == \A h \in S : Begun(h) => Clean(points, hours[h], h)

\* Between the echoes and the refold the hours before the first echo are, and the
\* record reaches up to that echo, if it begins before it.
CleanBefore(from) ==
  /\ from \in Nat /\ CleanIn({h \in DOMAIN hours : h < HourOf(from)})
  /\ (\E a \in Ats : a < from) => \E a \in Ats : a < from /\ from <= points[a].until

EchoInv ==
  /\ AnswersInv
  /\ backs = 0 =>
       /\ HoursOver
       /\ pc \in {"sample", "echo", "roll", "prune", "sleep"} => CleanIn(DOMAIN hours)
       /\ pc = "refold" =>
            (echoFrom = None /\ CleanIn(DOMAIN hours)) \/ CleanBefore(echoFrom)

\* The intervals change and the hours do not.
LEMMA OverStays ==
  ASSUME now \in Nat, now' \in Nat, now <= now', Series(points, now), Series(points', now'),
         HoursOver, ReachesAsFar(points, points'), UNCHANGED hours,
         \A h \in DOMAIN hours : Begun(h)' => Begun(h)
  PROVE  HoursOver'
  <1>1. /\ DOMAIN points \subseteq Nat /\ DOMAIN points' \subseteq Nat
        /\ \A a \in DOMAIN points : points[a].until \in Nat
        /\ \A a \in DOMAIN points' : points'[a].until \in Nat /\ a <= points'[a].until
    BY DEF Series, PriceInterval
  <1>2. HourOf(now) \in Int /\ HourOf(now') \in Int /\ HourOf(now) <= HourOf(now') /\ HourS \in Nat
        /\ HourS >= 60
    BY HourIs, HoursGrow DEF Minute
  <1>3. ASSUME NEW h \in DOMAIN hours, Begun(h)' PROVE Reached(h)'
    <2>1. h \in Nat /\ h + HourS <= HourOf(now) /\ Reached(h)
      BY <1>3 DEF HoursOver
    <2>2. PICK z \in DOMAIN points : z < HourOf(now) /\ h <= points[z].until + Minute
      BY <2>1 DEF Reached, Ats
    <2>3. CASE \E b \in DOMAIN points' : b <= z /\ points[z].until <= points'[b].until
      <3>1. PICK b \in DOMAIN points' : b <= z /\ points[z].until <= points'[b].until
        BY <2>3
      <3>2. b < HourOf(now') /\ h <= points'[b].until + Minute
        BY <1>1, <1>2, <2>1, <2>2, <3>1 DEF Minute
      <3> QED
        BY <3>2 DEF Reached, Ats
    <2>4. CASE \A b \in DOMAIN points' : points[z].until <= b
      <3>1. PICK b \in DOMAIN points' : b < h
        BY <1>3 DEF Begun, Ats
      <3>2. b < HourOf(now') /\ h <= points'[b].until + Minute
        BY <1>1, <1>2, <2>1, <2>2, <2>4, <3>1 DEF Minute
      <3> QED
        BY <3>2 DEF Reached, Ats
    <2> QED
      BY <2>3, <2>4 DEF ReachesAsFar
  <1>4. \A h \in DOMAIN hours : h \in Nat /\ IsHour(h) /\ h + HourS <= HourOf(now)
    BY DEF HoursOver
  <1>5. \A h \in DOMAIN hours : h + HourS <= HourOf(now')
    BY <1>2, <1>4
  <1> QED
    BY <1>3, <1>4, <1>5 DEF HoursOver

\* So do the prices that stood in an hour.
LEMMA CleanStays ==
  ASSUME NEW ps, NEW hs, NEW r, NEW h, Clean(ps, r, h),
         \A a \in DOMAIN ps : Standing(ps, a, h) =>
           a \in DOMAIN hs /\ hs[a].price = ps[a].price /\ Standing(hs, a, h)
  PROVE  Clean(hs, r, h)
  <1> SUFFICES ASSUME NEW v \in {r.open, r.high, r.low, r.close}
               PROVE  \E a \in DOMAIN hs : Standing(hs, a, h) /\ hs[a].price = v
    BY DEF Clean
  <1>1. PICK a \in DOMAIN ps : Standing(ps, a, h) /\ ps[a].price = v
    BY DEF Clean
  <1> QED
    BY <1>1

\* A fold is written over the hours on record.
LEMMA FoldWrites ==
  ASSUME NEW new, NEW cut, Rolled(new, cut), HoursOver, hours' = Written(hours, new),
         UNCHANGED <<now, points>>
  PROVE  /\ HoursOver'
         /\ \A h \in DOMAIN hours' :
              \/ h \in DOMAIN new /\ Clean(points', hours'[h], h)
              \/ h \notin DOMAIN new /\ h \in DOMAIN hours /\ hours'[h] = hours[h]
  <1>1. /\ DOMAIN hours' = DOMAIN hours \cup DOMAIN new
        /\ \A h \in DOMAIN new : hours'[h] = new[h]
        /\ \A h \in DOMAIN hours' : h \notin DOMAIN new => hours'[h] = hours[h]
    BY DEF Written
  <1>2. \A h : (Begun(h)' <=> Begun(h)) /\ (Reached(h)' <=> Reached(h))
    BY DEF Begun, Reached, Ats
  <1>3. ASSUME NEW h \in DOMAIN hours'
        PROVE  h \in Nat /\ IsHour(h) /\ h + HourS <= HourOf(now') /\ (Begun(h)' => Reached(h)')
    BY <1>1, <1>2 DEF HoursOver, Rolled
  <1>4. \A h \in DOMAIN hours' : h \in DOMAIN new => Clean(points', hours'[h], h)
    BY <1>1 DEF Rolled
  <1> QED
    BY <1>1, <1>3, <1>4 DEF HoursOver

\* The last interval that began before the end of an hour.
LEMMA LastFor ==
  ASSUME now \in Nat, Series(points, now), NEW h \in Nat, Begun(h)
  PROVE  \E a \in Ats : a < h + HourS /\ \A b \in Ats : b < h + HourS => b <= a
  <1> DEFINE S == {a \in Ats : a < h + HourS}
  <1>1. HourS \in Nat /\ DOMAIN points \subseteq 0..now
    BY HourIs DEF Series
  <1>2. S \in SUBSET (0..now) /\ S # {}
    BY <1>1 DEF Begun, Ats
  <1> HIDE DEF S
  <1>3. PICK a \in S : \A b \in S : b <= a
    BY <1>2, GreatestFound
  <1> QED
    BY <1>3 DEF S

-----------------------------------------------------------------------------
(* No echo in the hours: the steps. *)

\* Whoever stood in an hour before the first interval set aside still does.
LEMMA RejectStanding ==
  ASSUME NEW s, now \in Nat, Series(points, now), SetAside(s), Steady(s),
         NEW m \in DOMAIN s.moved, \A x \in DOMAIN s.moved : m <= x,
         NEW h \in Nat, h + HourS <= m,
         NEW a \in DOMAIN points, Standing(points, a, h)
  PROVE  a \in DOMAIN s.points /\ s.points[a].price = points[a].price /\ Standing(s.points, a, h)
  <1> DEFINE ps == s.points
  <1>1. /\ DOMAIN points \subseteq Nat /\ DOMAIN ps \subseteq DOMAIN points /\ m \in DOMAIN points
        /\ \A b \in DOMAIN points : points[b].until \in Nat
        /\ \A b \in DOMAIN ps : ps[b].until \in Nat /\ b <= ps[b].until
        /\ \A b, c \in DOMAIN ps : b < c => ps[b].until <= c
        /\ StandsBefore(points, ps, m) /\ HourS \in Nat
    <2>1. Series(ps, now) /\ DOMAIN ps \subseteq DOMAIN points /\ m \in DOMAIN points
      BY DEF SetAside
    <2>2. StandsBefore(points, ps, m)
      BY DEF Steady
    <2>3. HourS \in Nat
      BY PriceAssumption DEF HourS, Minute
    <2> HIDE DEF ps
    <2> QED
      BY <2>1, <2>2, <2>3 DEF Series, PriceInterval
  <1> HIDE DEF ps
  <1>2. a < m /\ a < h + HourS /\ h <= m
    BY <1>1 DEF Standing
  <1>3. a \in DOMAIN ps /\ ps[a].price = points[a].price /\ points[a].until <= ps[a].until
    BY <1>1, <1>2 DEF StandsBefore
  <1>4. Standing(ps, a, h)
    <2>1. CASE h <= points[a].until
      <3>1. h <= ps[a].until
        BY <1>1, <1>3, <2>1
      <3> QED
        BY <1>2, <3>1 DEF Standing
    <2>2. CASE \A b \in DOMAIN points : a < b => h < b
      <3>1. \A b \in DOMAIN ps : a < b => h < b
        BY <1>1, <2>2
      <3>2. CASE \E b \in DOMAIN ps : a < b
        BY <1>2, <3>1, <3>2 DEF Standing
      <3>3. CASE ~\E b \in DOMAIN ps : a < b
        <4>1. PICK b \in DOMAIN ps : b < m /\ m <= ps[b].until
          BY <1>1, <1>2, <1>3 DEF StandsBefore
        <4>2. b = a \/ b < a
          BY <1>1, <1>3, <3>3, <4>1
        <4>3. b < a => ps[b].until <= a
          BY <1>1, <1>3, <4>1
        <4>4. h <= ps[a].until
          BY <1>1, <1>2, <1>3, <4>1, <4>2, <4>3
        <4> QED
          BY <1>2, <4>4 DEF Standing
      <3> QED
        BY <3>2, <3>3
    <2>3. CASE \A b \in DOMAIN points : b <= a
      <3>1. m <= a
        BY <1>1, <2>3
      <3> QED
        BY <1>1, <1>2, <3>1
    <2> QED
      BY <2>1, <2>2, <2>3 DEF Standing
  <1> QED
    BY <1>3, <1>4 DEF ps

\* Echoes are set aside: the hours before the first of them show what stood.
LEMMA RejectCleans ==
  ASSUME NEW since, now \in Nat, Answered, HoursOver, CleanIn(DOMAIN hours), RejectEchoes(since),
         UNCHANGED <<now, hours>>
  PROVE  (echoFrom' = None /\ CleanIn(DOMAIN hours)') \/ CleanBefore(echoFrom)'
  <1> DEFINE res == Rejecting(EchoesIn(CheckRows(since)))
  <1>1. SetAside(res) /\ Steady(res)
    BY EchoesSetAside
  <1>2. points' = res.points /\ echoFrom' = IF res.moved = <<>> THEN None ELSE Min(DOMAIN res.moved)
    BY DEF RejectEchoes
  <1> HIDE DEF res
  <1>3. Series(points, now) /\ DOMAIN points \subseteq Nat
    BY DEF Answered, Series
  <1>4. CASE res.moved = <<>>
    <2>1. points' = points /\ echoFrom' = None
      BY <1>1, <1>2, <1>4 DEF Steady
    <2> QED
      BY <2>1 DEF CleanIn, Begun, Ats
  <1>5. CASE res.moved # <<>>
    <2> DEFINE m == echoFrom'
    <2>1. DOMAIN res.moved \in SUBSET Nat /\ DOMAIN res.moved # {}
      BY <1>1, <1>3, <1>5 DEF SetAside, Steady
    <2>2. m \in DOMAIN res.moved /\ \A x \in DOMAIN res.moved : m <= x
      BY <1>2, <1>5, <2>1, LeastMin
    <2> HIDE DEF m
    <2>3. m \in Nat /\ StandsBefore(points, res.points, m)
      BY <1>1, <2>1, <2>2 DEF Steady
    <2>4. ASSUME NEW h \in DOMAIN hours, h < HourOf(m), Begun(h)'
          PROVE  Clean(points', hours[h], h)
      <3>1. h \in Nat /\ IsHour(h)
        BY DEF HoursOver
      <3>2. HourOf(m) \in Int /\ IsHour(HourOf(m)) /\ HourOf(m) <= m /\ HourS \in Nat
        BY <2>3, HourIs
      <3>3. h + HourS <= m
        <4>1. h + HourS <= HourOf(m)
          BY <2>4, <3>1, <3>2, HoursApart
        <4> QED
          BY <2>3, <3>1, <3>2, <4>1
      <3>4. Clean(points, hours[h], h)
        <4>1. DOMAIN points' \subseteq DOMAIN points
          BY <1>1, <1>2 DEF SetAside
        <4>2. Begun(h)
          BY <2>4, <4>1 DEF Begun, Ats
        <4> QED
          BY <4>2 DEF CleanIn
      <3>5. \A a \in DOMAIN points : Standing(points, a, h) =>
              /\ a \in DOMAIN res.points /\ res.points[a].price = points[a].price
              /\ Standing(res.points, a, h)
        BY <1>1, <1>3, <2>2, <3>1, <3>3, RejectStanding
      <3> QED
        BY <1>2, <3>4, <3>5, CleanStays
    <2>5. (\E a \in Ats' : a < m) => \E a \in Ats' : a < m /\ m <= points'[a].until
      BY <1>2, <2>3 DEF StandsBefore, Ats
    <2>6. \A h \in {g \in DOMAIN hours' : g < HourOf(m)} : Begun(h)' => Clean(points', hours'[h], h)
      BY <2>4
    <2> QED
      BY <2>3, <2>5, <2>6 DEF CleanBefore, CleanIn, m
  <1> QED
    BY <1>4, <1>5

\* A reading is taken.
LEMMA ReadingStays ==
  ASSUME NEW p \in Prices, now \in Nat, Answered, HoursOver, CleanIn(DOMAIN hours),
         points' = PutReading(now, p), UNCHANGED <<now, hours>>
  PROVE  /\ ReachesAsFar(points, points') /\ \A h \in DOMAIN hours : Begun(h)' => Begun(h)
         /\ CleanIn(DOMAIN hours)'
  <1>1. PICK m \in 0..now, e \in PriceInterval :
          /\ points' = Put(points, m, e) /\ e.at = m /\ e.price = p /\ e.until = now
          /\ \A a \in DOMAIN points : a <= m
          /\ m = now \/ (m \in DOMAIN points /\ points[m].price = p)
    BY ReadingPuts
  <1>2. /\ DOMAIN points' = DOMAIN points \cup {m} /\ points'[m] = e
        /\ \A a \in DOMAIN points : a # m => points'[a] = points[a]
    BY <1>1 DEF Put
  <1>3. /\ DOMAIN points \subseteq Nat
        /\ \A a \in DOMAIN points : points[a].until \in Nat /\ points[a].until <= now
                                    /\ a <= points[a].until
    BY DEF Answered, Series, PriceInterval
  <1>4. \A a \in DOMAIN points : a \in DOMAIN points' /\ points[a].until <= points'[a].until
                                 /\ points'[a].until \in Nat
    BY <1>1, <1>2, <1>3
  <1>5. ReachesAsFar(points, points')
    <2>1. \A a \in DOMAIN points : a <= a
      BY <1>3
    <2> QED
      BY <1>4, <2>1 DEF ReachesAsFar
  <1>6. \A h \in DOMAIN hours : h \in Nat /\ h + HourS <= now
    <2>1. HourS \in Nat /\ HourOf(now) \in Int /\ HourOf(now) <= now
      BY HourIs
    <2>2. \A h \in DOMAIN hours : h \in Nat /\ h + HourS <= HourOf(now)
      BY DEF HoursOver
    <2> QED
      BY <2>1, <2>2
  <1>7. HourS \in Nat
    BY HourIs
  <1>8. ASSUME NEW h \in DOMAIN hours, Begun(h)' PROVE Begun(h)
    <2>1. PICK a \in DOMAIN points' : a < h
      BY <1>8 DEF Begun, Ats
    <2>2. CASE a \in DOMAIN points
      BY <2>1, <2>2 DEF Begun, Ats
    <2>3. CASE a \notin DOMAIN points
      <3>1. a = now
        BY <1>1, <1>2, <2>3
      <3> QED
        BY <1>6, <1>7, <2>1, <3>1
    <2> QED
      BY <2>2, <2>3
  <1>9. ASSUME NEW h \in DOMAIN hours, NEW a \in DOMAIN points, Standing(points, a, h)
        PROVE  a \in DOMAIN points' /\ points'[a].price = points[a].price /\ Standing(points', a, h)
    <2>1. h \in Nat /\ h + HourS <= now /\ a < h + HourS /\ a \in Nat
      BY <1>3, <1>6, <1>9 DEF Standing
    <2>2. a # now /\ h <= now - 60
      <3>1. HourS >= 60
        BY HourIs DEF Minute
      <3> QED
        BY <1>7, <2>1, <3>1
    <2>3. points'[a].price = points[a].price
      BY <1>1, <1>2, <2>2
    <2>4. CASE h <= points[a].until
      <3>1. h <= points'[a].until
        BY <1>3, <1>4, <2>1, <2>4
      <3> QED
        BY <1>4, <2>1, <2>3, <3>1 DEF Standing
    <2>5. CASE (\E b \in DOMAIN points : a < b) /\ \A b \in DOMAIN points : a < b => h < b
      <3>1. \A b \in DOMAIN points' : a < b => h < b
        BY <1>1, <1>2, <2>1, <2>2, <2>5
      <3> QED
        BY <1>4, <2>1, <2>3, <2>5, <3>1 DEF Standing
    <2>6. CASE \A b \in DOMAIN points : b <= a
      <3>1. CASE m = a
        <4>1. points'[a].until = now
          BY <1>1, <1>2, <3>1
        <4>2. h <= points'[a].until
          BY <2>1, <2>2, <4>1
        <4> QED
          BY <1>4, <2>1, <2>3, <4>2 DEF Standing
      <3>2. CASE m # a
        <4>1. m = now
          BY <1>1, <1>3, <2>6, <3>2
        <4>2. m \in DOMAIN points' /\ a < m
          BY <1>1, <1>2, <2>1, <2>2, <4>1, <1>7
        <4>3. \A b \in DOMAIN points' : a < b => h < b
          BY <1>2, <1>3, <2>1, <2>2, <2>6, <4>1
        <4> QED
          BY <1>4, <2>1, <2>3, <4>2, <4>3 DEF Standing
      <3> QED
        BY <3>1, <3>2
    <2> QED
      BY <1>9, <2>4, <2>5, <2>6 DEF Standing
  <1>10. ASSUME NEW h \in DOMAIN hours, Begun(h)' PROVE Clean(points', hours[h], h)
    <2>1. Clean(points, hours[h], h)
      BY <1>8, <1>10 DEF CleanIn
    <2>2. \A a \in DOMAIN points : Standing(points, a, h) =>
            a \in DOMAIN points' /\ points'[a].price = points[a].price /\ Standing(points', a, h)
      BY <1>9
    <2> QED
      BY <2>1, <2>2, CleanStays
  <1> QED
    BY <1>5, <1>8, <1>10 DEF CleanIn

\* Intervals that ended before the window go.
LEMMA PruneStays ==
  ASSUME now \in Nat, Answered, HoursOver, CleanIn(DOMAIN hours), UNCHANGED <<now, hours>>,
         points' = [a \in {b \in Ats : ~Expired(points[b])} |-> points[a]]
  PROVE  /\ ReachesAsFar(points, points') /\ \A h \in DOMAIN hours : Begun(h)' => Begun(h)
         /\ CleanIn(DOMAIN hours)'
  <1> DEFINE cut == now - KeepSpan
  <1>1. /\ DOMAIN points \subseteq Nat /\ cut \in Int
        /\ \A a \in DOMAIN points : points[a].until \in Nat /\ a <= points[a].until
        /\ \A a, b \in DOMAIN points : a < b => points[a].until <= b
    BY PriceAssumption DEF Answered, Series, PriceInterval
  <1>2. /\ DOMAIN points' \subseteq DOMAIN points
        /\ \A a \in DOMAIN points' : points'[a] = points[a] /\ ~(points[a].until < cut)
        /\ \A a \in DOMAIN points : a \notin DOMAIN points' => points[a].until < cut
    BY DEF Ats, Expired
  <1> HIDE DEF cut
  <1>3. ASSUME NEW a \in DOMAIN points, a \notin DOMAIN points', NEW b \in DOMAIN points'
        PROVE  a < b /\ points[a].until <= b
    <2>1. a # b /\ b \in DOMAIN points /\ points[a].until < cut /\ ~(points[b].until < cut)
      BY <1>2, <1>3
    <2>2. ~(b < a)
      <3>1. b < a => points[b].until <= a /\ a <= points[a].until
        BY <1>1, <2>1
      <3> QED
        BY <1>1, <2>1, <3>1
    <2> QED
      BY <1>1, <2>1, <2>2
  <1>4. ReachesAsFar(points, points')
    <2> SUFFICES ASSUME NEW a \in DOMAIN points
                 PROVE  \/ \E b \in DOMAIN points' : b <= a /\ points[a].until <= points'[b].until
                        \/ \A b \in DOMAIN points' : points[a].until <= b
      BY DEF ReachesAsFar
    <2>1. CASE a \in DOMAIN points'
      <3>1. a <= a /\ points[a].until <= points'[a].until
        BY <1>1, <1>2, <2>1
      <3> QED
        BY <2>1, <3>1
    <2>2. CASE a \notin DOMAIN points'
      BY <1>3, <2>2
    <2> QED
      BY <2>1, <2>2
  <1>5. \A h \in DOMAIN hours : Begun(h)' => Begun(h)
    BY <1>2 DEF Begun, Ats
  <1>6. ASSUME NEW h \in DOMAIN hours, Begun(h)',
               NEW a \in DOMAIN points, Standing(points, a, h)
        PROVE  a \in DOMAIN points' /\ points'[a].price = points[a].price /\ Standing(points', a, h)
    <2>1. h \in Nat
      BY DEF HoursOver
    <2>2. PICK c \in DOMAIN points' : c < h /\ c \in Nat /\ c \in DOMAIN points
      BY <1>1, <1>2, <1>6 DEF Begun, Ats
    <2>3. a \in DOMAIN points'
      <3> SUFFICES ASSUME a \notin DOMAIN points' PROVE FALSE
        OBVIOUS
      <3>1. a < c /\ points[a].until <= c
        BY <1>3, <2>2
      <3>2. ~(h <= points[a].until)
        BY <1>1, <2>1, <2>2, <3>1
      <3>3. ~\A b \in DOMAIN points : a < b => h < b
        BY <1>1, <2>1, <2>2, <3>1
      <3>4. ~\A b \in DOMAIN points : b <= a
        BY <1>1, <2>2, <3>1
      <3> QED
        BY <1>6, <3>2, <3>3, <3>4 DEF Standing
    <2>4. (\E b \in DOMAIN points : a < b) => \E b \in DOMAIN points' : a < b
      <3> SUFFICES ASSUME NEW b \in DOMAIN points, a < b PROVE \E x \in DOMAIN points' : a < x
        OBVIOUS
      <3>1. b \in DOMAIN points'
        <4> SUFFICES ASSUME b \notin DOMAIN points' PROVE FALSE
          OBVIOUS
        <4>1. b < a
          BY <1>3, <2>3
        <4> QED
          BY <1>1, <4>1
      <3> QED
        BY <3>1
    <2> QED
      BY <1>2, <1>6, <2>3, <2>4 DEF Standing
  <1>7. ASSUME NEW h \in DOMAIN hours, Begun(h)' PROVE Clean(points', hours[h], h)
    <2>1. Clean(points, hours[h], h)
      BY <1>5, <1>7 DEF CleanIn
    <2>2. \A a \in DOMAIN points : Standing(points, a, h) =>
            a \in DOMAIN points' /\ points'[a].price = points[a].price /\ Standing(points', a, h)
      BY <1>6, <1>7
    <2> QED
      BY <2>1, <2>2, CleanStays
  <1> QED
    BY <1>4, <1>5, <1>7 DEF CleanIn

\* The roll-up writes clean hours over clean hours.
LEMMA RollCleans ==
  ASSUME NEW cut \in Int, now \in Nat, Answered, HoursOver, CleanIn(DOMAIN hours),
         hours' = Written(hours, RollUp(cut)), UNCHANGED <<now, points>>
  PROVE  HoursOver' /\ CleanIn(DOMAIN hours)'
  <1> DEFINE new == RollUp(cut)
  <1>1. Rolled(new, cut)
    BY RollUpIs DEF Answered
  <1> HIDE DEF new
  <1>2. /\ HoursOver'
        /\ \A h \in DOMAIN hours' :
             \/ h \in DOMAIN new /\ Clean(points', hours'[h], h)
             \/ h \notin DOMAIN new /\ h \in DOMAIN hours /\ hours'[h] = hours[h]
    BY <1>1, FoldWrites DEF new
  <1>3. \A h \in DOMAIN hours : Begun(h) => Clean(points', hours[h], h)
    BY DEF CleanIn
  <1>4. \A h : Begun(h)' => Begun(h)
    BY DEF Begun, Ats
  <1> QED
    BY <1>2, <1>3, <1>4 DEF CleanIn

\* The start folds every hour the record reaches again.
LEMMA RebuildCleans ==
  ASSUME now \in Nat, Answered, HoursOver, Rebuild
  PROVE  HoursOver' /\ CleanIn(DOMAIN hours)'
  <1>1. UNCHANGED <<now, points>>
    BY DEF Rebuild
  <1>2. Series(points, now) /\ DOMAIN points \in SUBSET Nat /\ DOMAIN points \in SUBSET (0..now)
        /\ points = [a \in DOMAIN points |-> points[a]]
    BY DEF Answered, Series
  <1>3. CASE points = <<>>
    <2>1. hours' = hours /\ Ats = {}
      BY <1>3 DEF Rebuild, Ats
    <2> QED
      BY <1>1, <2>1 DEF HoursOver, CleanIn, Begun, Ats
  <1>4. CASE points # <<>>
    <2> DEFINE lo == Min(Ats)
               cut == RebuildFrom(lo)
               new == RollUp(cut)
    <2>1. Ats # {}
      <3>1. DOMAIN <<>> = {} /\ <<>> = [t \in {} |-> <<>>[t]]
        OBVIOUS
      <3>2. points = [a \in {} |-> points[a]] => points = <<>>
        BY <3>1
      <3> QED
        BY <1>2, <1>4, <3>2 DEF Ats
    <2>2. lo \in Ats /\ lo \in Nat /\ \A a \in Ats : lo <= a
      BY <1>2, <2>1, LeastMin DEF Ats
    <2>3. hours' = Written(hours, new)
      BY <1>4 DEF Rebuild
    <2> HIDE DEF lo
    <2>4. /\ HourOf(lo) \in Int /\ IsHour(HourOf(lo)) /\ HourOf(lo) <= lo /\ HourS \in Nat
          /\ lo < HourOf(lo) + HourS /\ HourOf(now) \in Int
      BY <2>2, HourIs
    <2>5. /\ cut \in Int /\ cut <= HourOf(lo) + HourS /\ HourOf(cut) \in Int /\ HourOf(cut) <= cut
      <3>1. cut = HourOf(lo) \/ cut = HourOf(lo) + HourS
        BY <2>4 DEF RebuildFrom
      <3> HIDE DEF cut
      <3>2. cut \in Int /\ cut <= HourOf(lo) + HourS
        BY <2>4, <3>1
      <3> QED
        BY <3>2, HourIs
    <2> HIDE DEF cut
    <2>6. Rolled(new, cut)
      BY <1>2, <2>5, RollUpIs
    <2> HIDE DEF new
    <2>7. /\ HoursOver'
          /\ \A h \in DOMAIN hours' :
               \/ h \in DOMAIN new /\ Clean(points', hours'[h], h)
               \/ h \notin DOMAIN new /\ h \in DOMAIN hours /\ hours'[h] = hours[h]
      BY <1>1, <2>3, <2>6, FoldWrites
    <2>8. ASSUME NEW h \in DOMAIN hours, Begun(h) PROVE h \in DOMAIN new
      <3>1. h \in Nat /\ IsHour(h) /\ h + HourS <= HourOf(now) /\ Reached(h)
        BY <2>8 DEF HoursOver
      <3>2. HourOf(cut) <= h
        <4>1. PICK a \in Ats : a < h /\ a \in Nat
          BY <1>2, <2>8 DEF Begun, Ats
        <4>2. HourOf(lo) < h
          BY <2>2, <2>4, <3>1, <4>1
        <4>3. HourOf(lo) + HourS <= h
          BY <2>4, <3>1, <4>2, HoursApart
        <4> QED
          BY <2>4, <2>5, <3>1, <4>3
      <3>3. PICK a \in Ats : a < h + HourS /\ \A b \in Ats : b < h + HourS => b <= a
        BY <1>2, <2>8, <3>1, LastFor
      <3>4. Reads(a, cut)
        <4>1. a \in Nat /\ points[a].until \in Nat /\ a <= points[a].until /\ lo <= a
          BY <1>2, <2>2 DEF Series, PriceInterval, Ats
        <4>2. a < HourOf(now)
          BY <2>4, <3>1, <3>3, <4>1
        <4>3. points[a].until >= ReachBack(HourOf(cut))
          BY <2>2, <2>4, <2>5, <4>1 DEF ReachBack
        <4> QED
          BY <4>2, <4>3 DEF Reads
      <3> QED
        BY <2>6, <3>1, <3>2, <3>3, <3>4 DEF Rolled, ReadFor
    <2>9. \A h : Begun(h)' => Begun(h)
      BY <1>1 DEF Begun, Ats
    <2> QED
      BY <2>7, <2>8, <2>9 DEF CleanIn
  <1> QED
    BY <1>3, <1>4

\* So do the hours from the first echo on, when they are folded again.
LEMMA RefoldCleans ==
  ASSUME now \in Nat, Answered, HoursOver, Refold,
         (echoFrom = None /\ CleanIn(DOMAIN hours)) \/ CleanBefore(echoFrom)
  PROVE  HoursOver' /\ CleanIn(DOMAIN hours)'
  <1>1. UNCHANGED <<now, points>>
    BY DEF Refold
  <1>2. /\ Series(points, now) /\ DOMAIN points \in SUBSET Nat
        /\ \A a \in DOMAIN points : points[a].until \in Nat /\ a <= points[a].until
        /\ \A a, b \in DOMAIN points : a < b => points[a].until <= b
    BY DEF Answered, Series, PriceInterval
  <1>3. \A h : Begun(h)' <=> Begun(h)
    BY <1>1 DEF Begun, Ats
  <1>4. ASSUME hours' = hours, CleanIn(DOMAIN hours) PROVE HoursOver' /\ CleanIn(DOMAIN hours)'
    BY <1>1, <1>4 DEF HoursOver, CleanIn, Begun, Reached, Ats
  <1>5. CASE echoFrom = None /\ CleanIn(DOMAIN hours)
    <2>1. hours' = hours
      BY <1>5 DEF Refold, Folded
    <2> QED
      BY <1>4, <1>5, <2>1
  <1>6. CASE CleanBefore(echoFrom)
    <2> DEFINE m == echoFrom
               new == RollUp(m)
    <2>1. /\ m \in Nat /\ m # None /\ CleanIn({h \in DOMAIN hours : h < HourOf(m)})
          /\ (\E a \in Ats : a < m) => \E a \in Ats : a < m /\ m <= points[a].until
      BY <1>6 DEF CleanBefore, None
    <2>2. /\ HourOf(m) \in Int /\ IsHour(HourOf(m)) /\ HourOf(m) <= m /\ m < HourOf(m) + HourS
          /\ HourS \in Nat /\ HourS >= 60
          /\ HourOf(now) \in Int /\ IsHour(HourOf(now)) /\ HourOf(now) <= now
      BY <2>1, HourIs DEF Minute
    <2>3. \A h \in DOMAIN hours : /\ h \in Nat /\ IsHour(h) /\ h + HourS <= HourOf(now)
                                  /\ (Begun(h) => Reached(h))
      BY DEF HoursOver
    <2>4. CASE ~Folded(m)
      <3>1. hours' = hours
        BY <2>4 DEF Refold
      <3>2. HourOf(now) <= m
        BY <2>1, <2>2, <2>4 DEF Folded
      <3>3. HourOf(now) <= HourOf(m)
        <4>1. HourOf(HourOf(now)) = HourOf(now)
          BY <2>2, HourOfHour
        <4> QED
          BY <2>1, <2>2, <3>2, <4>1, HoursGrow
      <3>4. \A h \in DOMAIN hours : h < HourOf(m)
        BY <2>2, <2>3, <3>3
      <3>5. CleanIn(DOMAIN hours)
        BY <2>1, <3>4 DEF CleanIn
      <3> QED
        BY <1>4, <3>1, <3>5
    <2>5. CASE Folded(m)
      <3>1. hours' = Written(hours, new)
        BY <2>5 DEF Refold
      <3>2. Rolled(new, m)
        BY <1>2, <2>1, RollUpIs
      <3> HIDE DEF new
      <3>3. /\ HoursOver'
            /\ \A h \in DOMAIN hours' :
                 \/ h \in DOMAIN new /\ Clean(points', hours'[h], h)
                 \/ h \notin DOMAIN new /\ h \in DOMAIN hours /\ hours'[h] = hours[h]
        BY <1>1, <3>1, <3>2, FoldWrites
      <3>4. ASSUME NEW h \in DOMAIN hours, Begun(h), ~(h < HourOf(m)) PROVE h \in DOMAIN new
        <4>1. PICK a \in Ats : a < h + HourS /\ \A b \in Ats : b < h + HourS => b <= a
          BY <1>2, <2>3, <3>4, LastFor
        <4>2. a \in Nat /\ points[a].until \in Nat /\ a <= points[a].until
          BY <1>2 DEF Ats
        <4>3. m <= points[a].until
          <5>1. CASE m <= a
            BY <2>1, <4>2, <5>1
          <5>2. CASE ~(m <= a)
            <6>1. PICK c \in Ats : c < m /\ m <= points[c].until
              BY <2>1, <4>2, <5>2
            <6>2. c \in Nat /\ points[c].until \in Nat
              BY <1>2 DEF Ats
            <6>3. c <= a
              BY <2>1, <2>2, <2>3, <3>4, <4>1, <6>1, <6>2
            <6>4. c = a \/ points[c].until <= a
              BY <1>2, <4>2, <6>2, <6>3 DEF Ats
            <6> QED
              BY <2>1, <4>2, <6>1, <6>2, <6>4
          <5> QED
            BY <5>1, <5>2
        <4>4. Reads(a, m)
          <5>1. a < HourOf(now)
            BY <2>2, <2>3, <4>1, <4>2
          <5>2. points[a].until >= ReachBack(HourOf(m))
            BY <2>1, <2>2, <4>2, <4>3 DEF ReachBack
          <5> QED
            BY <5>1, <5>2 DEF Reads
        <4>5. HourOf(m) <= h
          BY <2>2, <2>3, <3>4
        <4> QED
          BY <2>3, <3>2, <3>4, <4>1, <4>4, <4>5 DEF Rolled, ReadFor
      <3>5. ASSUME NEW h \in DOMAIN hours', Begun(h)' PROVE Clean(points', hours'[h], h)
        <4>1. CASE h \in DOMAIN new
          BY <3>3, <4>1
        <4>2. CASE h \notin DOMAIN new
          <5>1. h \in DOMAIN hours /\ hours'[h] = hours[h] /\ Begun(h)
            BY <1>3, <3>3, <3>5, <4>2
          <5>2. h < HourOf(m)
            BY <3>4, <4>2, <5>1
          <5>3. Clean(points, hours[h], h)
            BY <2>1, <5>1, <5>2 DEF CleanIn
          <5>4. points' = points
            BY <1>1
          <5> QED
            BY <5>1, <5>3, <5>4
        <4> QED
          BY <4>1, <4>2
      <3> QED
        BY <3>3, <3>5 DEF CleanIn
    <2> QED
      BY <2>4, <2>5
  <1> QED
    BY <1>5, <1>6

LEMMA EchoStart == PriceInit => EchoInv
  <1>1. DOMAIN <<>> = {}
    OBVIOUS
  <1> QED
    BY <1>1, AnswersStart DEF PriceInit, EchoInv, HoursOver

LEMMA EchoStep == EchoInv /\ [PriceNext]_priceVars => EchoInv'
  <1> SUFFICES ASSUME EchoInv, [PriceNext]_priceVars PROVE EchoInv'
    OBVIOUS
  <1>1. /\ AnswersInv /\ now \in Nat /\ backs \in Nat
        /\ backs = 0 => Answered /\ HoursOver
    BY DEF EchoInv, AnswersInv
  <1>2. AnswersInv' /\ now' \in Nat
    BY <1>1, AnswersStep DEF AnswersInv
  <1>3. backs = 0 => /\ pc \in {"sample", "echo", "roll", "prune", "sleep"} => CleanIn(DOMAIN hours)
                     /\ pc = "refold" => (echoFrom = None /\ CleanIn(DOMAIN hours)) \/ CleanBefore(echoFrom)
    BY DEF EchoInv
  <1> SUFFICES ASSUME backs' = 0
               PROVE  /\ HoursOver'
                      /\ pc' \in {"sample", "echo", "roll", "prune", "sleep"} => CleanIn(DOMAIN hours)'
                      /\ pc' = "refold" =>
                           (echoFrom' = None /\ CleanIn(DOMAIN hours)') \/ CleanBefore(echoFrom)'
    BY <1>2 DEF EchoInv
  <1>4. ASSUME backs = 0, now <= now', UNCHANGED <<points, hours>>
        PROVE  HoursOver' /\ (CleanIn(DOMAIN hours) => CleanIn(DOMAIN hours)')
    <2>1. Series(points, now) /\ Series(points', now') /\ HoursOver
      BY <1>1, <1>2, <1>4 DEF AnswersInv, Answered
    <2>2. ReachesAsFar(points, points')
      <3>1. \A a \in DOMAIN points : a <= a /\ points[a].until <= points[a].until
        BY <2>1 DEF Series, PriceInterval
      <3> QED
        BY <1>4, <3>1 DEF ReachesAsFar
    <2>3. \A h : Begun(h)' => Begun(h)
      BY <1>4 DEF Begun, Ats
    <2>4. HoursOver'
      BY <1>1, <1>2, <1>4, <2>1, <2>2, <2>3, OverStays
    <2> QED
      BY <1>4, <2>3, <2>4 DEF CleanIn
  <1>5. ASSUME NEW since, backs = 0, RejectEchoes(since), UNCHANGED <<now, hours>> PROVE HoursOver'
    <2>1. Series(points, now) /\ Series(points', now') /\ HoursOver /\ Answered
      BY <1>1, <1>2, <1>5 DEF AnswersInv, Answered
    <2> DEFINE res == Rejecting(EchoesIn(CheckRows(since)))
    <2>2. SetAside(res) /\ Steady(res) /\ points' = res.points
      BY <1>1, <1>5, EchoesSetAside DEF RejectEchoes
    <2> HIDE DEF res
    <2>3. ReachesAsFar(points, points') /\ DOMAIN points' \subseteq DOMAIN points
      BY <2>2 DEF SetAside, Steady
    <2>4. \A h : Begun(h)' => Begun(h)
      BY <2>3 DEF Begun, Ats
    <2> QED
      BY <1>1, <1>2, <1>5, <2>1, <2>3, <2>4, OverStays
  <1>6. CASE Repair
    <2>1. backs = 0 /\ pc' = "rebuild" /\ RejectEchoes(None) /\ UNCHANGED <<now, hours>>
      BY <1>6 DEF Repair
    <2> QED
      BY <1>5, <2>1
  <1>7. CASE Rebuild
    <2>1. backs = 0 /\ pc' = "sample"
      BY <1>7 DEF Rebuild
    <2>2. HoursOver' /\ CleanIn(DOMAIN hours)'
      BY <1>1, <1>7, <2>1, RebuildCleans
    <2> QED
      BY <2>1, <2>2
  <1>8. CASE Sample
    <2>1. /\ backs = 0 /\ pc = "sample" /\ pc' = "echo" /\ UNCHANGED <<now, hours>>
          /\ UNCHANGED points \/ \E p \in Prices : points' = PutReading(now, p)
      BY <1>8 DEF Sample
    <2>2. CleanIn(DOMAIN hours) /\ Answered /\ HoursOver
      BY <1>1, <1>3, <2>1
    <2>3. CASE UNCHANGED points
      BY <1>1, <1>4, <2>1, <2>2, <2>3
    <2>4. CASE \E p \in Prices : points' = PutReading(now, p)
      <3>1. PICK p \in Prices : points' = PutReading(now, p)
        BY <2>4
      <3>2. /\ ReachesAsFar(points, points') /\ \A h \in DOMAIN hours : Begun(h)' => Begun(h)
            /\ CleanIn(DOMAIN hours)'
        BY <1>1, <2>1, <2>2, <3>1, ReadingStays
      <3>3. Series(points, now) /\ Series(points', now') /\ now <= now'
        BY <1>1, <1>2, <2>1, <2>2 DEF AnswersInv, Answered
      <3>4. HoursOver'
        BY <1>1, <1>2, <2>1, <2>2, <3>2, <3>3, OverStays
      <3> QED
        BY <2>1, <3>2, <3>4
    <2> QED
      BY <2>1, <2>3, <2>4
  <1>9. CASE Echoes
    <2>1. /\ backs = 0 /\ pc = "echo" /\ pc' = "refold" /\ RejectEchoes(now - EchoSpan)
          /\ UNCHANGED <<now, hours>>
      BY <1>9 DEF Echoes
    <2>2. CleanIn(DOMAIN hours) /\ Answered /\ HoursOver
      BY <1>1, <1>3, <2>1
    <2>3. (echoFrom' = None /\ CleanIn(DOMAIN hours)') \/ CleanBefore(echoFrom)'
      BY <1>1, <2>1, <2>2, RejectCleans
    <2> QED
      BY <1>5, <2>1, <2>3
  <1>10. CASE Refold
    <2>1. backs = 0 /\ pc = "refold" /\ pc' = "roll"
      BY <1>10 DEF Refold
    <2>2. HoursOver' /\ CleanIn(DOMAIN hours)'
      BY <1>1, <1>3, <1>10, <2>1, RefoldCleans
    <2> QED
      BY <2>1, <2>2
  <1>11. CASE Roll
    <2>1. /\ backs = 0 /\ pc = "roll" /\ pc' = "prune" /\ UNCHANGED <<now, points>>
          /\ hours' = Written(hours, RollUp(now - RollSpan))
      BY <1>11 DEF Roll
    <2>2. now - RollSpan \in Int
      BY <1>1, PriceAssumption
    <2>3. HoursOver' /\ CleanIn(DOMAIN hours)'
      BY <1>1, <1>3, <2>1, <2>2, RollCleans
    <2> QED
      BY <2>1, <2>3
  <1>12. CASE Prune
    <2>1. /\ backs = 0 /\ pc = "prune" /\ pc' = "sleep" /\ UNCHANGED <<now, hours>>
          /\ UNCHANGED points \/ points' = [a \in {b \in Ats : ~Expired(points[b])} |-> points[a]]
      BY <1>12 DEF Prune
    <2>2. CleanIn(DOMAIN hours) /\ Answered /\ HoursOver
      BY <1>1, <1>3, <2>1
    <2>3. CASE UNCHANGED points
      BY <1>1, <1>4, <2>1, <2>2, <2>3
    <2>4. CASE points' = [a \in {b \in Ats : ~Expired(points[b])} |-> points[a]]
      <3>1. /\ ReachesAsFar(points, points') /\ \A h \in DOMAIN hours : Begun(h)' => Begun(h)
            /\ CleanIn(DOMAIN hours)'
        BY <1>1, <2>1, <2>2, <2>4, PruneStays
      <3>2. Series(points, now) /\ Series(points', now') /\ now <= now'
        BY <1>1, <1>2, <2>1, <2>2 DEF AnswersInv, Answered
      <3>3. HoursOver'
        BY <1>1, <1>2, <2>1, <2>2, <3>1, <3>2, OverStays
      <3> QED
        BY <2>1, <3>1, <3>3
    <2> QED
      BY <2>1, <2>3, <2>4
  <1>13. CASE Sleep
    <2>1. /\ backs = 0 /\ pc = "sleep" /\ pc' = "sample" /\ now <= now'
          /\ UNCHANGED <<points, hours>>
      BY <1>1, <1>13 DEF Sleep, Minute
    <2> QED
      BY <1>3, <1>4, <2>1
  <1>14. CASE Stop
    <2>1. backs = 0 /\ pc' = "repair" /\ now <= now' /\ UNCHANGED <<points, hours>>
      BY <1>1, <1>14 DEF Stop, Minute
    <2> QED
      BY <1>4, <2>1
  <1>15. CASE SetBack
    BY <1>1, <1>15 DEF SetBack
  <1>16. CASE UNCHANGED priceVars
    <2>1. /\ backs = 0 /\ now <= now'
          /\ UNCHANGED <<now, points, hours, pc, echoFrom>>
      BY <1>1, <1>16 DEF priceVars
    <2>2. CleanBefore(echoFrom) => CleanBefore(echoFrom)'
      BY <2>1 DEF CleanBefore, CleanIn, Begun, Ats
    <2> QED
      BY <1>3, <1>4, <2>1, <2>2
  <1> QED
    BY <1>6, <1>7, <1>8, <1>9, <1>10, <1>11, <1>12, <1>13, <1>14, <1>15, <1>16 DEF PriceNext

LEMMA CleanIsEchoFree == EchoInv => NoEchoInHours
  <1> SUFFICES ASSUME EchoInv, backs = 0, pc \in {"sample", "roll", "prune", "sleep"},
                      NEW h \in DOMAIN hours, Ats # {}, h > HourOf(Min(Ats)),
                      NEW v \in {hours[h].open, hours[h].high, hours[h].low, hours[h].close}
               PROVE  \E a \in {b \in Ats : Stood(b, h)} : points[a].price = v
    BY DEF NoEchoInHours
  <1> DEFINE lo == Min(Ats)
  <1>1. now \in Nat /\ Series(points, now) /\ HoursOver /\ CleanIn(DOMAIN hours)
    BY DEF EchoInv, AnswersInv, Answered
  <1>2. /\ Ats \in SUBSET Nat /\ Ats = DOMAIN points /\ h \in Nat /\ IsHour(h)
        /\ \A a \in Ats : points[a].until \in Nat
    BY <1>1 DEF Series, PriceInterval, HoursOver, Ats
  <1>3. lo \in Ats /\ lo \in Nat
    BY <1>2, LeastMin
  <1>4. lo < h
    <2> HIDE DEF lo
    <2>1. HourOf(lo) \in Int /\ IsHour(HourOf(lo)) /\ lo < HourOf(lo) + HourS /\ HourS \in Nat
      BY <1>3, HourIs
    <2>2. HourOf(lo) + HourS <= h
      BY <1>2, <2>1, HoursApart DEF lo
    <2> QED
      BY <1>2, <1>3, <2>1, <2>2
  <1>5. PICK a \in Ats : Standing(points, a, h) /\ points[a].price = v
    <2>1. Begun(h)
      BY <1>3, <1>4 DEF Begun
    <2> QED
      BY <1>1, <1>2, <2>1 DEF CleanIn, Clean
  <1> DEFINE after == {b \in Ats : b > a}
             until == points[a].until
  <1>6. Stood(a, h)
    <2>1. /\ a < h + HourS /\ until \in Nat /\ a \in Nat
          /\ \/ h <= until
             \/ (\E b \in Ats : a < b) /\ \A b \in Ats : a < b => h < b
             \/ (\A b \in Ats : b <= a) /\ h <= until + Minute
      BY <1>2, <1>5 DEF Standing
    <2>2. Stood(a, h) <=>
            (IF after = {} THEN until + Minute ELSE Later(until, Min(after) - 1)) >= h
      BY <2>1 DEF Stood
    <2>3. after # {} => Min(after) \in after /\ \A x \in after : Min(after) <= x
      <3>1. after \in SUBSET Nat
        BY <1>2
      <3> HIDE DEF after
      <3> QED
        BY <3>1, LeastMin
    <2>4. after # {} => Min(after) \in Nat /\ a < Min(after) /\ Min(after) \in Ats
      BY <1>2, <2>1, <2>3
    <2>5. \A b \in Ats : a < b <=> b \in after
      BY <1>2, <2>1
    <2> HIDE DEF after, until
    <2>6. CASE after = {}
      BY <1>2, <2>1, <2>2, <2>5, <2>6 DEF Minute
    <2>7. CASE after # {}
      <3>1. h <= until \/ h < Min(after)
        BY <1>2, <2>1, <2>4, <2>5, <2>7
      <3> QED
        BY <1>2, <2>1, <2>2, <2>4, <2>7, <3>1 DEF Later
    <2> QED
      BY <2>6, <2>7
  <1> QED
    BY <1>5, <1>6

\* Past the pass's own refold no stored hour shows an echo, for any prices,
\* times and spans: its figures are prices that stood in it by the healed series,
\* whatever is set aside in whichever order, however many points are pruned, and
\* wherever the process stops between setting aside and folding again (store.py
\* reject_prices, rollup_price_hours, rebuild_price_hours).
THEOREM HoursShowNoEcho == PriceSpec => []NoEchoInHours
  <1>1. PriceInit => EchoInv
    BY EchoStart
  <1>2. EchoInv /\ [PriceNext]_priceVars => EchoInv'
    BY EchoStep
  <1>3. EchoInv => NoEchoInHours
    BY CleanIsEchoFree
  <1> QED
    BY <1>1, <1>2, <1>3, PTL DEF PriceSpec

-----------------------------------------------------------------------------
(* What the hours hold: the inductive invariant. *)

\* Whatever was heard behind the first start on record is shown, how long ago ever.
HeardShown == \A t \in DOMAIN heard : (\E a \in Ats : a < t) => Shown(points, t, heard[t])

\* The price v lies between the low and the high of an hour.
Between(r, v) == r.low <= v /\ v <= r.high

\* No hour is stored before h, and nothing on record began before it.
Foremost(h) == (\A g \in DOMAIN hours : h <= g) /\ \A a \in Ats : h <= a

\* An hour holds the readings heard in it, but for the very first.
HeardHeld ==
  \A t \in DOMAIN heard :
    HourOf(t) \in DOMAIN hours =>
      Between(hours[HourOf(t)], heard[t]) \/ Foremost(HourOf(t))

HoldInv == EchoInv /\ (backs = 0 => HeardShown /\ HeardHeld)

\* The window is wider than what the roll-up folds again.
WindowHoldsRolls == KeepSpan >= RollSpan + HourS

\* The hours folded again for an echo lie in the window, or the record begins
\* before them: no echo's interval is longer than the window.
RefoldsWhole ==
  pc = "refold" /\ Folded(echoFrom) =>
    HourOf(echoFrom) >= now - KeepSpan \/ \E a \in Ats : a < HourOf(echoFrom)

-----------------------------------------------------------------------------
(* What the hours hold: the steps. *)

\* Each price of the rows lies between the low and the high of their hour.
LEMMA HourBounds ==
  ASSUME NEW rows, NEW n \in Nat, NEW in \in SUBSET (1..n), NEW i \in in, NEW h,
         \A j \in in : rows[j].price \in Nat
  PROVE  Between(Hour(rows, in, h), rows[i].price)
  <1> DEFINE prices == {rows[j].price : j \in in}
             f == [j \in in |-> rows[j].price]
  <1>1. Hour(rows, in, h).high = Max(prices) /\ Hour(rows, in, h).low = Min(prices)
    BY Zenon DEF Hour
  <1>2. IsFiniteSet(prices) /\ prices # {} /\ prices \in SUBSET Nat
    <2>1. IsFiniteSet(1..n)
      <3>1. 1 \in Int /\ n \in Int
        OBVIOUS
      <3> QED
        BY <3>1, FS_Interval
    <2>2. IsFiniteSet(in) /\ DOMAIN f = in
      BY <2>1, FS_Subset
    <2>3. prices = {f[j] : j \in DOMAIN f}
      OBVIOUS
    <2>4. prices # {} /\ prices \in SUBSET Nat
      OBVIOUS
    <2> HIDE DEF prices, f
    <2> QED
      BY <2>2, <2>3, <2>4, RangeFinite
  <1>3. rows[i].price \in prices
    OBVIOUS
  <1> HIDE DEF prices
  <1>4. Min(prices) <= rows[i].price /\ rows[i].price <= Max(prices)
    BY <1>2, <1>3, GreatestMax, LeastMin
  <1> QED
    BY <1>1, <1>4 DEF Between

\* What is shown is folded into its hour.
LEMMA FoldHolds ==
  ASSUME NEW cut \in Int, now \in Nat, Series(points, now), NEW t \in Nat, NEW v,
         Shown(points, t, v), HourOf(t) \in DOMAIN RollUp(cut)
  PROVE  Between(RollUp(cut)[HourOf(t)], v)
  <1> DEFINE rows == RowsRead(cut)
             h == HourOf(t)
             in == InHour(rows, h)
             over == {g \in {HourOf(s) : s \in 0..(now - 1)} :
                        /\ g < HourOf(now) /\ (cut # None => g >= HourOf(cut))
                        /\ InHour(rows, g) # {}}
             top == HourOf(now)
             back == ReachBack(HourOf(cut))
  <1>1. RollUp(cut) = [g \in over |-> Hour(rows, InHour(rows, g), g)]
    BY Zenon DEF RollUp, RowsRead, InHour
  <1>2. h \in over /\ RollUp(cut)[h] = Hour(rows, in, h)
    BY <1>1
  <1>3. h < top /\ (cut # None => h >= HourOf(cut))
    BY <1>2
  <1>4. ReadInOrder(rows, cut)
    BY RowsReadAre
  <1>5. Laid
    BY PriceAssumption DEF Laid, Series, PriceInterval
  <1>6. /\ h \in Nat /\ IsHour(h) /\ h <= t /\ t < h + HourS /\ HourS \in Nat
        /\ top \in Int /\ IsHour(top) /\ HourOf(cut) \in Int
    BY HourIs
  <1>7. h + HourS <= top
    BY <1>3, <1>6, HoursApart
  <1> HIDE DEF rows, h, over
  <1>8. PICK a \in DOMAIN points : a <= t /\ t <= points[a].until /\ points[a].price = v
    BY DEF Shown
  <1>9. a \in Ats /\ a \in Nat /\ points[a].until \in Nat /\ a <= points[a].until
    BY <1>5 DEF Laid, Ats
  <1>10. Reads(a, cut)
    <2>1. a < top
      BY <1>6, <1>7, <1>8, <1>9
    <2>2. cut # None => points[a].until >= back
      BY <1>3, <1>6, <1>8, <1>9 DEF ReachBack
    <2> QED
      BY <2>1, <2>2 DEF Reads
  <1>11. PICK i \in 1..Len(rows) : rows[i].at = a
    BY <1>4, <1>9, <1>10 DEF ReadInOrder
  <1>12. /\ Len(rows) \in Nat /\ DOMAIN rows = 1..Len(rows)
         /\ rows[i] = points[a]
    BY <1>4, <1>11 DEF ReadInOrder
  <1>13. i \in in
    <2> DEFINE u == StoodUntil(rows, i)
    <2>1. u \in Int /\ points[a].until <= u
      <3>1. i < Len(rows) => i + 1 \in 1..Len(rows)
        BY <1>12
      <3>2. i < Len(rows) => rows[i + 1].at \in Nat
        BY <1>4, <1>5, <3>1 DEF ReadInOrder, Laid, Ats
      <3> QED
        BY <1>9, <1>12, <3>2 DEF StoodUntil, Later, Minute
    <2> HIDE DEF u, top
    <2>2. Sooner(u, top - 1) >= Later(h, a)
      <3>1. h <= u /\ a <= u /\ h <= top - 1 /\ a <= top - 1
        BY <1>3, <1>6, <1>7, <1>8, <1>9, <2>1
      <3> QED
        BY <1>6, <1>9, <2>1, <3>1 DEF Sooner, Later
    <2> QED
      BY <1>6, <1>8, <1>9, <1>11, <1>12, <2>2 DEF InHour, u, top
  <1>14. in \in SUBSET (1..Len(rows)) /\ \A j \in in : rows[j].price \in Nat
    <2>1. in \in SUBSET (1..Len(rows))
      BY <1>12 DEF InHour
    <2>2. ASSUME NEW j \in 1..Len(rows) PROVE rows[j].price \in Nat
      <3>1. rows[j].at \in Ats /\ rows[j] = points[rows[j].at]
        BY <1>4 DEF ReadInOrder
      <3>2. points[rows[j].at].price \in Nat
        BY <1>5, <3>1 DEF Laid, Ats
      <3> QED
        BY <3>1, <3>2, Zenon
    <2> QED
      BY <2>1, <2>2
  <1> HIDE DEF in
  <1>15. Between(Hour(rows, in, h), rows[i].price)
    <2> DEFINE n == Len(rows)
    <2>1. n \in Nat /\ in \in SUBSET (1..n)
      BY <1>12, <1>14
    <2> HIDE DEF n
    <2> QED
      BY <1>13, <1>14, <2>1, HourBounds
  <1>16. rows[i].price = v
    BY <1>8, <1>12
  <1>17. Between(RollUp(cut)[h], v)
    BY <1>2, <1>15, <1>16, Zenon
  <1> QED
    BY <1>17 DEF h

\* A fold keeps what the hours hold, if what was heard in the hours it writes is
\* shown, but for the very first.
LEMMA FoldKeepsHeld ==
  ASSUME NEW cut \in Int, now \in Nat, Answered, HoursOver, HeardHeld,
         hours' = Written(hours, RollUp(cut)), UNCHANGED <<now, points, heard>>,
         \A t \in DOMAIN heard : HourOf(t) \in DOMAIN RollUp(cut) =>
           Shown(points, t, heard[t]) \/ Foremost(HourOf(t))'
  PROVE  HeardHeld'
  <1> DEFINE new == RollUp(cut)
  <1>1. Rolled(new, cut) /\ Series(points, now)
    BY RollUpIs DEF Answered
  <1>2. \A t \in DOMAIN heard : t \in Nat
    BY DEF Answered
  <1>3. \A t \in DOMAIN heard : Shown(points, t, heard[t]) /\ HourOf(t) \in DOMAIN new =>
          Between(new[HourOf(t)], heard[t])
    BY <1>1, <1>2, FoldHolds
  <1> HIDE DEF new
  <1>4. /\ DOMAIN hours' = DOMAIN hours \cup DOMAIN new
        /\ \A h \in DOMAIN new : hours'[h] = new[h]
        /\ \A h \in DOMAIN hours' : h \notin DOMAIN new => hours'[h] = hours[h]
    BY DEF Written, new
  <1>5. ASSUME NEW h \in DOMAIN hours, Foremost(h) PROVE Foremost(h)'
    <2>1. h \in Nat /\ IsHour(h)
      BY DEF HoursOver
    <2>2. ASSUME NEW g \in DOMAIN new, g < h PROVE FALSE
      <3>1. g \in Nat /\ IsHour(g) /\ Clean(points, new[g], g)
        BY <1>1 DEF Rolled
      <3>2. PICK a \in DOMAIN points : Standing(points, a, g)
        BY <3>1 DEF Clean
      <3>3. g + HourS <= h
        BY <2>1, <2>2, <3>1, HoursApart
      <3>4. a < g + HourS /\ h <= a /\ a \in Nat
        BY <1>1, <1>5, <3>2 DEF Standing, Foremost, Ats, Series
      <3>5. HourS \in Nat
        BY PriceAssumption DEF HourS, Minute
      <3> QED
        BY <2>1, <3>1, <3>3, <3>4, <3>5
    <2>3. \A g \in DOMAIN new : g \in Nat
      BY <1>1 DEF Rolled
    <2>4. \A g \in DOMAIN hours' : h <= g
      BY <1>4, <2>1, <2>2, <2>3, <1>5 DEF Foremost
    <2>5. \A a \in Ats' : h <= a
      BY <1>5 DEF Foremost, Ats
    <2> QED
      BY <2>4, <2>5 DEF Foremost
  <1>6. ASSUME NEW t \in DOMAIN heard', HourOf(t) \in DOMAIN hours'
        PROVE  Between(hours'[HourOf(t)], heard'[t]) \/ Foremost(HourOf(t))'
    <2>1. t \in DOMAIN heard /\ heard'[t] = heard[t]
      OBVIOUS
    <2>2. CASE HourOf(t) \in DOMAIN new
      BY <1>3, <1>4, <2>1, <2>2 DEF new
    <2>3. CASE HourOf(t) \notin DOMAIN new
      <3>1. HourOf(t) \in DOMAIN hours /\ hours'[HourOf(t)] = hours[HourOf(t)]
        BY <1>4, <1>6, <2>3
      <3>2. Between(hours[HourOf(t)], heard[t]) \/ Foremost(HourOf(t))
        BY <2>1, <3>1 DEF HeardHeld
      <3> QED
        BY <1>5, <2>1, <3>1, <3>2
    <2> QED
      BY <2>2, <2>3
  <1> QED
    BY <1>6 DEF HeardHeld

\* Pruning takes from the front only, so what was heard behind what is left is shown.
LEMMA PruneShows ==
  ASSUME now \in Nat, Answered, HeardShown, UNCHANGED heard,
         points' = [a \in {b \in Ats : ~Expired(points[b])} |-> points[a]]
  PROVE  HeardShown' /\ DOMAIN points' \subseteq DOMAIN points
  <1> DEFINE cut == now - KeepSpan
  <1>1. /\ DOMAIN points \subseteq Nat /\ cut \in Int /\ DOMAIN heard \subseteq Nat
        /\ \A a \in DOMAIN points : points[a].until \in Nat /\ a <= points[a].until
        /\ \A a, b \in DOMAIN points : a < b => points[a].until <= b
    BY PriceAssumption DEF Answered, Series, PriceInterval
  <1>2. /\ DOMAIN points' \subseteq DOMAIN points
        /\ \A a \in DOMAIN points' : points'[a] = points[a] /\ ~(points[a].until < cut)
        /\ \A a \in DOMAIN points : a \notin DOMAIN points' => points[a].until < cut
    BY DEF Ats, Expired
  <1> HIDE DEF cut
  <1>3. ASSUME NEW t \in DOMAIN heard, NEW b \in DOMAIN points', b < t
        PROVE  Shown(points', t, heard[t])
    <2>1. Shown(points, t, heard[t])
      BY <1>2, <1>3 DEF HeardShown, Ats
    <2>2. PICK a \in DOMAIN points : /\ a <= t /\ t <= points[a].until
                                     /\ points[a].price = heard[t]
                                     /\ \A c \in DOMAIN points : c <= t => c <= a
      BY <2>1 DEF Shown
    <2>3. a \in DOMAIN points'
      <3>1. b \in DOMAIN points /\ b <= a /\ ~(points[b].until < cut)
        BY <1>1, <1>2, <1>3, <2>2
      <3>2. b = a \/ points[b].until <= points[a].until
        <4>1. b < a => points[b].until <= a
          BY <1>1, <2>2, <3>1
        <4> QED
          BY <1>1, <2>2, <3>1, <4>1
      <3>3. b # a => ~(points[a].until < cut)
        BY <1>1, <2>2, <3>1, <3>2
      <3> QED
        BY <1>2, <2>2, <1>3, <3>3
    <2> QED
      BY <1>2, <2>2, <2>3 DEF Shown
  <1> QED
    BY <1>2, <1>3 DEF HeardShown, Ats

\* Hours fewer points begin before, or none are stored before, stay foremost.
LEMMA ForemostStays ==
  ASSUME now \in Nat, HoursOver, UNCHANGED hours, DOMAIN points' \subseteq DOMAIN points \cup {now},
         NEW h \in DOMAIN hours, Foremost(h)
  PROVE  Foremost(h)'
  <1>1. h \in Nat /\ h + HourS <= HourOf(now) /\ HourOf(now) <= now /\ HourOf(now) \in Int
        /\ HourS \in Nat
    BY HourIs DEF HoursOver
  <1>2. h <= now
    BY <1>1
  <1> QED
    BY <1>2 DEF Foremost, Ats

\* What is heard changes and the hours do not.
LEMMA HeldStays ==
  ASSUME now \in Nat, Answered, HoursOver, HeardHeld, UNCHANGED hours,
         DOMAIN points' \subseteq DOMAIN points \cup {now},
         \A t \in DOMAIN heard' : t = now \/ (t \in DOMAIN heard /\ heard'[t] = heard[t])
  PROVE  HeardHeld'
  <1>1. ASSUME NEW t \in DOMAIN heard', HourOf(t) \in DOMAIN hours
        PROVE  Between(hours[HourOf(t)], heard'[t]) \/ Foremost(HourOf(t))'
    <2>1. t # now
      <3>1. ASSUME t = now PROVE FALSE
        <4>1. HourOf(now) + HourS <= HourOf(now)
          BY <1>1, <3>1 DEF HoursOver
        <4>2. HourOf(now) \in Int /\ HourS \in Nat /\ HourS >= 60
          BY HourIs DEF Minute
        <4> QED
          BY <4>1, <4>2
      <3> QED
        BY <3>1
    <2>2. t \in DOMAIN heard /\ heard'[t] = heard[t]
      BY <2>1
    <2>3. Between(hours[HourOf(t)], heard[t]) \/ Foremost(HourOf(t))
      BY <1>1, <2>2 DEF HeardHeld
    <2> QED
      BY <1>1, <2>2, <2>3, ForemostStays
  <1> QED
    BY <1>1 DEF HeardHeld

LEMMA RebuildHolds ==
  ASSUME now \in Nat, Answered, HoursOver, HeardShown, HeardHeld, Rebuild
  PROVE  HeardHeld'
  <1>1. UNCHANGED <<now, points, heard>>
    BY DEF Rebuild
  <1>2. Series(points, now) /\ DOMAIN points \in SUBSET Nat /\ DOMAIN heard \subseteq Nat
        /\ points = [a \in DOMAIN points |-> points[a]]
    BY DEF Answered, Series
  <1>3. CASE points = <<>>
    <2>1. hours' = hours
      BY <1>3 DEF Rebuild
    <2> QED
      BY <1>1, <2>1 DEF HeardHeld, Foremost, Ats
  <1>4. CASE points # <<>>
    <2> DEFINE lo == Min(Ats)
               cut == RebuildFrom(lo)
               new == RollUp(cut)
    <2>1. Ats # {}
      <3>1. DOMAIN <<>> = {} /\ <<>> = [t \in {} |-> <<>>[t]]
        OBVIOUS
      <3>2. points = [a \in {} |-> points[a]] => points = <<>>
        BY <3>1
      <3> QED
        BY <1>2, <1>4, <3>2 DEF Ats
    <2>2. lo \in Ats /\ lo \in Nat /\ \A a \in Ats : lo <= a
      BY <1>2, <2>1, LeastMin DEF Ats
    <2>3. hours' = Written(hours, new)
      BY <1>4 DEF Rebuild
    <2> HIDE DEF lo
    <2>4. /\ HourOf(lo) \in Nat /\ IsHour(HourOf(lo)) /\ HourOf(lo) <= lo /\ HourS \in Nat
          /\ lo < HourOf(lo) + HourS /\ HourS >= 60
      BY <2>2, HourIs DEF Minute
    <2>5. \/ cut = HourOf(lo) /\ (DOMAIN hours = {} \/ ~(Min(DOMAIN hours) < HourOf(lo)))
          \/ cut = HourOf(lo) + HourS
      <3>1. DOMAIN hours # {} => hours # <<>>
        <4>1. DOMAIN <<>> = {}
          OBVIOUS
        <4> QED
          BY <4>1
      <3> QED
        BY <2>4, <3>1 DEF RebuildFrom
    <2>6. cut \in Int /\ cut # None /\ IsHour(cut)
      <3>1. IsHour(HourOf(lo) + HourS)
        <4> DEFINE H == HourS
                   l == HourOf(lo)
        <4>1. PICK k \in Int : l = k * H
          BY <2>4 DEF IsHour
        <4>2. H \in Nat /\ l \in Nat
          BY <2>4
        <4> HIDE DEF H, l
        <4>3. (k + 1) * H = k * H + H /\ k + 1 \in Int
          BY <4>2, Z3
        <4>4. l + H = (k + 1) * H
          BY <4>1, <4>3
        <4> QED
          BY <4>3, <4>4 DEF IsHour, H, l
      <3> HIDE DEF cut
      <3> QED
        BY <2>4, <2>5, <3>1 DEF None
    <2>7. \A h \in DOMAIN new : h >= HourOf(cut)
      BY <2>6 DEF RollUp
    <2>8. Rolled(new, cut)
      BY <1>2, <2>6, RollUpIs
    <2> HIDE DEF cut, new
    <2>9. \A h \in DOMAIN new : h >= cut /\ h \in Nat /\ IsHour(h)
      <3>1. HourOf(cut) = cut
        BY <2>6, HourOfHour
      <3> QED
        BY <2>7, <2>8, <3>1 DEF Rolled
    <2>10. \A h \in DOMAIN hours : h \in Nat
      BY DEF HoursOver
    <2>11. ASSUME NEW t \in DOMAIN heard, HourOf(t) \in DOMAIN new
           PROVE  Shown(points, t, heard[t]) \/ Foremost(HourOf(t))'
      <3> DEFINE h == HourOf(t)
      <3>1. h \in Nat /\ h <= t /\ t \in Nat /\ h >= cut /\ IsHour(h)
        BY <1>2, <2>9, <2>11, HourIs
      <3> HIDE DEF h
      <3>2. CASE lo < t
        BY <2>2, <3>2 DEF HeardShown
      <3>3. CASE ~(lo < t)
        <4>1. h <= lo
          BY <2>2, <3>1, <3>3
        <4>2. cut = HourOf(lo) /\ h = cut
          <5>1. ~(HourOf(lo) + HourS <= h)
            BY <2>4, <2>2, <3>1, <4>1
          <5>2. cut = HourOf(lo)
            BY <2>5, <3>1, <5>1
          <5>3. HourOf(lo) < h => HourOf(lo) + HourS <= h
            BY <2>4, <3>1, HoursApart
          <5> QED
            BY <2>4, <3>1, <5>1, <5>2, <5>3
        <4>3. \A g \in DOMAIN hours' : h <= g
          <5>1. DOMAIN hours' = DOMAIN hours \cup DOMAIN new
            BY <2>3 DEF Written
          <5>2. \A g \in DOMAIN hours : h <= g
            <6>1. CASE DOMAIN hours = {}
              BY <6>1
            <6>2. CASE DOMAIN hours # {}
              <7> DEFINE first == Min(DOMAIN hours)
              <7>1. first \in DOMAIN hours /\ \A g \in DOMAIN hours : first <= g
                <8>1. DOMAIN hours \in SUBSET Nat
                  BY <2>10
                <8> QED
                  BY <6>2, <8>1, LeastMin
              <7> HIDE DEF first
              <7>2. ~(first < HourOf(lo))
                <8> DEFINE l == HourOf(lo)
                           H == HourS
                <8>1. /\ l \in Nat /\ H \in Nat /\ H >= 60 /\ cut = l
                      /\ ((cut = l /\ ~(first < l)) \/ cut = l + H)
                  BY <2>4, <2>5, <4>2, <6>2 DEF first
                <8> HIDE DEF l, H
                <8>2. cut # l + H
                  BY <8>1
                <8> QED
                  BY <8>1, <8>2 DEF l
              <7> QED
                BY <2>4, <2>10, <4>2, <7>1, <7>2
            <6> QED
              BY <6>1, <6>2
          <5> QED
            BY <2>9, <4>2, <5>1, <5>2
        <4>4. \A a \in Ats' : h <= a
          BY <1>1, <1>2, <2>2, <3>1, <4>1 DEF Ats
        <4> QED
          BY <4>3, <4>4 DEF Foremost, h
      <3> QED
        BY <3>2, <3>3
    <2> QED
      BY <1>1, <2>3, <2>6, <2>11, FoldKeepsHeld DEF new
  <1> QED
    BY <1>3, <1>4

LEMMA HoldStep ==
  WindowHoldsRolls /\ RefoldsWhole /\ HoldInv /\ [PriceNext]_priceVars => HoldInv'
  <1> SUFFICES ASSUME WindowHoldsRolls, RefoldsWhole, HoldInv, [PriceNext]_priceVars PROVE HoldInv'
    OBVIOUS
  <1>1. /\ EchoInv /\ now \in Nat /\ backs \in Nat
        /\ backs = 0 => Answered /\ HoursOver /\ HeardShown /\ HeardHeld
    BY DEF HoldInv, EchoInv, AnswersInv
  <1>2. EchoInv'
    BY <1>1, EchoStep
  <1> SUFFICES ASSUME backs' = 0 PROVE HeardShown' /\ HeardHeld'
    BY <1>2 DEF HoldInv
  <1>3. ASSUME backs = 0, UNCHANGED <<points, hours, heard>> PROVE HeardShown' /\ HeardHeld'
    BY <1>1, <1>3 DEF HeardShown, HeardHeld, Foremost, Ats
  <1>4. ASSUME NEW since, backs = 0, RejectEchoes(since), UNCHANGED <<now, hours>>
        PROVE  HeardShown' /\ HeardHeld'
    <2>1. /\ DOMAIN heard' \subseteq DOMAIN heard /\ \A t \in DOMAIN heard' : heard'[t] = heard[t]
          /\ DOMAIN points' \subseteq DOMAIN points
          /\ \A t \in DOMAIN heard' : Shown(points, t, heard[t]) => Shown(points', t, heard'[t])
      BY <1>1, <1>4, RejectShows
    <2>2. HeardShown'
      BY <1>1, <1>4, <2>1 DEF HeardShown, Ats
    <2> QED
      BY <1>1, <1>4, <2>1, <2>2, HeldStays
  <1>5. ASSUME NEW cut \in Int, backs = 0, UNCHANGED <<now, points, heard>>,
               hours' = Written(hours, RollUp(cut)), cut # None,
               HourOf(cut) >= now - KeepSpan \/ \E a \in Ats : a < HourOf(cut)
        PROVE  HeardShown' /\ HeardHeld'
    <2>1. HeardShown'
      BY <1>1, <1>5 DEF HeardShown, Ats
    <2>2. /\ DOMAIN heard \subseteq Nat /\ now - KeepSpan \in Int
          /\ Ats \subseteq Nat /\ HourOf(cut) \in Int
          /\ \A t \in DOMAIN heard : t >= now - KeepSpan => Shown(points, t, heard[t])
      BY <1>1, <1>5, PriceAssumption, HourIs DEF Answered, Series, Ats
    <2>3. ASSUME NEW t \in DOMAIN heard, HourOf(t) \in DOMAIN RollUp(cut)
          PROVE  Shown(points, t, heard[t])
      <3>1. HourOf(t) >= HourOf(cut) /\ HourOf(t) \in Nat /\ HourOf(t) <= t
        BY <1>5, <2>2, <2>3, HourIs DEF RollUp
      <3>2. CASE HourOf(cut) >= now - KeepSpan
        <4>1. t >= now - KeepSpan
          BY <2>2, <3>1, <3>2
        <4> QED
          BY <2>2, <4>1
      <3>3. CASE \E a \in Ats : a < HourOf(cut)
        <4>1. \E a \in Ats : a < t
          BY <2>2, <3>1, <3>3
        <4> QED
          BY <1>1, <1>5, <4>1 DEF HeardShown
      <3> QED
        BY <1>5, <3>2, <3>3
    <2> QED
      BY <1>1, <1>5, <2>1, <2>3, FoldKeepsHeld
  <1>6. CASE Repair
    <2>1. backs = 0 /\ RejectEchoes(None) /\ UNCHANGED <<now, hours>>
      BY <1>6 DEF Repair
    <2> QED
      BY <1>4, <2>1
  <1>7. CASE Rebuild
    <2>1. backs = 0 /\ UNCHANGED <<points, heard>>
      BY <1>7 DEF Rebuild
    <2>2. HeardHeld'
      BY <1>1, <1>7, <2>1, RebuildHolds
    <2> QED
      BY <1>1, <2>1, <2>2 DEF HeardShown, Ats
  <1>8. CASE Sample
    <2>1. /\ backs = 0 /\ UNCHANGED <<now, hours>>
          /\ \/ UNCHANGED <<points, heard>>
             \/ \E p \in Prices : points' = PutReading(now, p) /\ heard' = Put(heard, now, p)
      BY <1>8 DEF Sample
    <2>2. CASE UNCHANGED <<points, heard>>
      BY <1>3, <2>1, <2>2
    <2>3. CASE \E p \in Prices : points' = PutReading(now, p) /\ heard' = Put(heard, now, p)
      <3>1. PICK p \in Prices : points' = PutReading(now, p) /\ heard' = Put(heard, now, p)
        BY <2>3
      <3>2. /\ DOMAIN heard' = DOMAIN heard \cup {now} /\ heard'[now] = p
            /\ \A t \in DOMAIN heard : t # now => heard'[t] = heard[t]
        BY <3>1 DEF Put
      <3>3. /\ Shown(points', now, p)
            /\ \A t \in Nat : \A v : t < now /\ Shown(points, t, v) => Shown(points', t, v)
            /\ DOMAIN points' \subseteq DOMAIN points \cup {now}
        BY <1>1, <2>1, <3>1, ReadingShows
      <3>4. DOMAIN heard \subseteq 0..now
        BY <1>1, <2>1 DEF Answered
      <3>5. ASSUME NEW t \in DOMAIN heard', NEW a \in DOMAIN points', a < t
            PROVE  Shown(points', t, heard'[t])
        <4>1. CASE t = now
          BY <3>2, <3>3, <4>1
        <4>2. CASE t # now
          <5>1. t \in DOMAIN heard /\ t \in Nat /\ t < now /\ heard'[t] = heard[t]
            BY <1>1, <3>2, <3>4, <4>2
          <5>2. a \in DOMAIN points
            BY <1>1, <3>3, <3>5, <5>1
          <5>3. Shown(points, t, heard[t])
            BY <1>1, <2>1, <3>5, <5>1, <5>2 DEF HeardShown, Ats
          <5> QED
            BY <3>3, <5>1, <5>3
        <4> QED
          BY <4>1, <4>2
      <3>6. HeardShown'
        BY <3>5 DEF HeardShown, Ats
      <3>7. HeardHeld'
        BY <1>1, <2>1, <3>2, <3>3, HeldStays
      <3> QED
        BY <3>6, <3>7
    <2> QED
      BY <2>1, <2>2, <2>3
  <1>9. CASE Echoes
    <2>1. backs = 0 /\ RejectEchoes(now - EchoSpan) /\ UNCHANGED <<now, hours>>
      BY <1>9 DEF Echoes
    <2> QED
      BY <1>4, <2>1
  <1>10. CASE Refold
    <2>1. backs = 0 /\ pc = "refold" /\ UNCHANGED <<now, points, heard>>
      BY <1>10 DEF Refold
    <2>2. CASE ~Folded(echoFrom)
      <3>1. UNCHANGED hours
        BY <1>10, <2>2 DEF Refold
      <3> QED
        BY <1>3, <2>1, <3>1
    <2>3. CASE Folded(echoFrom)
      <3>1. echoFrom \in Int /\ echoFrom # None
        BY <1>1, <2>1, <2>3 DEF EchoInv, CleanBefore, Folded
      <3>2. hours' = Written(hours, RollUp(echoFrom))
        BY <1>10, <2>3 DEF Refold
      <3>3. HourOf(echoFrom) >= now - KeepSpan \/ \E a \in Ats : a < HourOf(echoFrom)
        BY <2>1, <2>3 DEF RefoldsWhole
      <3> QED
        BY <1>5, <2>1, <3>1, <3>2, <3>3
    <2> QED
      BY <2>2, <2>3
  <1>11. CASE Roll
    <2> DEFINE cut == now - RollSpan
    <2>1. backs = 0 /\ UNCHANGED <<now, points, heard>> /\ hours' = Written(hours, RollUp(cut))
      BY <1>11 DEF Roll
    <2>2. cut \in Int /\ KeepSpan \in Nat /\ RollSpan \in Nat
      BY <1>1, PriceAssumption
    <2>3. HourOf(cut) \in Int /\ cut < HourOf(cut) + HourS /\ HourS \in Nat
      BY <2>2, HourIs
    <2>4. HourOf(cut) >= now - KeepSpan
      <3> DEFINE g == HourOf(cut)
                 H == HourS
      <3>1. g \in Int /\ now - RollSpan < g + H /\ H \in Nat /\ KeepSpan >= RollSpan + H
        BY <2>3 DEF WindowHoldsRolls
      <3> HIDE DEF g, H
      <3>2. g >= now - KeepSpan
        BY <1>1, <2>2, <3>1
      <3> QED
        BY <3>2 DEF g
    <2> HIDE DEF cut
    <2>5. CASE cut # None
      BY <1>5, <2>1, <2>2, <2>4, <2>5
    <2>6. CASE cut = None
      <3>1. HeardShown'
        BY <1>1, <2>1 DEF HeardShown, Ats
      <3>2. now - KeepSpan <= 0
        <4> DEFINE H == HourS
        <4>1. H \in Nat /\ now - RollSpan = -1 /\ KeepSpan >= RollSpan + H /\ H >= 1
          <5>1. HourS \in Nat /\ HourS >= 60
            BY HourIs DEF Minute
          <5> QED
            BY <2>6, <5>1 DEF None, cut, WindowHoldsRolls
        <4> HIDE DEF H
        <4> QED
          BY <1>1, <2>2, <4>1
      <3>3. \A t \in DOMAIN heard : Shown(points, t, heard[t])
        <4>1. \A t \in DOMAIN heard : t \in Nat /\ t >= now - KeepSpan
          BY <1>1, <2>1, <2>2, <3>2 DEF Answered
        <4> QED
          BY <1>1, <2>1, <4>1 DEF Answered
      <3>4. HeardHeld'
        BY <1>1, <2>1, <2>2, <3>3, FoldKeepsHeld
      <3> QED
        BY <3>1, <3>4
    <2> QED
      BY <2>5, <2>6
  <1>12. CASE Prune
    <2>1. /\ backs = 0 /\ UNCHANGED <<now, hours, heard>>
          /\ UNCHANGED points \/ points' = [a \in {b \in Ats : ~Expired(points[b])} |-> points[a]]
      BY <1>12 DEF Prune
    <2>2. CASE UNCHANGED points
      BY <1>3, <2>1, <2>2
    <2>3. CASE points' = [a \in {b \in Ats : ~Expired(points[b])} |-> points[a]]
      <3>1. HeardShown' /\ DOMAIN points' \subseteq DOMAIN points
        BY <1>1, <2>1, <2>3, PruneShows
      <3>2. HeardHeld'
        BY <1>1, <2>1, <3>1, HeldStays
      <3> QED
        BY <3>1, <3>2
    <2> QED
      BY <2>1, <2>2, <2>3
  <1>13. CASE Sleep \/ Stop
    <2>1. backs = 0 /\ UNCHANGED <<points, hours, heard>>
      BY <1>13 DEF Sleep, Stop
    <2> QED
      BY <1>3, <2>1
  <1>14. CASE SetBack
    BY <1>1, <1>14 DEF SetBack
  <1>15. CASE UNCHANGED priceVars
    <2>1. backs = 0 /\ UNCHANGED <<points, hours, heard>>
      BY <1>15 DEF priceVars
    <2> QED
      BY <1>3, <2>1
  <1> QED
    BY <1>6, <1>7, <1>8, <1>9, <1>10, <1>11, <1>12, <1>13, <1>14, <1>15 DEF PriceNext

\* Every reading on record in a stored hour but the first lies between its low and
\* high, for any prices and spans, however often the hour is folded again and from
\* however few points (store.py rollup_price_hours, rebuild_price_hours), provided
\* the window is wider than what a roll-up folds, as 90 days are than two, and no
\* refold reaches back to hours whose first points were pruned.
THEOREM HoursHoldWhatWasHeard ==
  WindowHoldsRolls /\ PriceSpec /\ []RefoldsWhole => []HoursHoldEveryReading
  <1>1. PriceInit => HoldInv
    <2>1. DOMAIN <<>> = {}
      OBVIOUS
    <2> QED
      BY <2>1, EchoStart DEF PriceInit, HoldInv, HeardShown, HeardHeld
  <1>2. WindowHoldsRolls /\ RefoldsWhole /\ HoldInv /\ [PriceNext]_priceVars => HoldInv'
    BY HoldStep
  <1>3. WindowHoldsRolls => WindowHoldsRolls'
    BY DEF WindowHoldsRolls
  <1>4. HoldInv => HoursHoldEveryReading
    <2> SUFFICES ASSUME HoldInv, backs = 0, NEW t \in DOMAIN heard,
                        HourOf(t) \in DOMAIN hours, HourOf(t) # Min(DOMAIN hours)
                 PROVE  Between(hours[HourOf(t)], heard[t])
      BY DEF HoursHoldEveryReading, Between
    <2> DEFINE h == HourOf(t)
               first == Min(DOMAIN hours)
    <2>1. DOMAIN hours \in SUBSET Nat /\ DOMAIN hours # {} /\ h \in DOMAIN hours
      BY DEF HoldInv, EchoInv, HoursOver
    <2>2. first \in DOMAIN hours /\ \A g \in DOMAIN hours : first <= g
      BY <2>1, LeastMin
    <2> HIDE DEF h, first
    <2>3. ~Foremost(h)
      <3>1. ASSUME h <= first PROVE FALSE
        <4>1. h \in Nat /\ first \in Nat /\ first <= h
          BY <2>1, <2>2
        <4> QED
          BY <3>1, <4>1 DEF h, first
      <3> QED
        BY <2>2, <3>1 DEF Foremost
    <2> QED
      BY <2>1, <2>3 DEF HoldInv, HeardHeld, h
  <1> QED
    BY <1>1, <1>2, <1>3, <1>4, PTL DEF PriceSpec

-----------------------------------------------------------------------------
(* The readings fit the minutes. *)

\* Before the reading of the minute is taken, a reading of the same minute on
\* record is one of before a stop.
Spare(e) == IF e = now /\ pc \in {"repair", "rebuild", "sample"} THEN stops - 1 ELSE stops

Counted ==
  Ats # {} => \E e \in 0..now : /\ EndsAt(points, e) /\ (e = now \/ e + Minute <= now)
                                /\ Fits(points, e, Spare(e))

CountInv == stops \in Nat /\ (backs = 0 => Counted)

\* What fits with fewer readings to spare fits with more.
LEMMA FitsLoosely ==
  ASSUME NEW top \in Nat, NEW ps, Series(ps, top), NEW e \in Int, NEW j \in Int, NEW k \in Int,
         Fits(ps, e, j), j <= k
  PROVE  Fits(ps, e, k)
  <1> SUFFICES ASSUME NEW a \in DOMAIN ps
               PROVE  Minute * (CountOf(ps, From(ps, a)) - 1 - k) <= e - a
    BY DEF Fits
  <1> DEFINE c == CountOf(ps, From(ps, a))
  <1>1. c \in Int
    <2>1. From(ps, a) \in SUBSET DOMAIN ps
      BY DEF From
    <2> QED
      BY <2>1, CountSteps
  <1>2. Minute * (c - 1 - j) <= e - a /\ a \in Int
    BY DEF Fits, Series
  <1> HIDE DEF c
  <1>3. Minute * (c - 1 - k) <= e - a
    BY <1>1, <1>2 DEF Minute
  <1> QED
    BY <1>3 DEF c

\* A reading is taken: it counts for a minute of its own, or for the one to spare.
LEMMA ReadingCounts ==
  ASSUME NEW p \in Prices, now \in Nat, stops \in Nat, Answered, points' = PutReading(now, p),
         pc = "sample", Counted, Series(points', now)
  PROVE  EndsAt(points', now) /\ Fits(points', now, stops)
  <1> DEFINE last == Max(Ats)
             cur == points[last]
             up(a) == CountOf(points, From(points, a))
             on(a) == CountOf(points', From(points', a))
  <1>1. /\ DOMAIN points \in SUBSET (0..now)
        /\ \A a \in DOMAIN points :
             /\ points[a] \in PriceInterval /\ points[a].at = a /\ a <= points[a].until
             /\ points[a].until <= now /\ points[a].until \in Nat /\ a <= now /\ a \in Nat
             /\ points[a].polls \in Nat \ {0}
        /\ Series(points, now)
    BY DEF Answered, Series, PriceInterval
  <1>2. \A a \in DOMAIN points : From(points, a) \in SUBSET DOMAIN points /\ up(a) \in Int
    <2>1. \A a \in DOMAIN points : From(points, a) \in SUBSET DOMAIN points
      BY DEF From
    <2> QED
      BY <1>1, <2>1, CountSteps
  <1>3. Ats # {} =>
          \E e \in 0..now : /\ EndsAt(points, e) /\ (e = now \/ e + Minute <= now)
                            /\ \A a \in DOMAIN points :
                                 Minute * (up(a) - 1 - (IF e = now THEN stops - 1 ELSE stops)) <= e - a
    BY DEF Counted, Fits, Spare
  <1>4. \A a \in DOMAIN points : Minute * (up(a) + 1 - 1 - stops) <= now - a
    <2> SUFFICES ASSUME NEW a \in DOMAIN points
                 PROVE  Minute * (up(a) + 1 - 1 - stops) <= now - a
      OBVIOUS
    <2>1. PICK e \in 0..now :
            /\ e = now \/ e + Minute <= now
            /\ Minute * (up(a) - 1 - (IF e = now THEN stops - 1 ELSE stops)) <= e - a
      BY <1>3 DEF Ats
    <2> DEFINE c == up(a)
    <2>2. c \in Int /\ a \in Int
      BY <1>1, <1>2
    <2>3. /\ e = now \/ e + Minute <= now
          /\ Minute * (c - 1 - (IF e = now THEN stops - 1 ELSE stops)) <= e - a
      BY <2>1
    <2> HIDE DEF c
    <2>4. Minute * (c + 1 - 1 - stops) <= now - a
      <3>1. CASE e = now
        BY <2>2, <2>3, <3>1 DEF Minute
      <3>2. CASE e # now
        BY <2>2, <2>3, <3>2 DEF Minute
      <3> QED
        BY <3>1, <3>2
    <2> QED
      BY <2>4 DEF c
  <1>5. CASE Ats # {} /\ cur.price = p
    <2> DEFINE x == Extended(cur, now, 1)
    <2>1. last \in DOMAIN points /\ \A a \in DOMAIN points : a <= last
      BY <1>1, <1>5, BoundedMax DEF Ats
    <2>2. points' = Put(points, last, x)
      BY <1>5 DEF PutReading
    <2> HIDE DEF last
    <2>3. /\ cur \in PriceInterval /\ cur.until <= now /\ cur.until \in Nat /\ 1 \in Nat
          /\ cur.polls \in Nat
      BY <1>1, <2>1
    <2> HIDE DEF cur
    <2>4. x.until = Later(cur.until, now) /\ x.polls = cur.polls + 1
      BY <2>3, ExtendedIs
    <2> HIDE DEF x
    <2>5. x.until = now
      BY <2>3, <2>4 DEF Later
    <2>6. /\ DOMAIN points' = DOMAIN points /\ points'[last] = x
          /\ \A a \in DOMAIN points : a # last => points'[a] = points[a]
      BY <2>1, <2>2 DEF Put
    <2>7. EndsAt(points', now)
      BY <2>1, <2>5, <2>6 DEF EndsAt
    <2>8. ASSUME NEW a \in DOMAIN points' PROVE on(a) = up(a) + 1
      <3> DEFINE F == From(points, a)
      <3>1. From(points', a) = F /\ F \in SUBSET DOMAIN points /\ last \in F
        BY <1>1, <2>1, <2>6 DEF From
      <3> HIDE DEF F
      <3>2. CountOf(points', F) = points'[last].polls + CountOf(points', F \ {last})
        <4>1. F \in SUBSET DOMAIN points'
          BY <2>6, <3>1
        <4> QED
          BY <3>1, <4>1, CountSteps
      <3>3. /\ CountOf(points, F) = points[last].polls + CountOf(points, F \ {last})
            /\ CountOf(points, F \ {last}) \in Int
        BY <1>1, <3>1, CountSteps
      <3>4. CountOf(points', F \ {last}) = CountOf(points, F \ {last})
        <4>1. /\ F \ {last} \in SUBSET DOMAIN points /\ F \ {last} \subseteq DOMAIN points'
              /\ \A y \in F \ {last} : points'[y].polls = points[y].polls
          BY <2>6, <3>1
        <4> QED
          BY <1>1, <4>1, CountAlike
      <3>5. CountOf(points', F) = CountOf(points, F) + 1
        BY <2>3, <2>4, <2>6, <3>2, <3>3, <3>4 DEF cur
      <3> QED
        BY <3>1, <3>5 DEF F
    <2>9. Fits(points', now, stops)
      <3> SUFFICES ASSUME NEW a \in DOMAIN points'
                   PROVE  Minute * (on(a) - 1 - stops) <= now - a
        BY DEF Fits
      <3>1. a \in DOMAIN points /\ on(a) = up(a) + 1
        BY <2>6, <2>8
      <3>2. Minute * (up(a) + 1 - 1 - stops) <= now - a /\ up(a) \in Int /\ a \in Int
        BY <1>1, <1>2, <1>4, <3>1
      <3> HIDE DEF on, up
      <3> QED
        BY <3>1, <3>2 DEF Minute
    <2> QED
      BY <2>7, <2>9
  <1>6. CASE ~(Ats # {} /\ cur.price = p)
    <2> DEFINE n == IF now \in Ats THEN points[now].polls ELSE 1
               x == Interval(now, now, n, p)
    <2>1. points' = Put(points, now, x)
      BY <1>6, Zenon DEF PutReading
    <2> HIDE DEF cur, last
    <2>2. n \in Nat \ {0}
      BY <1>1 DEF Ats
    <2> HIDE DEF n
    <2>3. x.polls = n /\ x.until = now
      BY DEF Interval
    <2> HIDE DEF x
    <2>4. /\ DOMAIN points' = DOMAIN points \cup {now} /\ points'[now] = x
          /\ \A a \in DOMAIN points : a # now => points'[a] = points[a]
      BY <2>1 DEF Put
    <2>5. EndsAt(points', now)
      BY <1>1, <2>3, <2>4 DEF EndsAt
    <2>6. CASE now \in DOMAIN points
      <3>1. ASSUME NEW a \in DOMAIN points' PROVE on(a) = up(a) /\ a \in DOMAIN points
        <4>1. From(points', a) = From(points, a) /\ a \in DOMAIN points
          BY <2>4, <2>6 DEF From
        <4>2. /\ From(points, a) \in SUBSET DOMAIN points /\ From(points, a) \subseteq DOMAIN points'
              /\ \A y \in From(points, a) : points'[y].polls = points[y].polls
          BY <2>3, <2>4, <2>6 DEF From, n, Ats
        <4>3. CountOf(points', From(points, a)) = CountOf(points, From(points, a))
          BY <1>1, <4>2, CountAlike
        <4> QED
          BY <4>1, <4>3
      <3>2. Fits(points', now, stops)
        <4> SUFFICES ASSUME NEW a \in DOMAIN points'
                     PROVE  Minute * (on(a) - 1 - stops) <= now - a
          BY DEF Fits
        <4>1. on(a) = up(a) /\ up(a) \in Int /\ a \in Int
              /\ Minute * (up(a) + 1 - 1 - stops) <= now - a
          BY <1>1, <1>2, <1>4, <3>1
        <4> HIDE DEF on, up
        <4> QED
          BY <4>1 DEF Minute
      <3> QED
        BY <2>5, <3>2
    <2>7. CASE now \notin DOMAIN points
      <3>1. points'[now].polls = 1 /\ now \in DOMAIN points'
        BY <2>3, <2>4, <2>7 DEF n, Ats
      <3>2. ASSUME NEW a \in DOMAIN points PROVE on(a) = up(a) + 1
        <4> DEFINE F == From(points', a)
        <4>1. /\ F \in SUBSET DOMAIN points' /\ now \in F /\ F \ {now} = From(points, a)
              /\ From(points, a) \in SUBSET DOMAIN points
              /\ From(points, a) \subseteq DOMAIN points'
          BY <1>1, <2>4, <2>7 DEF From
        <4>2. \A y \in From(points, a) : points'[y].polls = points[y].polls
          BY <2>4, <2>7, <4>1
        <4> HIDE DEF F
        <4>3. CountOf(points', F) = points'[now].polls + CountOf(points', F \ {now})
          BY <4>1, CountSteps
        <4>4. CountOf(points', From(points, a)) = CountOf(points, From(points, a))
          BY <1>1, <4>1, <4>2, CountAlike
        <4>5. CountOf(points', F) = 1 + up(a) /\ up(a) \in Int
          BY <1>2, <3>1, <4>1, <4>3, <4>4
        <4> HIDE DEF up
        <4> QED
          BY <4>5 DEF F
      <3>3. on(now) = 1
        <4> DEFINE F == From(points', now)
        <4>1. F = {now}
          BY <1>1, <2>4 DEF From
        <4>2. F \in SUBSET DOMAIN points' /\ now \in F /\ F \ {now} = {}
          BY <3>1, <4>1
        <4> HIDE DEF F
        <4>3. CountOf(points', F) = points'[now].polls + CountOf(points', F \ {now})
          BY <4>2, CountSteps
        <4>4. CountOf(points', {}) = 0
          <5>1. {} \in SUBSET DOMAIN points'
            OBVIOUS
          <5> QED
            BY <5>1, CountSteps
        <4> QED
          BY <3>1, <4>2, <4>3, <4>4 DEF F
      <3>4. Fits(points', now, stops)
        <4> SUFFICES ASSUME NEW a \in DOMAIN points'
                     PROVE  Minute * (on(a) - 1 - stops) <= now - a
          BY DEF Fits
        <4>1. CASE a \in DOMAIN points
          <5>1. on(a) = up(a) + 1
            BY <3>2, <4>1
          <5>2. Minute * (up(a) + 1 - 1 - stops) <= now - a /\ up(a) \in Int /\ a \in Int
            BY <1>1, <1>2, <1>4, <4>1
          <5> HIDE DEF on, up
          <5> QED
            BY <5>1, <5>2 DEF Minute
        <4>2. CASE a \notin DOMAIN points
          <5>1. a = now /\ on(a) = 1
            BY <2>4, <3>3, <4>2
          <5> HIDE DEF on
          <5> QED
            BY <5>1 DEF Minute
        <4> QED
          BY <4>1, <4>2
      <3> QED
        BY <2>5, <3>4
    <2> QED
      BY <2>6, <2>7
  <1> QED
    BY <1>5, <1>6

LEMMA CountedStart == PriceInit => CountInv
  BY DEF PriceInit, CountInv, Counted, Ats

\* The clock stands or moves on by a minute, and the readings stay as they were.
LEMMA CountedLater ==
  ASSUME now \in Nat, stops \in Nat, stops' \in Nat, Answered, Counted, UNCHANGED points,
         \/ now' = now /\ (stops' = stops /\ pc' \in {"repair", "rebuild", "sample"} =>
                             pc \in {"repair", "rebuild", "sample"})
         \/ now' = now + Minute,
         stops' = stops \/ stops' = stops + 1
  PROVE  Counted'
  <1> SUFFICES ASSUME Ats # {}
               PROVE  \E e \in 0..now' : /\ EndsAt(points, e) /\ (e = now' \/ e + Minute <= now')
                                         /\ Fits(points, e, Spare(e)')
    BY DEF Counted, Ats, EndsAt, Fits, From, CountOf, PollsIn, Added
  <1>1. PICK e \in 0..now : /\ EndsAt(points, e) /\ (e = now \/ e + Minute <= now)
                            /\ Fits(points, e, Spare(e))
    BY DEF Counted
  <1>2. e \in 0..now' /\ (e = now' \/ e + Minute <= now')
    BY <1>1 DEF Minute
  <1>3. Spare(e) \in Int /\ Spare(e)' \in Int /\ Spare(e) <= Spare(e)'
    <2> DEFINE old == Spare(e)
               new == Spare(e)'
    <2>1. old = IF e = now /\ pc \in {"repair", "rebuild", "sample"} THEN stops - 1 ELSE stops
      BY DEF Spare
    <2>2. new = IF e = now' /\ pc' \in {"repair", "rebuild", "sample"} THEN stops' - 1 ELSE stops'
      BY DEF Spare
    <2>3. e \in 0..now
      BY <1>1
    <2> HIDE DEF old, new
    <2>4. old \in Int /\ new \in Int /\ old <= new
      <3>1. stops \in Int /\ stops' \in Int /\ now \in Int /\ e \in Int
        BY <2>3
      <3>2. /\ old \in {stops - 1, stops} /\ new \in {stops' - 1, stops'}
        BY <2>1, <2>2
      <3>3. CASE stops' = stops + 1
        BY <3>1, <3>2, <3>3
      <3>4. CASE stops' = stops /\ now' = now + Minute
        <4>1. e # now'
          BY <2>3, <3>4 DEF Minute
        <4>2. new = stops'
          BY <2>2, <4>1
        <4> QED
          BY <3>1, <3>2, <3>4, <4>2
      <3>5. CASE stops' = stops /\ now' # now + Minute
        <4>1. now' = now /\ (pc' \in {"repair", "rebuild", "sample"} =>
                                pc \in {"repair", "rebuild", "sample"})
          BY <3>5
        <4>2. new = stops - 1 => old = stops - 1
          <5>1. CASE e = now /\ pc' \in {"repair", "rebuild", "sample"}
            BY <2>1, <4>1, <5>1
          <5>2. CASE ~(e = now /\ pc' \in {"repair", "rebuild", "sample"})
            <6>1. new = stops
              BY <2>2, <3>5, <4>1, <5>2
            <6> QED
              BY <3>1, <6>1
          <5> QED
            BY <5>1, <5>2
        <4> QED
          BY <3>1, <3>2, <3>5, <4>2
      <3> QED
        BY <3>3, <3>4, <3>5
    <2> QED
      BY <2>4 DEF old, new
  <1>4. Fits(points, e, Spare(e)')
    <2>1. Series(points, now)
      BY DEF Answered
    <2> QED
      BY <1>1, <1>3, <2>1, FitsLoosely
  <1> QED
    BY <1>1, <1>2, <1>4

\* Echoes are set aside.
LEMMA CountedReject ==
  ASSUME NEW since, now \in Nat, stops \in Nat, Answered, Counted, RejectEchoes(since),
         now' = now, stops' = stops,
         pc' \in {"repair", "rebuild", "sample"} => pc \in {"repair", "rebuild", "sample"}
  PROVE  Counted'
  <1> DEFINE res == Rejecting(EchoesIn(CheckRows(since)))
  <1>1. SetAside(res) /\ points' = res.points
    BY EchoesSetAside DEF RejectEchoes
  <1> HIDE DEF res
  <1>2. DOMAIN points' \subseteq DOMAIN points /\ Series(points', now)
    BY <1>1 DEF SetAside
  <1> SUFFICES ASSUME DOMAIN points' # {}
               PROVE  \E e \in 0..now : /\ EndsAt(points', e) /\ (e = now \/ e + Minute <= now)
                                        /\ Fits(points', e, Spare(e)')
    BY DEF Counted, Ats, EndsAt, Fits, From, CountOf, PollsIn, Added
  <1>3. PICK e \in 0..now : /\ EndsAt(points, e) /\ (e = now \/ e + Minute <= now)
                            /\ Fits(points, e, Spare(e))
    BY <1>2 DEF Counted, Ats
  <1>4. e \in Int /\ Spare(e) \in Int /\ Spare(e)' \in Int /\ Spare(e) <= Spare(e)'
    BY DEF Spare
  <1>5. EndsAt(points', e) /\ Fits(points', e, Spare(e))
    BY <1>1, <1>3, <1>4 DEF SetAside
  <1>6. Fits(points', e, Spare(e)')
    BY <1>2, <1>4, <1>5, FitsLoosely
  <1> QED
    BY <1>3, <1>5, <1>6

\* Old intervals go: what is left is the end of the series.
LEMMA CountedPrune ==
  ASSUME now \in Nat, stops \in Nat, Answered, Counted, UNCHANGED <<now, stops>>,
         points' = [a \in {b \in Ats : ~Expired(points[b])} |-> points[a]],
         pc = "prune", pc' = "sleep"
  PROVE  Counted'
  <1>1. /\ DOMAIN points' \subseteq DOMAIN points
        /\ \A a \in DOMAIN points' : points'[a] = points[a]
        /\ \A a \in DOMAIN points : a \notin DOMAIN points' => points[a].until < now - KeepSpan
        /\ \A a \in DOMAIN points' : ~(points[a].until < now - KeepSpan)
    BY DEF Ats, Expired
  <1>2. /\ \A a \in DOMAIN points : points[a].until \in Int /\ a \in Int /\ a <= points[a].until
        /\ \A a, b \in DOMAIN points : a < b => points[a].until <= b
        /\ now - KeepSpan \in Int /\ Series(points, now)
    BY PriceAssumption DEF Answered, Series, PriceInterval
  <1>3. ASSUME NEW a \in DOMAIN points', NEW b \in DOMAIN points, a <= b
        PROVE  b \in DOMAIN points'
    <2>1. points[a].until <= points[b].until
      BY <1>1, <1>2, <1>3
    <2> QED
      BY <1>1, <1>2, <2>1
  <1> SUFFICES ASSUME DOMAIN points' # {}
               PROVE  \E e \in 0..now : /\ EndsAt(points', e) /\ (e = now \/ e + Minute <= now)
                                        /\ Fits(points', e, Spare(e)')
    BY DEF Counted, Ats, EndsAt, Fits, From, CountOf, PollsIn, Added
  <1>4. PICK e \in 0..now : /\ EndsAt(points, e) /\ (e = now \/ e + Minute <= now)
                            /\ Fits(points, e, Spare(e))
    BY <1>1 DEF Counted, Ats
  <1>5. Spare(e) = stops /\ Spare(e)' = stops
    BY DEF Spare
  <1>6. EndsAt(points', e)
    <2>1. PICK l \in DOMAIN points : (\A b \in DOMAIN points : b <= l) /\ points[l].until = e
      BY <1>4 DEF EndsAt
    <2>2. PICK a : a \in DOMAIN points'
      OBVIOUS
    <2>3. l \in DOMAIN points'
      BY <1>1, <1>3, <2>1, <2>2
    <2> QED
      BY <1>1, <2>1, <2>3 DEF EndsAt
  <1>7. ASSUME NEW a \in DOMAIN points'
        PROVE  CountOf(points', From(points', a)) = CountOf(points, From(points, a))
    <2>1. From(points', a) = From(points, a)
      BY <1>1, <1>2, <1>3 DEF From
    <2>2. /\ From(points, a) \in SUBSET DOMAIN points /\ From(points, a) \subseteq DOMAIN points'
          /\ \A y \in From(points, a) : points'[y].polls = points[y].polls
      BY <1>1, <2>1 DEF From
    <2>3. CountOf(points', From(points, a)) = CountOf(points, From(points, a))
      BY <1>2, <2>2, CountAlike
    <2> QED
      BY <2>1, <2>3
  <1>8. Fits(points', e, stops)
    BY <1>1, <1>4, <1>5, <1>7 DEF Fits
  <1> QED
    BY <1>4, <1>5, <1>6, <1>8

LEMMA CountedStep ==
  AnswersInv /\ AnswersInv' /\ CountInv /\ [PriceNext]_priceVars => CountInv'
  <1> SUFFICES ASSUME AnswersInv, AnswersInv', CountInv, [PriceNext]_priceVars PROVE CountInv'
    OBVIOUS
  <1>1. /\ now \in Nat /\ backs \in Nat /\ stops \in Nat
        /\ backs = 0 => Answered /\ Counted
        /\ backs' = 0 => Answered'
    BY DEF AnswersInv, CountInv
  <1>2. CASE /\ UNCHANGED <<backs, stops, points>>
             /\ \/ now' = now /\ (pc' \in {"repair", "rebuild", "sample"} =>
                                    pc \in {"repair", "rebuild", "sample"})
                \/ now' = now + Minute
    BY <1>1, <1>2, CountedLater DEF CountInv
  <1>3. CASE Repair
    <2>1. RejectEchoes(None) /\ UNCHANGED <<now, stops, backs>> /\ pc = "repair"
      BY <1>3 DEF Repair
    <2> QED
      BY <1>1, <2>1, CountedReject DEF CountInv
  <1>4. CASE Rebuild
    BY <1>2, <1>4 DEF Rebuild
  <1>5. CASE Sample
    <2>1. /\ UNCHANGED <<now, rejects, stops, backs>> /\ pc = "sample" /\ pc' = "echo"
      BY <1>5 DEF Sample
    <2>2. CASE UNCHANGED points
      BY <1>2, <2>1, <2>2
    <2>3. CASE ~UNCHANGED points
      <3>1. PICK p \in Prices : points' = PutReading(now, p)
        BY <1>5, <2>3 DEF Sample
      <3>2. ASSUME backs = 0 PROVE Counted'
        <4>1. Answered /\ Counted /\ Series(points', now)
          BY <1>1, <2>1, <3>2 DEF Answered
        <4>2. EndsAt(points', now) /\ Fits(points', now, stops)
          BY <1>1, <2>1, <3>1, <4>1, ReadingCounts
        <4>3. /\ EndsAt(points', now') /\ Fits(points', now', Spare(now)')
              /\ now' \in 0..now' /\ Spare(now)' = stops
          BY <1>1, <2>1, <4>2 DEF Spare
        <4> QED
          BY <1>1, <2>1, <4>3 DEF Counted, EndsAt, Fits, From, CountOf, PollsIn, Added, Spare
      <3> QED
        BY <1>1, <2>1, <3>2 DEF CountInv
    <2> QED
      BY <2>2, <2>3
  <1>6. CASE Echoes
    <2>1. /\ RejectEchoes(now - EchoSpan) /\ UNCHANGED <<now, stops, backs>>
          /\ pc = "echo" /\ pc' = "refold"
      BY <1>6 DEF Echoes
    <2> QED
      BY <1>1, <2>1, CountedReject DEF CountInv
  <1>7. CASE Refold
    BY <1>2, <1>7 DEF Refold
  <1>8. CASE Roll
    BY <1>2, <1>8 DEF Roll
  <1>9. CASE Prune
    <2>1. UNCHANGED <<now, stops, backs>> /\ pc = "prune" /\ pc' = "sleep"
      BY <1>9 DEF Prune
    <2>2. CASE UNCHANGED points
      BY <1>2, <2>1, <2>2
    <2>3. CASE ~UNCHANGED points
      <3>1. points' = [a \in {b \in Ats : ~Expired(points[b])} |-> points[a]]
        BY <1>9, <2>3 DEF Prune
      <3> QED
        BY <1>1, <2>1, <3>1, CountedPrune DEF CountInv
    <2> QED
      BY <2>2, <2>3
  <1>10. CASE Sleep
    BY <1>2, <1>10 DEF Sleep
  <1>11. CASE Stop
    <2>1. /\ stops' = stops + 1 /\ (now' = now \/ now' = now + Minute)
          /\ UNCHANGED <<points, backs>>
      BY <1>11 DEF Stop
    <2> QED
      BY <1>1, <2>1, CountedLater DEF CountInv
  <1>12. CASE SetBack
    BY <1>1, <1>12 DEF SetBack, CountInv
  <1>13. CASE UNCHANGED priceVars
    BY <1>2, <1>13 DEF priceVars
  <1> QED
    BY <1>3, <1>4, <1>5, <1>6, <1>7, <1>8, <1>9, <1>10, <1>11, <1>12, <1>13 DEF PriceNext

\* The readings on record are those that the intervals stand for.
LEMMA PollsAreCounted ==
  ASSUME NEW top \in Nat, Series(points, top)
  PROVE  Polls = CountOf(points, DOMAIN points)
  <1> DEFINE S == DOMAIN points
             w == PollsIn(points)
             one(s) == CHOOSE x \in s : TRUE
             Step(s, g) == IF s = {} THEN 0 ELSE points[one(s)].polls + g[s \ {one(s)}]
  <1>1. Polls = (CHOOSE g : g = [s \in SUBSET S |-> Step(s, g)])[S]
    BY DEF Polls, MapThenSumSet, MapThenFoldSet, Ats
  <1>2. IsFiniteSet(S)
    <2>1. IsFiniteSet(0..top)
      BY FS_Interval
    <2>2. S \in SUBSET (0..top)
      BY DEF Series
    <2> QED
      BY <2>1, <2>2, FS_Subset
  <1>3. \A x \in S : w[x] \in Int /\ w[x] = points[x].polls
    BY DEF PollsIn, Series, PriceInterval
  <1>4. ASSUME NEW g, NEW s \in SUBSET S
        PROVE  Step(s, g) = IF s = {} THEN 0 ELSE w[one(s)] + g[s \ {one(s)}]
    <2>1. CASE s # {}
      <3>1. one(s) \in s
        BY <2>1
      <3> HIDE DEF one, w
      <3> QED
        BY <1>3, <3>1
    <2> QED
      BY <2>1
  <1> HIDE DEF w
  <1>5. \A g : Iterates(g, w, S) <=> g = [s \in SUBSET S |-> Step(s, g)]
    <2> SUFFICES ASSUME NEW g
                 PROVE  Iterates(g, w, S) <=> g = [s \in SUBSET S |-> Step(s, g)]
      OBVIOUS
    <2>1. [s \in SUBSET S |-> Step(s, g)] =
            [s \in SUBSET S |-> IF s = {} THEN 0 ELSE w[one(s)] + g[s \ {one(s)}]]
      <3> HIDE DEF Step, one
      <3> QED
        BY <1>4, Zenon
    <2> HIDE DEF Step
    <2> QED
      BY <2>1 DEF Iterates
  <1> HIDE DEF Step
  <1>6. PICK g : Iterates(g, w, S) /\ Polls = g[S]
    <2>1. \E g : g = [s \in SUBSET S |-> Step(s, g)]
      BY <1>2, <1>3, <1>5, IterateExists
    <2>2. PICK g : g = [s \in SUBSET S |-> Step(s, g)] /\ Polls = g[S]
      BY <1>1, <2>1
    <2> QED
      BY <1>5, <2>2
  <1>7. Adds(g, w, S)
    BY <1>2, <1>3, <1>6, IterateAdds
  <1>8. g[S] = Added(w, S)
    <2>1. S \subseteq S /\ (\A x \in S : w[x] \in Int) /\ \A x \in S : w[x] = w[x]
      BY <1>3
    <2> HIDE DEF S
    <2> QED
      BY <1>2, <1>7, <2>1, AddedIs, Zenon
  <1> QED
    BY <1>6, <1>8 DEF CountOf, w

LEMMA CountIsShare == AnswersInv /\ CountInv => PollRatioIsShare
  <1> SUFFICES ASSUME AnswersInv, CountInv, backs = 0, Ats # {}
               PROVE  Polls <= Expected(Span) + stops
    BY DEF PollRatioIsShare
  <1>1. Series(points, now) /\ Counted /\ now \in Nat /\ stops \in Nat
    BY DEF AnswersInv, CountInv, Answered
  <1>2. PICK e \in 0..now : EndsAt(points, e) /\ Fits(points, e, Spare(e))
    BY <1>1 DEF Counted
  <1>3. Spare(e) \in Int /\ Spare(e) <= stops
    BY <1>1 DEF Spare
  <1> DEFINE k == Spare(e)
             a == Min(Ats)
             c == CountOf(points, DOMAIN points)
             ends == {points[b].until : b \in Ats}
  <1>4. a \in DOMAIN points /\ From(points, a) = DOMAIN points
    <2>1. Ats \in SUBSET Nat
      BY <1>1 DEF Series, Ats
    <2>2. a \in Ats /\ \A x \in Ats : a <= x
      BY <2>1, LeastMin
    <2> HIDE DEF a
    <2> QED
      BY <2>2 DEF From, Ats
  <1>5. Max(ends) = e
    <2>1. PICK l \in DOMAIN points : (\A b \in DOMAIN points : b <= l) /\ points[l].until = e
      BY <1>2 DEF EndsAt
    <2>2. \A b \in DOMAIN points : points[b].until \in Int /\ points[b].until <= e
      <3> SUFFICES ASSUME NEW b \in DOMAIN points
                   PROVE  points[b].until \in Int /\ points[b].until <= e
        OBVIOUS
      <3>1. /\ points[b].until \in Int /\ b \in Int /\ l \in Int
            /\ l <= points[l].until /\ (b < l => points[b].until <= l)
        BY <1>1 DEF Series, PriceInterval
      <3> QED
        BY <2>1, <3>1
    <2>3. e \in ends /\ ends \subseteq Int /\ \A x \in ends : x <= e
      BY <2>1, <2>2 DEF Ats
    <2> HIDE DEF ends
    <2> QED
      BY <2>3, MaxIs
  <1>6. c \in Int /\ Minute * (c - 1 - k) <= e - a
    <2>1. DOMAIN points \in SUBSET DOMAIN points
      OBVIOUS
    <2>2. c \in Int
      BY <1>1, <2>1, CountSteps
    <2> QED
      BY <1>2, <1>4, <2>2 DEF Fits
  <1>7. a \in Int /\ e \in Int
    BY <1>1, <1>4 DEF Series
  <1>8. Polls = c /\ Span = e - a
    BY <1>1, <1>5, PollsAreCounted DEF Span
  <1> HIDE DEF a, c, k, ends
  <1>9. c - 1 - k <= (e - a) \div Minute
    <2> DEFINE y == e - a
               x == c - 1 - k
    <2>1. x \in Int /\ y \in Int /\ 60 * x <= y
      BY <1>3, <1>6, <1>7 DEF Minute, k
    <2> HIDE DEF x, y
    <2>2. x <= y \div 60
      BY <2>1
    <2> QED
      BY <2>2 DEF x, y, Minute
  <1>10. (e - a) \div Minute \in Int
    BY <1>7 DEF Minute
  <1> QED
    BY <1>1, <1>3, <1>6, <1>8, <1>9, <1>10 DEF Expected, k

\* The readings on record are no more than the minutes they span, but for one
\* more with each stop, for any prices and any spans: the share that the report
\* gives of a watched span is never above all of it, whatever is set aside,
\* merged or pruned (store.py price_coverage, put_price_reading, reject_prices).
THEOREM PollsFitTheSpan == PriceSpec => []PollRatioIsShare
  <1>1. PriceInit => AnswersInv /\ CountInv
    BY AnswersStart, CountedStart
  <1>2. (AnswersInv /\ CountInv) /\ [PriceNext]_priceVars => (AnswersInv /\ CountInv)'
    BY AnswersStep, CountedStep
  <1>3. AnswersInv /\ CountInv => PollRatioIsShare
    BY CountIsShare
  <1> QED
    BY <1>1, <1>2, <1>3, PTL DEF PriceSpec

-----------------------------------------------------------------------------
(* The days, the calendar and the moving average. *)

\* The newest n are n, unless there are fewer.
LEMMA NewestCount ==
  ASSUME NEW S \in SUBSET Nat, IsFiniteSet(S), NEW n \in Nat
  PROVE  /\ Newest(S, n) \in SUBSET S
         /\ IsFiniteSet(Newest(S, n)) /\ Cardinality(Newest(S, n)) \in Nat
         /\ Cardinality(S) \in Nat
         /\ Cardinality(Newest(S, n)) = IF Cardinality(S) <= n THEN Cardinality(S) ELSE n
  <1> DEFINE N == Cardinality(S)
             f == [d \in S |-> Cardinality({e \in S : e >= d})]
             T == Newest(S, n)
             top == IF N <= n THEN N ELSE n
             g == [d \in T |-> f[d]]
  <1>1. /\ f \in [S -> 1..N] /\ (\A k \in 1..N : \E d \in S : f[d] = k)
        /\ \A a, b \in S : f[a] = f[b] => a = b
    <2>1. f \in Surjection(S, 1..N) /\ f \in Injection(S, 1..N)
      BY NewestPlaces, Zenon
    <2> HIDE DEF f, N
    <2> QED
      BY <2>1, Zenon DEF Surjection, Injection, IsInjective
  <1>2. T \in SUBSET S /\ (\A d \in S : d \in T <=> f[d] <= n)
    BY DEF Newest
  <1>3. N \in Nat /\ IsFiniteSet(T) /\ Cardinality(T) \in Nat
    BY <1>2, FS_CardinalityType, FS_Subset
  <1> HIDE DEF N, f, T
  <1>4. g \in [T -> 1..top] /\ (\A k \in 1..top : \E d \in T : g[d] = k)
    BY <1>1, <1>2, <1>3
  <1>5. \A a, b \in T : g[a] = g[b] => a = b
    BY <1>1, <1>2
  <1>6. top \in Nat /\ IsFiniteSet(1..top) /\ Cardinality(1..top) = top
    <2>1. top \in Nat
      BY <1>3
    <2>2. 1 \in Int /\ top \in Int
      BY <2>1
    <2> HIDE DEF top
    <2> QED
      BY <2>1, <2>2, FS_Interval
  <1> HIDE DEF top, g
  <1>7. g \in Surjection(T, 1..top) /\ g \in Injection(T, 1..top)
    BY <1>4, <1>5, Zenon DEF Surjection, Injection, IsInjective
  <1>8. Cardinality(T) = top
    BY <1>6, <1>7, FS_Injection, Zenon
  <1> QED
    BY <1>2, <1>3, <1>8 DEF top, T, N

\* What is newer than one of the newest is one of them, and so is the newest.
LEMMA NewestUpward ==
  ASSUME NEW S \in SUBSET Nat, IsFiniteSet(S), NEW n \in Nat
  PROVE  /\ \A d \in Newest(S, n), e \in S : d <= e => e \in Newest(S, n)
         /\ \A m \in S : (\A e \in S : e <= m) /\ n > 0 => m \in Newest(S, n)
  <1>1. ASSUME NEW d \in Newest(S, n), NEW e \in S, d <= e PROVE e \in Newest(S, n)
    <2> DEFINE f == [x \in S |-> Cardinality({y \in S : y >= x})]
    <2>1. /\ \A a, b \in S : a < b => f[b] < f[a]
          /\ f \in [S -> 1..Cardinality(S)]
      BY NewestPlaces, Zenon DEF Injection
    <2>2. d \in S /\ f[d] <= n
      BY DEF Newest
    <2>3. Cardinality(S) \in Nat
      BY FS_CardinalityType
    <2> HIDE DEF f
    <2>4. f[e] <= n
      <3>1. f[d] \in Int /\ f[e] \in Int
        BY <2>1, <2>2, <2>3
      <3>2. d = e \/ d < e
        BY <1>1, <2>2
      <3> QED
        BY <2>1, <2>2, <3>1, <3>2
    <2> QED
      BY <2>4 DEF f, Newest
  <1>2. ASSUME NEW m \in S, \A e \in S : e <= m, n > 0 PROVE m \in Newest(S, n)
    <2>1. {e \in S : e >= m} = {m}
      <3>1. \A e \in S : e \in Int
        OBVIOUS
      <3>2. \A e \in S : e >= m <=> e = m
        BY <1>2, <3>1
      <3> QED
        BY <3>2, Zenon
    <2>2. Cardinality({e \in S : e >= m}) = 1
      BY <2>1, FS_Singleton, Zenon
    <2> QED
      BY <1>2, <2>2 DEF Newest
  <1> QED
    BY <1>1, <1>2

-----------------------------------------------------------------------------
(* The record. *)

Recorded == record \in Seq(HourPrices \cup {Unwatched})

\* The day of an hour.
LEMMA DayOf ==
  ASSUME NEW h \in Nat
  PROVE  /\ h \div HoursPerDay \in Nat
         /\ (h \div HoursPerDay) * HoursPerDay <= h
         /\ h < (h \div HoursPerDay) * HoursPerDay + HoursPerDay
  <1>1. HoursPerDay \in Nat /\ HoursPerDay > 0
    BY ViewsAssumption
  <1>2. h = HoursPerDay * (h \div HoursPerDay) + (h % HoursPerDay) /\ h % HoursPerDay \in 0..(HoursPerDay - 1)
        /\ h \div HoursPerDay \in Int
    BY <1>1, Z3
  <1> QED
    BY <1>1, <1>2, Z3

\* Days in order lie in order.
LEMMA DaysOrder ==
  ASSUME NEW a \in Int, NEW b \in Int, a < b
  PROVE  a * HoursPerDay + HoursPerDay <= b * HoursPerDay
  <1>1. HoursPerDay \in Nat /\ HoursPerDay > 0
    BY ViewsAssumption
  <1>2. (b - a - 1) * HoursPerDay >= 0
    BY <1>1, Z3
  <1> QED
    BY <1>1, <1>2, Z3
\* The hours of a day are few, on record, and all read from its first hour on.
LEMMA HoursAre ==
  ASSUME Recorded, NEW day \in Int, NEW cut \in Int
  PROVE  /\ IsFiniteSet(HoursOf(day, cut)) /\ Cardinality(HoursOf(day, cut)) \in Nat
         /\ IsFiniteSet(HoursOf(day, 0)) /\ Cardinality(HoursOf(day, 0)) \in Nat
         /\ HoursOf(day, cut) \subseteq HoursOf(day, 0)
         /\ Cardinality(HoursOf(day, cut)) <= Cardinality(HoursOf(day, 0))
         /\ day * HoursPerDay >= cut => HoursOf(day, cut) = HoursOf(day, 0)
         /\ HoursOf(day, 0) # {} => day \in 0..Today
  <1>1. Len(record) \in Nat /\ DOMAIN record = 1..Len(record)
    BY DEF Recorded
  <1>2. IsFiniteSet(1..Len(record))
    <2>1. 1 \in Int /\ Len(record) \in Int
      BY <1>1
    <2> QED
      BY <2>1, FS_Interval
  <1>3. \A i \in DOMAIN record : i - 1 >= 0 /\ i - 1 \in Nat /\ i - 1 < Len(record)
    BY <1>1
  <1>4. HoursOf(day, cut) \subseteq HoursOf(day, 0) /\ HoursOf(day, 0) \subseteq 1..Len(record)
    BY <1>1, <1>3 DEF HoursOf
  <1>5. IsFiniteSet(HoursOf(day, 0)) /\ IsFiniteSet(HoursOf(day, cut))
        /\ Cardinality(HoursOf(day, cut)) <= Cardinality(HoursOf(day, 0))
    BY <1>2, <1>4, FS_Subset, Zenon
  <1>6. ASSUME day * HoursPerDay >= cut PROVE HoursOf(day, cut) = HoursOf(day, 0)
    <2> SUFFICES ASSUME NEW i \in HoursOf(day, 0) PROVE i \in HoursOf(day, cut)
      BY <1>4, Zenon
    <2>1. i \in DOMAIN record /\ (i - 1) \div HoursPerDay = day /\ record[i] # Unwatched
      BY DEF HoursOf
    <2>2. day * HoursPerDay <= i - 1
      BY <1>3, <2>1, DayOf
    <2>3. day * HoursPerDay \in Int /\ i - 1 \in Int
      BY <1>3, <2>1, ViewsAssumption
    <2>4. i - 1 >= cut
      BY <1>6, <2>2, <2>3
    <2> QED
      BY <2>1, <2>4 DEF HoursOf
  <1>7. ASSUME HoursOf(day, 0) # {} PROVE day \in 0..Today
    <2>1. PICK i \in DOMAIN record : (i - 1) \div HoursPerDay = day
      BY <1>7 DEF HoursOf
    <2>2. day \in Nat /\ day * HoursPerDay <= i - 1 /\ i - 1 < Now
      BY <1>3, <2>1, DayOf DEF Now
    <2>3. Today \in Nat /\ Now < Today * HoursPerDay + HoursPerDay
      BY <1>1, DayOf DEF Today, Now
    <2>4. ~(Today < day)
      <3> SUFFICES ASSUME Today < day PROVE FALSE
        OBVIOUS
      <3>1. Today * HoursPerDay + HoursPerDay <= day * HoursPerDay
        BY <2>2, <2>3, DaysOrder
      <3>2. /\ Today * HoursPerDay \in Int /\ HoursPerDay \in Int /\ day * HoursPerDay \in Int
            /\ Now \in Int /\ i - 1 \in Int
        BY <1>1, <1>3, <2>1, <2>2, <2>3, ViewsAssumption DEF Now
      <3> QED
        BY <2>2, <2>3, <3>1, <3>2
    <2> QED
      BY <2>2, <2>3, <2>4
  <1>8. Cardinality(HoursOf(day, 0)) \in Nat /\ Cardinality(HoursOf(day, cut)) \in Nat
    BY <1>5, FS_CardinalityType
  <1> QED
    BY <1>4, <1>5, <1>6, <1>7, <1>8

\* The days on record, of which price_days takes the newest.
OnRecord(n) == {d \in 0..Today : HoursOf(d, CutOf(n)) # {}}

LEMMA CutIs ==
  ASSUME Recorded, NEW n \in Nat
  PROVE  CutOf(n) \in Int /\ Now \in Nat /\ Today \in Nat
  <1>1. Len(record) \in Nat
    BY DEF Recorded
  <1>2. Now \in Nat /\ Today \in Nat
    BY <1>1, DayOf DEF Now, Today
  <1> QED
    BY <1>2, ViewsAssumption DEF CutOf

LEMMA OnRecordIs ==
  ASSUME Recorded, NEW n \in Nat
  PROVE  /\ OnRecord(n) \in SUBSET Nat /\ OnRecord(n) \subseteq 0..Today /\ IsFiniteSet(OnRecord(n))
         /\ DOMAIN DaysOnRecord(n) = Newest(OnRecord(n), n)
         /\ DOMAIN DaysOnRecord(n) \subseteq OnRecord(n)
         /\ \A d \in DOMAIN DaysOnRecord(n) : DaysOnRecord(n)[d] = DayRow(HoursOf(d, CutOf(n)))
  <1>1. Today \in Nat
    BY CutIs
  <1>2. IsFiniteSet(0..Today)
    <2>1. 0 \in Int /\ Today \in Int
      BY <1>1
    <2> QED
      BY <2>1, FS_Interval
  <1>3. OnRecord(n) \subseteq 0..Today
    BY DEF OnRecord
  <1>4. OnRecord(n) \in SUBSET Nat /\ IsFiniteSet(OnRecord(n))
    BY <1>1, <1>2, <1>3, FS_Subset
  <1>5. DaysOnRecord(n) = [day \in Newest(OnRecord(n), n) |-> DayRow(HoursOf(day, CutOf(n)))]
    BY Zenon DEF DaysOnRecord, OnRecord
  <1>6. Newest(OnRecord(n), n) \subseteq OnRecord(n)
    BY DEF Newest
  <1> QED
    BY <1>3, <1>4, <1>5, <1>6, Zenon

\* A row counts hours of its day, and a watched one is of a day well watched.
LEMMA RowsTell ==
  ASSUME Recorded, NEW n \in Nat, NEW d \in DOMAIN DaysOnRecord(n),
         Watched(DaysOnRecord(n)[d])
  PROVE  d \in 0..Today /\ Cardinality(HoursOf(d, 0)) >= MinHours
  <1>1. d \in 0..Today /\ DaysOnRecord(n)[d] = DayRow(HoursOf(d, CutOf(n)))
    BY OnRecordIs, Zenon
  <1>2. CutOf(n) \in Int /\ Today \in Nat
    BY CutIs
  <1>3. d \in Int
    BY <1>1, <1>2
  <1>4. Cardinality(HoursOf(d, CutOf(n))) >= MinHours
    BY <1>1 DEF Watched, DayRow
  <1>5. /\ Cardinality(HoursOf(d, CutOf(n))) \in Nat /\ Cardinality(HoursOf(d, 0)) \in Nat
        /\ Cardinality(HoursOf(d, CutOf(n))) <= Cardinality(HoursOf(d, 0))
    BY <1>2, <1>3, HoursAre
  <1>6. MinHours \in Int
    BY ViewsAssumption
  <1> QED
    BY <1>1, <1>4, <1>5, <1>6

\* From a day that is read whole on, every day on record has its row in full.
LEMMA WholeRows ==
  ASSUME Recorded, NEW n \in Nat, NEW b \in ReadWhole(n), NEW d \in Nat, b <= d,
         HoursOf(d, 0) # {}
  PROVE  d \in DOMAIN DaysOnRecord(n) /\ DaysOnRecord(n)[d] = DayInFull(d)
  <1>1. CutOf(n) \in Int /\ Today \in Nat /\ HoursPerDay \in Nat
    BY CutIs, ViewsAssumption
  <1>2. b \in 0..Today /\ b * HoursPerDay >= CutOf(n)
        /\ Cardinality({e \in b..Today : HoursOf(e, 0) # {}}) <= n
    BY DEF ReadWhole
  <1>3. \A e \in Int : b <= e => HoursOf(e, CutOf(n)) = HoursOf(e, 0)
    <2> SUFFICES ASSUME NEW e \in Int, b <= e PROVE HoursOf(e, CutOf(n)) = HoursOf(e, 0)
      OBVIOUS
    <2>1. b \in Int /\ b * HoursPerDay \in Int /\ e * HoursPerDay \in Int
      BY <1>1, <1>2
    <2>2. e * HoursPerDay >= b * HoursPerDay
      <3>1. CASE b = e
        BY <2>1, <3>1
      <3>2. CASE b < e
        <4>1. b * HoursPerDay + HoursPerDay <= e * HoursPerDay
          BY <2>1, <3>2, DaysOrder
        <4> QED
          BY <1>1, <2>1, <4>1
      <3> QED
        BY <2>1, <3>1, <3>2
    <2>3. e * HoursPerDay >= CutOf(n)
      BY <1>1, <1>2, <2>1, <2>2
    <2> QED
      BY <1>1, <2>3, HoursAre
  <1>4. d \in 0..Today
    BY <1>1, HoursAre
  <1>5. HoursOf(d, CutOf(n)) = HoursOf(d, 0)
    BY <1>3
  <1>6. d \in OnRecord(n)
    BY <1>4, <1>5 DEF OnRecord
  <1>7. d \in Newest(OnRecord(n), n)
    <2> DEFINE up == {e \in OnRecord(n) : e >= d}
               all == {e \in b..Today : HoursOf(e, 0) # {}}
    <2>1. up \in SUBSET all
      <3> SUFFICES ASSUME NEW e \in up PROVE e \in b..Today /\ HoursOf(e, 0) # {}
        OBVIOUS
      <3>1. e \in 0..Today /\ e >= d /\ HoursOf(e, CutOf(n)) # {}
        BY DEF OnRecord
      <3>2. e \in Int /\ b <= e /\ e <= Today
        BY <1>1, <1>2, <3>1
      <3> QED
        BY <1>1, <1>2, <1>3, <3>1, <3>2
    <2>2. IsFiniteSet(all)
      <3>1. b \in Int /\ Today \in Int
        BY <1>1, <1>2
      <3>2. IsFiniteSet(b..Today)
        BY <3>1, FS_Interval
      <3>3. all \in SUBSET (b..Today)
        OBVIOUS
      <3> QED
        BY <3>2, <3>3, FS_Subset, Zenon
    <2>3. IsFiniteSet(up) /\ Cardinality(up) <= Cardinality(all)
      BY <2>1, <2>2, FS_Subset, Zenon
    <2>4. Cardinality(up) \in Nat /\ Cardinality(all) \in Nat /\ Cardinality(all) <= n
      BY <1>2, <2>2, <2>3, FS_CardinalityType
    <2> HIDE DEF up, all
    <2>5. Cardinality(up) <= n
      BY <2>3, <2>4
    <2> QED
      BY <1>6, <2>5 DEF up, Newest
  <1> QED
    BY <1>5, <1>7, OnRecordIs, Zenon DEF DayInFull

-----------------------------------------------------------------------------
(* The moving average. *)

LEMMA AverageIs ==
  ASSUME Recorded, NEW n \in Nat, NEW days \in Nat \ {0}, NEW span \in Nat \ {0},
         NEW usable, usable = Usable(DaysOnRecord(n))
  PROVE  OverWholeDays(AverageOf(usable, days, span), days, n)
  <1> DEFINE avg == AverageOf(usable, days, span)
             until(day) == {d \in usable : d <= day}
             window(day) == Newest(until(day), days)
             full == WellWatched(Today - 1)
  <1>1. /\ usable \in SUBSET Nat /\ IsFiniteSet(usable) /\ usable \subseteq 0..Today
        /\ Today \in Nat /\ MinHours \in Nat \ {0}
    <2>1. usable \subseteq OnRecord(n)
      BY OnRecordIs DEF Usable
    <2>2. IsFiniteSet(usable)
      BY <2>1, OnRecordIs, FS_Subset, Zenon
    <2> QED
      BY <2>1, <2>2, OnRecordIs, CutIs, ViewsAssumption
  <1>2. \A day : until(day) \in SUBSET Nat /\ IsFiniteSet(until(day))
    <2> SUFFICES ASSUME NEW day PROVE until(day) \in SUBSET Nat /\ IsFiniteSet(until(day))
      OBVIOUS
    <2>1. until(day) \in SUBSET usable
      OBVIOUS
    <2> HIDE DEF until
    <2> QED
      BY <1>1, <2>1, FS_Subset, Zenon
  <1>3. /\ avg.ready = (Cardinality(usable) >= days)
        /\ DOMAIN avg.series = Newest(usable, span)
        /\ \A day \in Newest(usable, span) :
             /\ avg.series[day].of = window(day)
             /\ avg.series[day].complete = (Cardinality(window(day)) >= days)
    BY Zenon DEF AverageOf, Smoothed
  <1>4. Newest(usable, span) \subseteq usable
    BY DEF Newest
  <1>5. (Cardinality(usable) >= days) = \E day \in Newest(usable, span) : Cardinality(window(day)) >= days
    <2>0. Cardinality(usable) \in Nat
      BY <1>1, FS_CardinalityType
    <2>1. ASSUME Cardinality(usable) >= days
          PROVE  \E day \in Newest(usable, span) : Cardinality(window(day)) >= days
      <3>1. usable # {}
        BY <2>0, <2>1, FS_EmptySet
      <3>2. PICK m \in usable : \A e \in usable : e <= m
        BY <1>1, <3>1, GreatestFound
      <3>3. m \in Newest(usable, span)
        BY <1>1, <3>2, NewestUpward
      <3>4. until(m) = usable
        BY <3>2
      <3> HIDE DEF until
      <3>5. Cardinality(Newest(usable, days)) >= days
        <4>1. days \in Nat
          OBVIOUS
        <4>2. Cardinality(Newest(usable, days)) =
                IF Cardinality(usable) <= days THEN Cardinality(usable) ELSE days
          BY <1>1, <4>1, NewestCount, Zenon
        <4> QED
          BY <2>0, <2>1, <4>1, <4>2
      <3> QED
        BY <3>3, <3>4, <3>5, Zenon
    <2>2. ASSUME NEW day \in Newest(usable, span), Cardinality(window(day)) >= days
          PROVE  Cardinality(usable) >= days
      <3>1. until(day) \in SUBSET usable
        OBVIOUS
      <3>2. Cardinality(until(day)) <= Cardinality(usable)
        BY <1>1, <3>1, FS_Subset, Zenon
      <3> HIDE DEF until
      <3>3. /\ Cardinality(until(day)) \in Nat
            /\ Cardinality(window(day)) = IF Cardinality(until(day)) <= days
                                          THEN Cardinality(until(day)) ELSE days
        BY <1>2, NewestCount
      <3> QED
        BY <2>0, <2>2, <3>2, <3>3
    <2> DEFINE P == \E day \in Newest(usable, span) : Cardinality(window(day)) >= days
               R == Cardinality(usable) >= days
    <2>3. (R => P) /\ (P => R)
      BY <2>1, <2>2, Zenon
    <2>4. R \in BOOLEAN /\ P \in BOOLEAN
      OBVIOUS
    <2> HIDE DEF P, R
    <2>5. R = P
      BY <2>3, <2>4
    <2> QED
      BY <2>5 DEF P, R
  <1>6. ASSUME NEW day \in Newest(usable, span), Cardinality(window(day)) >= days,
               window(day) \subseteq ReadWhole(n)
        PROVE  /\ Cardinality(window(day)) = days /\ Max(window(day)) = day
               /\ window(day) = {d \in full : d <= day /\ d >= Min(window(day))}
    <2>0. day \in usable /\ day \in Nat
      BY <1>1, <1>4
    <2>1. /\ window(day) \in SUBSET until(day)
          /\ Cardinality(window(day)) = days
      <3> HIDE DEF until
      <3>1. /\ Cardinality(until(day)) \in Nat
            /\ window(day) \in SUBSET until(day)
            /\ Cardinality(window(day)) = IF Cardinality(until(day)) <= days
                                          THEN Cardinality(until(day)) ELSE days
        BY <1>2, NewestCount
      <3> QED
        BY <1>6, <3>1
    <2>2. day \in window(day)
      <3>1. day \in until(day) /\ \A e \in until(day) : e <= day
        BY <2>0
      <3> HIDE DEF until
      <3> QED
        BY <1>2, <3>1, NewestUpward
    <2>3. Max(window(day)) = day
      <3>1. window(day) \subseteq Int /\ \A x \in window(day) : x <= day
        BY <1>1, <2>1
      <3> HIDE DEF window
      <3> QED
        BY <2>2, <3>1, MaxIs
    <2> DEFINE b == Min(window(day))
    <2>4. b \in window(day) /\ \A x \in window(day) : b <= x
      <3>1. window(day) \in SUBSET Nat
        BY <1>2, <2>1, Zenon
      <3> HIDE DEF window
      <3> QED
        BY <2>2, <3>1, LeastMin
    <2> HIDE DEF b
    <2>5. ASSUME NEW d \in window(day) PROVE d \in full /\ d <= day /\ d >= b
      <3>1. d \in usable /\ d <= day /\ d >= b
        BY <1>1, <2>1, <2>4
      <3>2. d \in DOMAIN DaysOnRecord(n) /\ Watched(DaysOnRecord(n)[d]) /\ d < Today
        BY <3>1 DEF Usable
      <3>3. d \in 0..Today /\ Cardinality(HoursOf(d, 0)) >= MinHours
        BY <3>2, RowsTell
      <3>4. d \in 0..(Today - 1)
        BY <1>1, <3>2, <3>3
      <3> QED
        BY <3>1, <3>3, <3>4 DEF WellWatched
    <2>6. ASSUME NEW d \in full, d <= day, d >= b PROVE d \in window(day)
      <3>1. d \in 0..(Today - 1) /\ Cardinality(HoursOf(d, 0)) >= MinHours
        BY DEF WellWatched
      <3>2. d \in Nat /\ d < Today /\ b \in ReadWhole(n) /\ b \in Nat /\ b <= d
        BY <1>1, <1>2, <1>6, <2>1, <2>4, <2>6, <3>1
      <3>3. HoursOf(d, 0) # {}
        <4>1. Cardinality(HoursOf(d, 0)) \in Nat /\ IsFiniteSet(HoursOf(d, 0))
          BY <3>2, HoursAre
        <4>2. Cardinality(HoursOf(d, 0)) # 0
          BY <1>1, <3>1, <4>1
        <4> QED
          BY <4>2, FS_EmptySet
      <3>4. d \in DOMAIN DaysOnRecord(n) /\ DaysOnRecord(n)[d] = DayInFull(d)
        BY <3>2, <3>3, WholeRows
      <3>5. Watched(DaysOnRecord(n)[d])
        BY <3>1, <3>4 DEF DayInFull, DayRow, Watched
      <3>6. d \in until(day)
        BY <2>6, <3>2, <3>4, <3>5 DEF Usable
      <3> HIDE DEF until
      <3> QED
        BY <1>2, <2>4, <3>2, <3>6, NewestUpward
    <2> HIDE DEF window, full
    <2>7. window(day) = {d \in full : d <= day /\ d >= b}
      BY <2>5, <2>6
    <2> QED
      BY <2>1, <2>3, <2>7 DEF b
  <1> HIDE DEF avg, window, full
  <1>7. avg.ready = \E day \in DOMAIN avg.series : avg.series[day].complete
    <2>1. (\E day \in DOMAIN avg.series : avg.series[day].complete)
          = \E day \in Newest(usable, span) : Cardinality(window(day)) >= days
      BY <1>3, Zenon
    <2> QED
      BY <1>3, <1>5, <2>1, Zenon
  <1>8. ASSUME NEW day \in DOMAIN avg.series,
               avg.series[day].complete, avg.series[day].of \subseteq ReadWhole(n)
        PROVE  /\ Cardinality(avg.series[day].of) = days /\ Max(avg.series[day].of) = day
               /\ avg.series[day].of = {d \in full : d <= day /\ d >= Min(avg.series[day].of)}
    <2>1. avg.series[day].of = window(day) /\ Cardinality(window(day)) >= days
          /\ day \in Newest(usable, span)
      BY <1>3, <1>8, Zenon
    <2> QED
      BY <1>6, <1>8, <2>1, Zenon
  <1> QED
    BY <1>7, <1>8, Zenon DEF avg, full, OverWholeDays

-----------------------------------------------------------------------------
(* The calendar. *)

\* While the record is kept up its last day is the last that is read, and the
\* days that are shown are read whole.
LEMMA ShownAreWhole ==
  ASSUME Recorded, record # <<>>, record[Len(record)] # Unwatched, NEW days \in Nat \ {0},
         NEW day \in DaysShown(DaysOnRecord(days + 1), days)
  PROVE  day \in Nat /\ day \in ReadWhole(days + 1)
  <1> DEFINE n == days + 1
             L == Len(record)
             z == (L - 1) \div HoursPerDay
             rows == DaysOnRecord(n)
             lo == Min(DOMAIN rows)
  <1>1. L \in Nat /\ L >= 1 /\ DOMAIN record = 1..L
    BY EmptySeq DEF Recorded
  <1>2. HoursPerDay \in Nat /\ HoursPerDay >= 1 /\ n \in Nat /\ Now = L
    BY ViewsAssumption DEF Now
  <1>3. CutOf(n) \in Int /\ Today \in Nat /\ CutOf(n) = L - (days + 2) * HoursPerDay
    <2>1. CutOf(n) \in Int /\ Today \in Nat
      BY <1>2, CutIs
    <2>2. n + 1 = days + 2
      OBVIOUS
    <2>3. CutOf(n) = L - (n + 1) * HoursPerDay
      BY <1>2 DEF CutOf
    <2> HIDE DEF n, L
    <2> QED
      BY <2>1, <2>2, <2>3
  <1>4. z \in Nat /\ z * HoursPerDay <= L - 1 /\ L - 1 < z * HoursPerDay + HoursPerDay
    <2>1. L - 1 \in Nat
      BY <1>1
    <2> HIDE DEF L
    <2> QED
      BY <2>1, DayOf
  \* No hour lies in a later day.
  <1>5. \A e \in Int : HoursOf(e, 0) # {} => e <= z
    <2> SUFFICES ASSUME NEW e \in Int, HoursOf(e, 0) # {}, z < e PROVE FALSE
      BY <1>4
    <2>1. PICK i \in DOMAIN record : (i - 1) \div HoursPerDay = e
      BY DEF HoursOf
    <2>2. i - 1 \in Nat /\ i - 1 <= L - 1
      BY <1>1
    <2>3. e * HoursPerDay <= i - 1
      BY <2>1, <2>2, DayOf
    <2>4. z * HoursPerDay + HoursPerDay <= e * HoursPerDay
      BY <1>4, DaysOrder
    <2>5. /\ z * HoursPerDay + HoursPerDay \in Int /\ e * HoursPerDay \in Int
          /\ i - 1 \in Int /\ L - 1 \in Int
      BY <1>1, <1>2, <1>4, <2>2
    <2> HIDE DEF z, L
    <2> QED
      BY <1>4, <2>2, <2>3, <2>4, <2>5
  <1>6. OnRecord(n) \subseteq 0..z
    <2> SUFFICES ASSUME NEW e \in OnRecord(n) PROVE e \in 0..z
      OBVIOUS
    <2>1. e \in 0..Today /\ HoursOf(e, CutOf(n)) # {}
      BY DEF OnRecord
    <2>2. e \in Int /\ e >= 0
      BY <1>3, <2>1
    <2>3. HoursOf(e, 0) # {}
      BY <1>3, <2>1, <2>2, HoursAre
    <2>4. e <= z
      BY <1>5, <2>2, <2>3
    <2> HIDE DEF z
    <2> QED
      BY <1>4, <2>2, <2>4
  <1>7. DOMAIN rows \subseteq 0..z /\ DOMAIN rows # {}
    <2>1. DOMAIN rows \subseteq 0..z
      BY <1>2, <1>6, OnRecordIs
    <2>2. DOMAIN rows # {}
      BY DEF DaysShown
    <2> QED
      BY <2>1, <2>2
  <1>8. z \in DOMAIN rows
    <2>1. L \in HoursOf(z, CutOf(n))
      <3>1. (days + 2) * HoursPerDay >= 1
        <4>1. (days + 2) * HoursPerDay = HoursPerDay + (days + 1) * HoursPerDay
          BY <1>2, Z3
        <4>2. (days + 1) * HoursPerDay \in Nat
          BY <1>2
        <4> QED
          BY <1>2, <4>1, <4>2
      <3>2. (days + 2) * HoursPerDay \in Int
        BY <1>2
      <3> DEFINE K == (days + 2) * HoursPerDay
      <3> HIDE DEF K
      <3>3. L - 1 >= CutOf(n)
        BY <1>1, <1>3, <3>1, <3>2 DEF K
      <3>4. L \in DOMAIN record
        BY <1>1
      <3> QED
        BY <3>3, <3>4 DEF HoursOf
    <2>2. HoursOf(z, CutOf(n)) \subseteq HoursOf(z, 0) /\ (HoursOf(z, 0) # {} => z \in 0..Today)
      <3>1. z \in Int
        BY <1>4
      <3> HIDE DEF z, n
      <3> QED
        BY <1>3, <3>1, HoursAre
    <2>3. z \in OnRecord(n)
      BY <2>1, <2>2 DEF OnRecord
    <2>4. \A e \in OnRecord(n) : e <= z
      BY <1>6
    <2> HIDE DEF z
    <2>5. z \in Newest(OnRecord(n), n)
      BY <1>2, <2>3, <2>4, OnRecordIs, NewestUpward
    <2> QED
      BY <1>2, <2>5, OnRecordIs
  <1>9. Max(DOMAIN rows) = z
    <2>1. DOMAIN rows \subseteq Int /\ \A x \in DOMAIN rows : x <= z
      BY <1>7
    <2> HIDE DEF rows, z
    <2> QED
      BY <1>8, <2>1, MaxIs
  <1>10. lo \in Nat /\ lo <= z
    <2>1. DOMAIN rows \in SUBSET Nat
      BY <1>7
    <2> HIDE DEF rows, z
    <2>2. lo \in DOMAIN rows
      BY <1>7, <2>1, LeastMin
    <2> QED
      BY <1>7, <2>2, <1>4
  <1>11. day \in Newest(lo..z, days)
    BY <1>7, <1>9, Zenon DEF DaysShown
  <1> HIDE DEF lo, rows
  <1>12. day \in lo..z /\ Cardinality({e \in lo..z : e >= day}) <= days
    BY <1>11 DEF Newest
  <1> HIDE DEF z
  <1>13. day \in Nat /\ day <= z
    BY <1>4, <1>10, <1>12
  <1>14. z - day + 1 <= days
    <2>1. {e \in lo..z : e >= day} = day..z
      BY <1>4, <1>10, <1>12, <1>13
    <2>2. day \in Int /\ z \in Int
      BY <1>4, <1>13
    <2>3. Cardinality(day..z) = z - day + 1
      BY <1>13, <2>2, FS_Interval
    <2> QED
      BY <1>12, <2>1, <2>3
  <1>15. day * HoursPerDay >= CutOf(n)
    <2>1. z - days - 2 \in Int /\ z - days - 2 < day
      BY <1>4, <1>13, <1>14
    <2>2. (z - days - 2) * HoursPerDay + HoursPerDay <= day * HoursPerDay
      BY <1>13, <2>1, DaysOrder
    <2>3. (z - days - 2) * HoursPerDay = z * HoursPerDay - (days + 2) * HoursPerDay
      BY <1>2, <1>4, Z3
    <2>4. /\ z * HoursPerDay \in Int /\ (days + 2) * HoursPerDay \in Int
          /\ day * HoursPerDay \in Int
      BY <1>2, <1>4, <1>13
    <2> DEFINE zH == z * HoursPerDay
               kH == (days + 2) * HoursPerDay
               dH == day * HoursPerDay
    <2>5. /\ zH - kH + HoursPerDay <= dH /\ zH \in Int /\ kH \in Int /\ dH \in Int
          /\ CutOf(n) = L - kH /\ L - 1 < zH + HoursPerDay
      BY <1>3, <1>4, <2>2, <2>3, <2>4
    <2> HIDE DEF zH, kH, dH, L, n
    <2>6. dH >= CutOf(n)
      BY <1>1, <1>2, <2>5
    <2> QED
      BY <2>6 DEF dH
  <1>16. Cardinality({e \in day..Today : HoursOf(e, 0) # {}}) <= n
    <2> DEFINE on == {e \in day..Today : HoursOf(e, 0) # {}}
    <2>1. on \in SUBSET (day..z)
      <3> SUFFICES ASSUME NEW e \in on PROVE e \in day..z
        OBVIOUS
      <3>1. e \in Int /\ day <= e /\ HoursOf(e, 0) # {}
        BY <1>3, <1>13
      <3>2. e <= z
        BY <1>5, <3>1
      <3> QED
        BY <1>4, <1>13, <3>1, <3>2
    <2>2. day \in Int /\ z \in Int
      BY <1>4, <1>13
    <2>3. IsFiniteSet(day..z) /\ Cardinality(day..z) = IF day > z THEN 0 ELSE z - day + 1
      BY <2>2, FS_Interval
    <2>4. IsFiniteSet(on) /\ Cardinality(on) <= Cardinality(day..z)
      BY <2>1, <2>3, FS_Subset, Zenon
    <2>5. Cardinality(on) \in Nat
      BY <2>4, FS_CardinalityType
    <2> HIDE DEF on
    <2>6. Cardinality(on) <= n
      BY <1>4, <1>13, <1>14, <2>3, <2>4, <2>5
    <2> QED
      BY <2>6 DEF on
  <1>17. day \in 0..Today
    <2>1. HoursOf(z, 0) # {}
      <3>1. z \in OnRecord(n)
        BY <1>2, <1>8, OnRecordIs DEF rows
      <3>2. z \in Int
        BY <1>4
      <3>3. HoursOf(z, CutOf(n)) # {}
        BY <3>1 DEF OnRecord
      <3> QED
        BY <1>3, <3>2, <3>3, HoursAre
    <2>2. z \in 0..Today
      <3>1. z \in Int /\ 0 \in Int
        BY <1>4
      <3> QED
        BY <2>1, <3>1, HoursAre
    <2> QED
      BY <1>3, <1>13, <2>2
  <1> QED
    BY <1>13, <1>15, <1>16, <1>17 DEF ReadWhole

LEMMA CalendarIs ==
  ASSUME Recorded, record # <<>>, record[Len(record)] # Unwatched, NEW days \in Nat \ {0},
         NEW day \in DaysShown(DaysOnRecord(days + 1), days)
  PROVE  LET prev == WellWatched(day - 1)
             told == Square(DaysOnRecord(days + 1), day)
         IN  IF day \notin WellWatched(day) THEN told = "unwatched"
             ELSE IF prev = {} THEN told = "first"
             ELSE Max(prev) \in ReadWhole(days + 1) =>
                    told = Move(DayInFull(Max(prev)).mean, DayInFull(day).mean)
  <1> DEFINE n == days + 1
             rows == DaysOnRecord(n)
             prev == WellWatched(day - 1)
             told == Square(rows, day)
  <1>1. day \in Nat /\ day \in ReadWhole(n) /\ n \in Nat
    BY ShownAreWhole
  <1>2. \A d \in DOMAIN rows : Watched(rows[d]) => d \in Nat /\ Cardinality(HoursOf(d, 0)) >= MinHours
    BY <1>1, RowsTell, CutIs
  <1>3. \A d \in Nat : HoursOf(d, 0) # {} /\ d >= day => d \in DOMAIN rows /\ rows[d] = DayInFull(d)
    BY <1>1, WholeRows
  <1>4. \A d \in Nat : Cardinality(HoursOf(d, 0)) >= MinHours => HoursOf(d, 0) # {}
    <2> SUFFICES ASSUME NEW d \in Nat, Cardinality(HoursOf(d, 0)) >= MinHours PROVE HoursOf(d, 0) # {}
      OBVIOUS
    <2>1. Cardinality(HoursOf(d, 0)) \in Nat /\ IsFiniteSet(HoursOf(d, 0))
      BY HoursAre
    <2>2. Cardinality(HoursOf(d, 0)) # 0
      BY <2>1, ViewsAssumption
    <2> QED
      BY <2>2, FS_EmptySet
  <1>5. \A d : Watched(DayInFull(d)) <=> Cardinality(HoursOf(d, 0)) >= MinHours
    BY DEF Watched, DayInFull, DayRow
  <1> HIDE DEF n, rows
  <1>6. ASSUME day \notin WellWatched(day) PROVE told = "unwatched"
    <2>1. ~(Cardinality(HoursOf(day, 0)) >= MinHours)
      BY <1>1, <1>6 DEF WellWatched
    <2> QED
      BY <1>2, <2>1 DEF Square
  <1>7. ASSUME day \in WellWatched(day)
        PROVE  /\ day \in DOMAIN rows /\ Watched(rows[day]) /\ rows[day] = DayInFull(day)
    <2>1. Cardinality(HoursOf(day, 0)) >= MinHours
      BY <1>7 DEF WellWatched
    <2>2. day \in DOMAIN rows /\ rows[day] = DayInFull(day)
      BY <1>1, <1>3, <1>4, <2>1
    <2> QED
      BY <1>5, <2>1, <2>2
  <1>8. LastClose(rows, day) \subseteq prev
    <2> SUFFICES ASSUME NEW d \in LastClose(rows, day) PROVE d \in WellWatched(day - 1)
      OBVIOUS
    <2>1. d \in DOMAIN rows /\ d < day /\ Watched(rows[d])
      BY DEF LastClose
    <2>2. d \in 0..(day - 1)
      BY <1>1, <1>2, <2>1
    <2> QED
      BY <1>2, <2>1, <2>2 DEF WellWatched
  <1>9. ASSUME day \in WellWatched(day), prev = {} PROVE told = "first"
    <2>1. LastClose(rows, day) = {}
      BY <1>8, <1>9
    <2> QED
      BY <1>7, <1>9, <2>1, Zenon DEF Square
  <1>10. ASSUME day \in WellWatched(day), prev # {}, Max(prev) \in ReadWhole(n)
         PROVE  told = Move(DayInFull(Max(prev)).mean, DayInFull(day).mean)
    <2> DEFINE m == Max(prev)
    <2>1. m \in prev /\ \A x \in prev : x <= m
      <3>1. prev \in SUBSET (0..day)
        BY <1>1 DEF WellWatched
      <3> HIDE DEF prev
      <3> QED
        BY <1>1, <1>10, <3>1, BoundedMax
    <2>2. m \in Nat /\ m < day /\ Cardinality(HoursOf(m, 0)) >= MinHours
      BY <1>1, <2>1 DEF WellWatched
    <2> HIDE DEF m
    <2>3. m \in DOMAIN rows /\ rows[m] = DayInFull(m)
      <3>1. HoursOf(m, 0) # {} /\ m \in ReadWhole(n)
        BY <1>4, <1>10, <2>2 DEF m
      <3> QED
        BY <1>1, <2>2, <3>1, WholeRows DEF rows
    <2>4. m \in LastClose(rows, day)
      BY <1>5, <2>2, <2>3 DEF LastClose
    <2>5. Max(LastClose(rows, day)) = m
      <3>1. LastClose(rows, day) \subseteq Int /\ \A x \in LastClose(rows, day) : x <= m
        BY <1>1, <1>2, <1>8, <2>1 DEF LastClose
      <3> QED
        BY <2>4, <3>1, MaxIs
    <2>6. told = Move(rows[Max(LastClose(rows, day))].mean, rows[day].mean)
      BY <1>7, <1>10, <2>4, Zenon DEF Square
    <2> QED
      BY <1>7, <1>10, <2>3, <2>5, <2>6, Zenon DEF m
  <1> QED
    BY <1>6, <1>9, <1>10, Zenon DEF n, rows

-----------------------------------------------------------------------------
LEMMA ViewsHold == ViewSpec => []Recorded
  <1>1. ViewInit => Recorded
    BY DEF ViewInit, Recorded
  <1>2. Recorded /\ [ViewNext]_viewVars => Recorded'
    <2> SUFFICES ASSUME Recorded, [ViewNext]_viewVars PROVE Recorded'
      OBVIOUS
    <2>1. CASE UNCHANGED viewVars
      BY <2>1 DEF viewVars, Recorded
    <2>2. CASE AddHour
      BY <2>2 DEF AddHour, Recorded
    <2> QED
      BY <2>1, <2>2 DEF ViewNext
  <1> QED
    BY <1>1, <1>2, PTL DEF ViewSpec

\* While the record is kept up each square of the calendar tells its day by all of
\* the day's hours, for any prices, length of the day and hours a day must have
\* (server.py price_days).
THEOREM CalendarTellsTheDay == ViewSpec => []CalendarTellsWhatWasSeen
  <1>1. Recorded => CalendarTellsWhatWasSeen
    <2> SUFFICES ASSUME Recorded, record # <<>>, record[Len(record)] # Unwatched,
                        NEW days \in CalendarDays,
                        NEW day \in DaysShown(DaysOnRecord(days + 1), days)
                 PROVE  LET prev == WellWatched(day - 1)
                            told == Square(DaysOnRecord(days + 1), day)
                        IN  IF day \notin WellWatched(day) THEN told = "unwatched"
                            ELSE IF prev = {} THEN told = "first"
                            ELSE Max(prev) \in ReadWhole(days + 1) =>
                                   told = Move(DayInFull(Max(prev)).mean, DayInFull(day).mean)
      BY Zenon DEF CalendarTellsWhatWasSeen, Calendars, Calendar
    <2>1. days \in Nat \ {0}
      BY ViewsAssumption
    <2> QED
      BY <2>1, CalendarIs, Zenon
  <1> QED
    BY <1>1, ViewsHold, PTL

\* A moving average that calls itself complete is one over as many whole watched
\* days as were asked for, the latest before it, and none is announced as ready
\* before, for any prices, windows and spans (server.py price_average).
THEOREM CompleteAveragesAreWhole == ViewSpec => []CompleteIsComplete
  <1>1. Recorded => CompleteIsComplete
    <2>1. ASSUME Recorded, NEW days \in Windows, NEW span \in Spans, NEW avg \in Averages(days, span)
          PROVE  OverWholeDays(avg, days, span + days)
      <3>1. days \in Nat \ {0} /\ span \in Nat \ {0} /\ span + days \in Nat
        BY ViewsAssumption
      <3>2. avg = AverageOf(Usable(DaysOnRecord(span + days)), days, span)
        BY Zenon DEF Averages
      <3> QED
        BY <2>1, <3>1, <3>2, AverageIs, Zenon
    <2> QED
      BY <2>1, Zenon DEF CompleteIsComplete
  <1> QED
    BY <1>1, ViewsHold, PTL

=============================================================================
