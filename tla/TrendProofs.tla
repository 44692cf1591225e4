------------------------------ MODULE TrendProofs ------------------------------
(***************************************************************************)
(* The trend lines and their archive.  Every line rests on the hours on    *)
(* record and one line of a kind is active, for any bars and scales.       *)
(* Wherever a pass stops, the next one makes up for it.                    *)
(***************************************************************************)
EXTENDS TrendLines, SetOrderTheorems, SequenceTheorems, TLAPS

-----------------------------------------------------------------------------
(* The trend lines: the table after some commits. *)

\* The table before the first n commits, and after each of them.
Follows(f, tab, cs, n) ==
  f = [i \in 0..n |-> IF i = 0 THEN tab ELSE Apply(f[i - 1], cs[i])]

\* There is such a history of tables.
LEMMA FollowsExist ==
  ASSUME NEW tab, NEW cs, NEW n \in Nat
  PROVE  \E f : Follows(f, tab, cs, n)
  <1> DEFINE good == {m \in Nat : \E f : Follows(f, tab, cs, m)}
  <1>1. 0 \in good
    <2> DEFINE f == [i \in 0..0 |-> tab]
    <2>1. f = [i \in 0..0 |-> IF i = 0 THEN tab ELSE Apply(f[i - 1], cs[i])]
      <3>1. \A i \in 0..0 : i = 0
        OBVIOUS
      <3> QED
        BY <3>1
    <2> QED
      BY <2>1 DEF Follows
  <1>2. ASSUME NEW m \in 1..n, m - 1 \in good PROVE m \in good
    <2>1. PICK f : Follows(f, tab, cs, m - 1)
      BY <1>2
    <2> DEFINE g == [i \in 0..m |-> IF i = m THEN Apply(f[m - 1], cs[m]) ELSE f[i]]
               Step(h, i) == IF i = 0 THEN tab ELSE Apply(h[i - 1], cs[i])
    <2>2. \A i \in 0..(m - 1) : f[i] = Step(f, i)
      <3>1. f = [i \in 0..(m - 1) |-> Step(f, i)]
        BY <2>1 DEF Follows
      <3> HIDE DEF Step
      <3> QED
        BY <3>1
    <2>3. ASSUME NEW i \in 0..m PROVE g[i] = Step(g, i)
      <3>1. CASE i = m
        <4>1. m # 0 /\ g[m - 1] = f[m - 1]
          OBVIOUS
        <4> QED
          BY <3>1, <4>1
      <3>2. CASE i # m
        <4>1. i \in 0..(m - 1) /\ (i # 0 => i - 1 \in 0..m /\ i - 1 # m)
          BY <3>2
        <4>2. i # 0 => g[i - 1] = f[i - 1]
          BY <4>1
        <4>3. g[i] = f[i]
          BY <3>2
        <4> QED
          BY <2>2, <4>1, <4>2, <4>3
      <3> QED
        BY <3>1, <3>2
    <2>4. g = [i \in 0..m |-> Step(g, i)]
      <3> HIDE DEF Step
      <3> QED
        BY <2>3
    <2>5. Follows(g, tab, cs, m)
      BY <2>4 DEF Follows
    <2> HIDE DEF g
    <2> QED
      BY <2>5
  <1> HIDE DEF good
  <1>3. \A i \in 0..n : i \in good
    BY <1>1, <1>2, CountingUp
  <1> QED
    BY <1>3 DEF good

\* One commit more is one step more.
LEMMA AfterSteps ==
  ASSUME NEW tab, NEW cs
  PROVE  /\ After(tab, cs, 0) = tab
         /\ \A n \in Nat : After(tab, cs, n + 1) = Apply(After(tab, cs, n), cs[n + 1])
  <1>1. ASSUME NEW n \in Nat
        PROVE  \E f : Follows(f, tab, cs, n) /\ After(tab, cs, n) = f[n]
    <2> DEFINE P(f) == Follows(f, tab, cs, n)
               c == CHOOSE f : P(f)
    <2>1. \E f : P(f)
      BY FollowsExist
    <2> HIDE DEF P
    <2>2. P(c)
      BY <2>1
    <2>3. After(tab, cs, n) = c[n]
      BY DEF After, Follows, P
    <2> QED
      BY <2>2, <2>3 DEF P
  <1>2. ASSUME NEW n \in Nat, NEW f, Follows(f, tab, cs, n), NEW i \in 0..n
        PROVE  f[i] = IF i = 0 THEN tab ELSE Apply(f[i - 1], cs[i])
    <2> DEFINE Step(h, j) == IF j = 0 THEN tab ELSE Apply(h[j - 1], cs[j])
    <2>1. f = [j \in 0..n |-> Step(f, j)]
      BY <1>2 DEF Follows
    <2> HIDE DEF Step
    <2>2. f[i] = Step(f, i)
      BY <2>1
    <2> QED
      BY <2>2 DEF Step
  <1>3. After(tab, cs, 0) = tab
    <2>1. PICK f : Follows(f, tab, cs, 0) /\ After(tab, cs, 0) = f[0]
      BY <1>1
    <2> QED
      BY <1>2, <2>1
  <1>4. ASSUME NEW n \in Nat PROVE After(tab, cs, n + 1) = Apply(After(tab, cs, n), cs[n + 1])
    <2>1. PICK f : Follows(f, tab, cs, n) /\ After(tab, cs, n) = f[n]
      BY <1>1
    <2>2. PICK g : Follows(g, tab, cs, n + 1) /\ After(tab, cs, n + 1) = g[n + 1]
      BY <1>1
    <2> DEFINE good == {i \in 0..n : f[i] = g[i]}
    <2>3. 0 \in good
      BY <1>2, <2>1, <2>2
    <2>4. ASSUME NEW i \in 1..n, i - 1 \in good PROVE i \in good
      <3>1. i \in 0..n /\ i \in 0..(n + 1) /\ i # 0 /\ n + 1 \in Nat
        OBVIOUS
      <3>2. f[i] = Apply(f[i - 1], cs[i])
        BY <1>2, <2>1, <3>1
      <3>3. g[i] = Apply(g[i - 1], cs[i])
        BY <1>2, <2>2, <3>1
      <3> QED
        BY <2>4, <3>1, <3>2, <3>3
    <2>5. n \in good
      <3> HIDE DEF good
      <3>1. \A i \in 0..n : i \in good
        BY <2>3, <2>4, CountingUp
      <3> QED
        BY <3>1
    <2>6. g[n + 1] = Apply(g[n], cs[n + 1])
      <3>1. n + 1 \in Nat /\ n + 1 \in 0..(n + 1) /\ n + 1 # 0 /\ (n + 1) - 1 = n
        OBVIOUS
      <3>2. g[n + 1] = Apply(g[(n + 1) - 1], cs[n + 1])
        BY <1>2, <2>2, <3>1
      <3> QED
        BY <3>1, <3>2
    <2> QED
      BY <2>1, <2>2, <2>5, <2>6
  <1> QED
    BY <1>3, <1>4
-----------------------------------------------------------------------------
(* The table after some passes. *)

Passing(f, tab, hs, n) ==
  f = [i \in 0..n |-> IF i = 0 THEN tab ELSE Pass(f[i - 1], SubSeq(hs, 1, i))]

\* There is such a history of passes.
LEMMA PassingExist ==
  ASSUME NEW tab, NEW hs, NEW n \in Nat
  PROVE  \E f : Passing(f, tab, hs, n)
  <1> DEFINE good == {m \in Nat : \E f : Passing(f, tab, hs, m)}
  <1>1. 0 \in good
    <2> DEFINE f == [i \in 0..0 |-> tab]
    <2>1. f = [i \in 0..0 |-> IF i = 0 THEN tab ELSE Pass(f[i - 1], SubSeq(hs, 1, i))]
      <3>1. \A i \in 0..0 : i = 0
        OBVIOUS
      <3> QED
        BY <3>1
    <2> QED
      BY <2>1 DEF Passing
  <1>2. ASSUME NEW m \in 1..n, m - 1 \in good PROVE m \in good
    <2>1. PICK f : Passing(f, tab, hs, m - 1)
      BY <1>2
    <2> DEFINE g == [i \in 0..m |-> IF i = m THEN Pass(f[m - 1], SubSeq(hs, 1, m)) ELSE f[i]]
               Step(h, i) == IF i = 0 THEN tab ELSE Pass(h[i - 1], SubSeq(hs, 1, i))
    <2>2. \A i \in 0..(m - 1) : f[i] = Step(f, i)
      <3>1. f = [i \in 0..(m - 1) |-> Step(f, i)]
        BY <2>1 DEF Passing
      <3> HIDE DEF Step
      <3> QED
        BY <3>1
    <2>3. ASSUME NEW i \in 0..m PROVE g[i] = Step(g, i)
      <3>1. CASE i = m
        <4>1. m # 0 /\ g[m - 1] = f[m - 1]
          OBVIOUS
        <4> QED
          BY <3>1, <4>1
      <3>2. CASE i # m
        <4>1. i \in 0..(m - 1) /\ (i # 0 => i - 1 \in 0..m /\ i - 1 # m)
          BY <3>2
        <4>2. i # 0 => g[i - 1] = f[i - 1]
          BY <4>1
        <4>3. g[i] = f[i]
          BY <3>2
        <4> QED
          BY <2>2, <4>1, <4>2, <4>3
      <3> QED
        BY <3>1, <3>2
    <2>4. g = [i \in 0..m |-> Step(g, i)]
      <3> HIDE DEF Step
      <3> QED
        BY <2>3
    <2>5. Passing(g, tab, hs, m)
      BY <2>4 DEF Passing
    <2> HIDE DEF g
    <2> QED
      BY <2>5
  <1> HIDE DEF good
  <1>3. \A i \in 0..n : i \in good
    BY <1>1, <1>2, CountingUp
  <1> QED
    BY <1>3 DEF good

\* One pass more is one hour more.
LEMMA PassesSteps ==
  ASSUME NEW tab, NEW hs
  PROVE  /\ Passes(tab, hs, 0) = tab
         /\ \A n \in Nat : Passes(tab, hs, n + 1) = Pass(Passes(tab, hs, n), SubSeq(hs, 1, n + 1))
  <1>1. ASSUME NEW n \in Nat
        PROVE  \E f : Passing(f, tab, hs, n) /\ Passes(tab, hs, n) = f[n]
    <2> DEFINE P(f) == Passing(f, tab, hs, n)
               c == CHOOSE f : P(f)
    <2>1. \E f : P(f)
      BY PassingExist
    <2> HIDE DEF P
    <2>2. P(c)
      BY <2>1
    <2>3. Passes(tab, hs, n) = c[n]
      BY DEF Passes, Passing, P
    <2> QED
      BY <2>2, <2>3 DEF P
  <1>2. ASSUME NEW n \in Nat, NEW f, Passing(f, tab, hs, n), NEW i \in 0..n
        PROVE  f[i] = IF i = 0 THEN tab ELSE Pass(f[i - 1], SubSeq(hs, 1, i))
    <2> DEFINE Step(h, j) == IF j = 0 THEN tab ELSE Pass(h[j - 1], SubSeq(hs, 1, j))
    <2>1. f = [j \in 0..n |-> Step(f, j)]
      BY <1>2 DEF Passing
    <2> HIDE DEF Step
    <2>2. f[i] = Step(f, i)
      BY <2>1
    <2> QED
      BY <2>2 DEF Step
  <1>3. Passes(tab, hs, 0) = tab
    <2>1. PICK f : Passing(f, tab, hs, 0) /\ Passes(tab, hs, 0) = f[0]
      BY <1>1
    <2> QED
      BY <1>2, <2>1
  <1>4. ASSUME NEW n \in Nat PROVE Passes(tab, hs, n + 1) = Pass(Passes(tab, hs, n), SubSeq(hs, 1, n + 1))
    <2>1. PICK f : Passing(f, tab, hs, n) /\ Passes(tab, hs, n) = f[n]
      BY <1>1
    <2>2. PICK g : Passing(g, tab, hs, n + 1) /\ Passes(tab, hs, n + 1) = g[n + 1]
      BY <1>1
    <2> DEFINE good == {i \in 0..n : f[i] = g[i]}
    <2>3. 0 \in good
      BY <1>2, <2>1, <2>2
    <2>4. ASSUME NEW i \in 1..n, i - 1 \in good PROVE i \in good
      <3>1. i \in 0..n /\ i \in 0..(n + 1) /\ i # 0 /\ n + 1 \in Nat
        OBVIOUS
      <3>2. f[i] = Pass(f[i - 1], SubSeq(hs, 1, i))
        BY <1>2, <2>1, <3>1
      <3>3. g[i] = Pass(g[i - 1], SubSeq(hs, 1, i))
        BY <1>2, <2>2, <3>1
      <3> QED
        BY <2>4, <3>1, <3>2, <3>3
    <2>5. n \in good
      <3> HIDE DEF good
      <3>1. \A i \in 0..n : i \in good
        BY <2>3, <2>4, CountingUp
      <3> QED
        BY <3>1
    <2>6. g[n + 1] = Pass(g[n], SubSeq(hs, 1, n + 1))
      <3>1. n + 1 \in Nat /\ n + 1 \in 0..(n + 1) /\ n + 1 # 0 /\ (n + 1) - 1 = n
        OBVIOUS
      <3>2. g[n + 1] = Pass(g[(n + 1) - 1], SubSeq(hs, 1, n + 1))
        BY <1>2, <2>2, <3>1
      <3> QED
        BY <3>1, <3>2
    <2> QED
      BY <2>1, <2>2, <2>5, <2>6
  <1> QED
    BY <1>3, <1>4

-----------------------------------------------------------------------------
(* The commits of the first scales. *)

LinesOf(tab, bs, s) == LinesCommits(tab, s, bs, Breaks(tab, s, bs))

Gathers(f, tab, bs, n) ==
  f = [i \in 0..n |-> IF i = 0 THEN <<>> ELSE f[i - 1] \o LinesOf(tab, bs, i)]

\* The commits of the scales can be put one after the other.
LEMMA GathersExist ==
  ASSUME NEW tab, NEW bs, NEW n \in Nat
  PROVE  \E f : Gathers(f, tab, bs, n)
  <1> DEFINE good == {m \in Nat : \E f : Gathers(f, tab, bs, m)}
  <1>1. 0 \in good
    <2> DEFINE f == [i \in 0..0 |-> <<>>]
    <2>1. f = [i \in 0..0 |-> IF i = 0 THEN <<>> ELSE f[i - 1] \o LinesOf(tab, bs, i)]
      <3>1. \A i \in 0..0 : i = 0
        OBVIOUS
      <3> QED
        BY <3>1
    <2> QED
      BY <2>1 DEF Gathers
  <1>2. ASSUME NEW m \in 1..n, m - 1 \in good PROVE m \in good
    <2>1. PICK f : Gathers(f, tab, bs, m - 1)
      BY <1>2
    <2> DEFINE g == [i \in 0..m |-> IF i = m THEN f[m - 1] \o LinesOf(tab, bs, m) ELSE f[i]]
               Step(h, i) == IF i = 0 THEN <<>> ELSE h[i - 1] \o LinesOf(tab, bs, i)
    <2>2. \A i \in 0..(m - 1) : f[i] = Step(f, i)
      <3>1. f = [i \in 0..(m - 1) |-> Step(f, i)]
        BY <2>1 DEF Gathers
      <3> HIDE DEF Step
      <3> QED
        BY <3>1
    <2>3. ASSUME NEW i \in 0..m PROVE g[i] = Step(g, i)
      <3>1. CASE i = m
        <4>1. m # 0 /\ g[m - 1] = f[m - 1]
          OBVIOUS
        <4> QED
          BY <3>1, <4>1
      <3>2. CASE i # m
        <4>1. i \in 0..(m - 1) /\ (i # 0 => i - 1 \in 0..m /\ i - 1 # m)
          BY <3>2
        <4>2. i # 0 => g[i - 1] = f[i - 1]
          BY <4>1
        <4>3. g[i] = f[i]
          BY <3>2
        <4> QED
          BY <2>2, <4>1, <4>2, <4>3
      <3> QED
        BY <3>1, <3>2
    <2>4. g = [i \in 0..m |-> Step(g, i)]
      <3> HIDE DEF Step
      <3> QED
        BY <2>3
    <2>5. Gathers(g, tab, bs, m)
      BY <2>4 DEF Gathers
    <2> HIDE DEF g
    <2> QED
      BY <2>5
  <1> HIDE DEF good
  <1>3. \A i \in 0..n : i \in good
    BY <1>1, <1>2, CountingUp
  <1> QED
    BY <1>3 DEF good

Gathered(tab, bs, n) ==
  (CHOOSE f : Gathers(f, tab, bs, n))[n]

\* One scale more adds its commits at the end.
LEMMA GatheredSteps ==
  ASSUME NEW tab, NEW bs
  PROVE  /\ Gathered(tab, bs, 0) = <<>>
         /\ \A n \in Nat : Gathered(tab, bs, n + 1) = Gathered(tab, bs, n) \o LinesOf(tab, bs, n + 1)
  <1>1. ASSUME NEW n \in Nat
        PROVE  \E f : Gathers(f, tab, bs, n) /\ Gathered(tab, bs, n) = f[n]
    <2> DEFINE P(f) == Gathers(f, tab, bs, n)
               c == CHOOSE f : P(f)
    <2>1. \E f : P(f)
      BY GathersExist
    <2> HIDE DEF P
    <2>2. P(c)
      BY <2>1
    <2>3. Gathered(tab, bs, n) = c[n]
      BY DEF Gathered, Gathers, P
    <2> QED
      BY <2>2, <2>3 DEF P
  <1>2. ASSUME NEW n \in Nat, NEW f, Gathers(f, tab, bs, n), NEW i \in 0..n
        PROVE  f[i] = IF i = 0 THEN <<>> ELSE f[i - 1] \o LinesOf(tab, bs, i)
    <2> DEFINE Step(h, j) == IF j = 0 THEN <<>> ELSE h[j - 1] \o LinesOf(tab, bs, j)
    <2>1. f = [j \in 0..n |-> Step(f, j)]
      BY <1>2 DEF Gathers
    <2> HIDE DEF Step
    <2>2. f[i] = Step(f, i)
      BY <2>1
    <2> QED
      BY <2>2 DEF Step
  <1>3. Gathered(tab, bs, 0) = <<>>
    <2>1. PICK f : Gathers(f, tab, bs, 0) /\ Gathered(tab, bs, 0) = f[0]
      BY <1>1
    <2> QED
      BY <1>2, <2>1
  <1>4. ASSUME NEW n \in Nat PROVE Gathered(tab, bs, n + 1) = Gathered(tab, bs, n) \o LinesOf(tab, bs, n + 1)
    <2>1. PICK f : Gathers(f, tab, bs, n) /\ Gathered(tab, bs, n) = f[n]
      BY <1>1
    <2>2. PICK g : Gathers(g, tab, bs, n + 1) /\ Gathered(tab, bs, n + 1) = g[n + 1]
      BY <1>1
    <2> DEFINE good == {i \in 0..n : f[i] = g[i]}
    <2>3. 0 \in good
      BY <1>2, <2>1, <2>2
    <2>4. ASSUME NEW i \in 1..n, i - 1 \in good PROVE i \in good
      <3>1. i \in 0..n /\ i \in 0..(n + 1) /\ i # 0 /\ n + 1 \in Nat
        OBVIOUS
      <3>2. f[i] = f[i - 1] \o LinesOf(tab, bs, i)
        BY <1>2, <2>1, <3>1
      <3>3. g[i] = g[i - 1] \o LinesOf(tab, bs, i)
        BY <1>2, <2>2, <3>1
      <3> QED
        BY <2>4, <3>1, <3>2, <3>3
    <2>5. n \in good
      <3> HIDE DEF good
      <3>1. \A i \in 0..n : i \in good
        BY <2>3, <2>4, CountingUp
      <3> QED
        BY <3>1
    <2>6. g[n + 1] = g[n] \o LinesOf(tab, bs, n + 1)
      <3>1. n + 1 \in Nat /\ n + 1 \in 0..(n + 1) /\ n + 1 # 0 /\ (n + 1) - 1 = n
        OBVIOUS
      <3>2. g[n + 1] = g[(n + 1) - 1] \o LinesOf(tab, bs, n + 1)
        BY <1>2, <2>2, <3>1
      <3> QED
        BY <3>1, <3>2
    <2> QED
      BY <2>1, <2>2, <2>5, <2>6
  <1> QED
    BY <1>3, <1>4

-----------------------------------------------------------------------------
(* A commit. *)

\* A row has the fields of its columns.
Shape(r) ==
  r = [t1 |-> r.t1, p1 |-> r.p1, t2 |-> r.t2, p2 |-> r.p2, kind |-> r.kind,
       touches |-> r.touches, found |-> r.found, id |-> r.id, status |-> r.status,
       ended |-> r.ended]

SameLine(r, q) ==
  r.t1 = q.t1 /\ r.p1 = q.p1 /\ r.t2 = q.t2 /\ r.p2 = q.p2 /\ r.kind = q.kind /\ r.id = q.id

\* A row whose status is set is the same line.
LEMMA StatusChanged ==
  ASSUME NEW r, Shape(r), NEW v, NEW w, NEW q, q = [r EXCEPT !.status = v, !.ended = w]
  PROVE  Shape(q) /\ SameLine(q, r) /\ q.status = v
  <1> DEFINE F == {"t1", "p1", "t2", "p2", "kind", "touches", "found", "id", "status", "ended"}
  <1>1. DOMAIN r = F /\ r = [x \in F |-> r[x]]
    BY DEF Shape
  <1>2. q = [x \in F |-> IF x = "ended" THEN w ELSE IF x = "status" THEN v ELSE r[x]]
    BY <1>1, Zenon
  <1>3. /\ DOMAIN q = F /\ q.status = v /\ q = [x \in F |-> q[x]]
        /\ \A x \in F \ {"status", "ended"} : q[x] = r[x]
    BY <1>2
  <1> QED
    BY <1>3 DEF Shape, SameLine

\* So is a row that was ended,
LEMMA EndedIs ==
  ASSUME NEW row, Shape(row), NEW v, NEW w
  PROVE  /\ Shape(Ended(row, v, w)) /\ SameLine(Ended(row, v, w), row)
         /\ v # "active" => Ended(row, v, w).status # "active"
  <1>1. CASE row.status = "active"
    <2> DEFINE q == Ended(row, v, w)
    <2>1. q = [row EXCEPT !.status = v, !.ended = w]
      BY <1>1 DEF Ended
    <2> HIDE DEF q
    <2> DEFINE F == {"t1", "p1", "t2", "p2", "kind", "touches", "found", "id", "status", "ended"}
    <2>2. DOMAIN row = F /\ row = [x \in F |-> row[x]]
      BY DEF Shape
    <2>3. q = [x \in F |-> IF x = "ended" THEN w ELSE IF x = "status" THEN v ELSE row[x]]
      BY <2>1, <2>2, Zenon
    <2>4. /\ DOMAIN q = F /\ q.status = v /\ q = [x \in F |-> q[x]]
          /\ \A x \in F \ {"status", "ended"} : q[x] = row[x]
      BY <2>3
    <2>5. Shape(q) /\ SameLine(q, row) /\ q.status = v
      BY <2>4 DEF Shape, SameLine
    <2> QED
      BY <2>5 DEF q
  <1>2. CASE row.status # "active"
    BY <1>2 DEF Ended, SameLine
  <1> QED
    BY <1>1, <1>2

\* and one whose touches are set.
LEMMA TouchesChanged ==
  ASSUME NEW r, Shape(r), NEW w, NEW q, q = [r EXCEPT !.touches = w]
  PROVE  Shape(q) /\ SameLine(q, r) /\ q.status = r.status
  <1> DEFINE F == {"t1", "p1", "t2", "p2", "kind", "touches", "found", "id", "status", "ended"}
  <1>1. DOMAIN r = F /\ r = [x \in F |-> r[x]]
    BY DEF Shape
  <1>2. q = [x \in F |-> IF x = "touches" THEN w ELSE r[x]]
    BY <1>1, Zenon
  <1>3. /\ DOMAIN q = F /\ q = [x \in F |-> q[x]] /\ \A x \in F \ {"touches"} : q[x] = r[x]
    BY <1>2
  <1> QED
    BY <1>3 DEF Shape, SameLine

\* The archive is a finite table of such rows.
Table(tab) ==
  /\ tab = [key \in DOMAIN tab |-> tab[key]] /\ IsFiniteSet(DOMAIN tab)
  /\ \A key \in DOMAIN tab : Shape(tab[key]) /\ tab[key].id \in Nat

\* What a pass may commit.
Commit(c) ==
  /\ c.op \in {"end", "revive", "touch", "put"}
  /\ c.op = "end" => c.status \in {"broken", "replaced"}

\* What a commit leaves: it changes the status of its own row at most, and no
\* row's line.
Applied(new, tab, c) ==
  /\ Table(new)
  /\ DOMAIN new = DOMAIN tab \cup (IF c.op = "put" THEN {c.key} ELSE {})
  /\ \A key \in DOMAIN tab : key # c.key => new[key] = tab[key]
  /\ \A key \in DOMAIN tab : c.op # "put" => SameLine(new[key], tab[key])
  /\ c.key \in DOMAIN tab /\ c.op = "end" => new[c.key].status # "active"
  /\ c.key \in DOMAIN tab /\ c.op = "touch" => new[c.key].status = tab[c.key].status
  /\ c.op = "put" => \E i \in Nat : new[c.key] = Row(c.line, c.at, i)

LEMMA ApplyIs ==
  ASSUME NEW tab, Table(tab), NEW c, Commit(c)
  PROVE  Applied(Apply(tab, c), tab, c)
  <1> DEFINE new == Apply(tab, c)
             old == tab[c.key]
             T == DOMAIN tab
  <1>1. ASSUME NEW r, new = [tab EXCEPT ![c.key] = r], c.op # "put",
               c.key \in T => Shape(r) /\ SameLine(r, old)
        PROVE  /\ Table(new) /\ DOMAIN new = T
               /\ \A key \in T : key # c.key => new[key] = tab[key]
               /\ \A key \in T : SameLine(new[key], tab[key])
               /\ c.key \in T => new[c.key] = r
    <2> HIDE DEF new, T
    <2>1. DOMAIN new = T /\ new = [key \in T |-> IF key = c.key THEN r ELSE tab[key]]
      BY <1>1 DEF T
    <2>2. \A key \in T : new[key] = IF key = c.key THEN r ELSE tab[key]
      BY <2>1
    <2>3. \A key \in T : Shape(tab[key]) /\ tab[key].id \in Nat /\ SameLine(tab[key], tab[key])
      BY DEF Table, SameLine, T
    <2>4. \A key \in T : Shape(new[key]) /\ SameLine(new[key], tab[key])
      BY <1>1, <2>2, <2>3
    <2>5. \A key \in T : new[key].id \in Nat
      BY <2>3, <2>4 DEF SameLine
    <2>6. new = [key \in T |-> new[key]]
      BY <2>1
    <2>7. Table(new)
      BY <2>1, <2>4, <2>5, <2>6 DEF Table, T
    <2> QED
      BY <2>1, <2>2, <2>4, <2>7
  <1>2. CASE c.op = "end"
    <2> DEFINE r == Ended(old, c.status, c.at)
    <2>1. new = [tab EXCEPT ![c.key] = r]
      BY <1>2 DEF Apply
    <2>2. c.key \in T => Shape(r) /\ SameLine(r, old) /\ r.status # "active"
      <3> SUFFICES ASSUME c.key \in T PROVE Shape(r) /\ SameLine(r, old) /\ r.status # "active"
        OBVIOUS
      <3>1. Shape(old) /\ c.status # "active"
        BY <1>2 DEF Table, Commit
      <3> DEFINE v == c.status
                 w == c.at
      <3> HIDE DEF old, v, w
      <3> QED
        BY <3>1, EndedIs DEF v, w
    <2> HIDE DEF new, T, r, old
    <2>3. /\ Table(new) /\ DOMAIN new = T
          /\ \A key \in T : key # c.key => new[key] = tab[key]
          /\ \A key \in T : SameLine(new[key], tab[key])
          /\ c.key \in T => new[c.key] = r
      BY <1>1, <1>2, <2>1, <2>2
    <2> QED
      BY <1>2, <2>2, <2>3 DEF new, T, Applied
  <1>3. CASE c.op = "revive"
    <2> DEFINE r == Revived(old)
    <2>1. new = [tab EXCEPT ![c.key] = r]
      BY <1>3 DEF Apply
    <2>2. c.key \in T => Shape(r) /\ SameLine(r, old)
      <3> SUFFICES ASSUME c.key \in T PROVE Shape(r) /\ SameLine(r, old)
        OBVIOUS
      <3>1. Shape(old) /\ SameLine(old, old)
        BY DEF Table, SameLine
      <3>2. r = old \/ r = [old EXCEPT !.status = "active", !.ended = Never]
        BY DEF Revived
      <3> DEFINE v == "active"
                 w == Never
      <3>3. r = old \/ r = [old EXCEPT !.status = v, !.ended = w]
        BY <3>2
      <3> HIDE DEF r, old, v, w
      <3> QED
        BY <3>1, <3>3, StatusChanged, Zenon
    <2> HIDE DEF new, T, r, old
    <2>3. /\ Table(new) /\ DOMAIN new = T
          /\ \A key \in T : key # c.key => new[key] = tab[key]
          /\ \A key \in T : SameLine(new[key], tab[key])
          /\ c.key \in T => new[c.key] = r
      BY <1>1, <1>3, <2>1, <2>2
    <2> QED
      BY <1>3, <2>2, <2>3 DEF new, T, Applied
  <1>4. CASE c.op = "touch"
    <2> DEFINE r == [old EXCEPT !.touches = c.touches]
    <2>1. new = [tab EXCEPT ![c.key] = r]
      BY <1>4 DEF Apply
    <2>2. c.key \in T => Shape(r) /\ SameLine(r, old) /\ r.status = old.status
      <3> SUFFICES ASSUME c.key \in T PROVE Shape(r) /\ SameLine(r, old) /\ r.status = old.status
        OBVIOUS
      <3>1. Shape(old)
        BY DEF Table
      <3> DEFINE w == c.touches
      <3>2. r = [old EXCEPT !.touches = w]
        OBVIOUS
      <3> HIDE DEF r, old, w
      <3> QED
        BY <3>1, <3>2, TouchesChanged, Zenon
    <2> HIDE DEF new, T, r, old
    <2>3. /\ Table(new) /\ DOMAIN new = T
          /\ \A key \in T : key # c.key => new[key] = tab[key]
          /\ \A key \in T : SameLine(new[key], tab[key])
          /\ c.key \in T => new[c.key] = r
      BY <1>1, <1>4, <2>1, <2>2
    <2> QED
      BY <1>4, <2>2, <2>3 DEF new, T, old, Applied
  <1>5. CASE c.op = "put"
    <2> DEFINE i == Cardinality(T) + 1
               r == Row(c.line, c.at, i)
    <2>1. new = Stored(tab, c.key, r)
      BY <1>5 DEF Apply
    <2>2. i \in Nat /\ Shape(r) /\ r.id = i
      <3>1. Cardinality(T) \in Nat
        BY FS_CardinalityType DEF Table
      <3> HIDE DEF T
      <3>2. i \in Nat
        BY <3>1
      <3> HIDE DEF i
      <3> QED
        BY <3>2 DEF Row, Shape
    <2> HIDE DEF i, r
    <2>3. DOMAIN new = T \cup {c.key} /\ new = [x \in T \cup {c.key} |-> IF x = c.key THEN r ELSE tab[x]]
      BY <2>1 DEF Stored
    <2>4. IsFiniteSet(T \cup {c.key})
      BY FS_AddElement DEF Table
    <2>5. \A key \in T : Shape(tab[key]) /\ tab[key].id \in Nat
      BY DEF Table
    <2> HIDE DEF new, T
    <2>6. \A key \in T \cup {c.key} : new[key] = IF key = c.key THEN r ELSE tab[key]
      BY <2>3
    <2>7. \A key \in T \cup {c.key} : Shape(new[key]) /\ new[key].id \in Nat
      BY <2>2, <2>5, <2>6
    <2>8. new = [key \in DOMAIN new |-> new[key]]
      BY <2>3
    <2>9. Table(new)
      BY <2>3, <2>4, <2>7, <2>8 DEF Table
    <2>10. new[c.key] = Row(c.line, c.at, i)
      BY <2>6 DEF r
    <2> QED
      BY <1>5, <2>2, <2>3, <2>6, <2>9, <2>10 DEF new, T, Applied
  <1> QED
    BY <1>2, <1>3, <1>4, <1>5 DEF Commit

-----------------------------------------------------------------------------
(* The line found. *)

\* The anchors of a line are tips of the bars.
OnBars(ln, bs) ==
  /\ ln.t1 \in 1..Len(bs) /\ Tip(ln.kind, bs[ln.t1]) = ln.p1
  /\ ln.t2 \in 1..Len(bs) /\ Tip(ln.kind, bs[ln.t2]) = ln.p2

\* Of lines between the same bars one beats every other.
LEMMA SomeLineBeats ==
  ASSUME NEW b \in Nat, NEW L, L # {},
         \A x \in L : x.t1 \in 1..b /\ x.t2 \in 1..b /\ x.touches \in SUBSET (1..b)
  PROVE  \E x \in L : \A y \in L : Beats(x, y)
  <1> DEFINE rank(x) == Cardinality(x.touches)
             R  == {rank(x) : x \in L}
  <1>1. \A x \in L : rank(x) \in 0..b
    <2> SUFFICES ASSUME NEW x \in L PROVE rank(x) \in 0..b
      OBVIOUS
    <2>1. IsFiniteSet(1..b) /\ Cardinality(1..b) <= b
      <3>1. 1 \in Int /\ b \in Int /\ (1 > b \/ b - 1 + 1 = b)
        OBVIOUS
      <3>2. IsFiniteSet(1..b) /\ Cardinality(1..b) = IF 1 > b THEN 0 ELSE b - 1 + 1
        BY <3>1, FS_Interval
      <3> QED
        BY <3>1, <3>2
    <2> DEFINE t == x.touches
    <2>2. t \in SUBSET (1..b)
      OBVIOUS
    <2> HIDE DEF t
    <2>3. IsFiniteSet(t) /\ Cardinality(t) <= Cardinality(1..b)
      BY <2>1, <2>2, FS_Subset
    <2>4. Cardinality(t) \in Nat /\ Cardinality(1..b) \in Nat
      BY <2>1, <2>3, FS_CardinalityType
    <2> QED
      BY <2>1, <2>3, <2>4 DEF t
  <1>2. \A x, y \in L : \/ rank(x) > rank(y)
                        \/ rank(x) = rank(y) /\ x.t2 > y.t2
                        \/ rank(x) = rank(y) /\ x.t2 = y.t2 /\ x.t1 <= y.t1
                        => Beats(x, y)
    BY DEF Beats
  <1> HIDE DEF rank
  <1>3. PICK m \in R : \A r \in R : r <= m
    <2>1. R \in SUBSET (0..b) /\ R # {}
      BY <1>1
    <2> HIDE DEF R
    <2> QED
      BY <2>1, GreatestFound
  <1> DEFINE L2 == {x \in L : rank(x) = m}
             R2 == {x.t2 : x \in L2}
  <1>4. PICK m2 \in R2 : \A r \in R2 : r <= m2
    <2>1. R2 \in SUBSET (0..b) /\ R2 # {}
      BY <1>3
    <2> HIDE DEF R2
    <2> QED
      BY <2>1, GreatestFound
  <1> DEFINE L1 == {x \in L2 : x.t2 = m2}
             R1 == {x.t1 : x \in L1}
  <1>5. PICK m1 \in R1 : \A r \in R1 : m1 <= r
    <2>1. R1 \in SUBSET Nat /\ R1 # {}
      BY <1>4
    <2> HIDE DEF R1
    <2> QED
      BY <2>1, LeastFound
  <1>6. PICK x \in L1 : x.t1 = m1
    OBVIOUS
  <1>7. ASSUME NEW y \in L PROVE Beats(x, y)
    <2>1. rank(y) <= m /\ rank(x) = m /\ rank(y) \in 0..b /\ rank(x) \in 0..b
      BY <1>1, <1>3
    <2>2. rank(y) = m => y.t2 <= m2 /\ x.t2 = m2 /\ y.t2 \in 1..b /\ x.t2 \in 1..b
      BY <1>4
    <2>3. rank(y) = m /\ y.t2 = m2 => x.t1 <= y.t1
      BY <1>5, <1>6
    <2>4. x \in L
      OBVIOUS
    <2> HIDE DEF L1, L2, R1, R2, R
    <2> QED
      BY <1>2, <1>6, <2>1, <2>2, <2>3, <2>4
  <1> QED
    BY <1>6, <1>7

\* What is found for a kind is a line of that kind on the bars.
LEMMA DetectedOnBars ==
  ASSUME NEW bs \in Seq(BarShapes), NEW sc \in Scale, NEW kind
  PROVE  LET ln == Detect(bs, sc, kind) IN ln # NoLine => ln.kind = kind /\ OnBars(ln, bs)
  <1> DEFINE b == Len(bs)
  <1>1. ASSUME NEW from
        PROVE  LET ln == BestLine(bs, sc, kind, from) IN ln # NoLine => ln.kind = kind /\ OnBars(ln, bs)
    <2> DEFINE piv  == Pivots(bs, sc.k, kind)
               hull == Hull(bs, {i \in piv : i >= from}, kind)
               L    == GoodLines(bs, sc, kind, piv, hull)
               Edge(p, q) == [kind |-> kind, t1 |-> p, p1 |-> Tip(kind, bs[p]),
                              t2 |-> q, p2 |-> Tip(kind, bs[q])]
               Line(p, q) == [kind |-> kind, t1 |-> p, p1 |-> Tip(kind, bs[p]),
                              t2 |-> q, p2 |-> Tip(kind, bs[q]),
                              touches |-> Touches(Edge(p, q), bs, piv, sc.tol)]
    <2>1. b \in Nat /\ sc.k \in Nat
      BY DEF Scale, Positive
    <2>2. piv \in SUBSET (1..b)
      <3> HIDE DEF b
      <3>1. \A i \in (sc.k + 1)..(b - sc.k) : i \in 1..b
        BY <2>1
      <3> QED
        BY <3>1 DEF Pivots, b
    <2>3. hull \in SUBSET (1..b)
      BY <2>2 DEF Hull
    <2>4. \A x \in L : \E p, q \in hull : x = Line(p, q)
      <3> HIDE DEF piv, hull
      <3> QED
        BY DEF GoodLines
    <2>5. ASSUME NEW p \in 1..b, NEW q \in 1..b
          PROVE  LET x == Line(p, q)
                 IN  x.kind = kind /\ OnBars(x, bs) /\ x.t1 \in 1..b /\ x.t2 \in 1..b
                     /\ x.touches \in SUBSET (1..b)
      <3> DEFINE t == Touches(Edge(p, q), bs, piv, sc.tol)
      <3>1. t \in SUBSET ({p, q} \cup piv)
        <4> HIDE DEF piv
        <4> QED
          BY DEF Touches
      <3>2. t \in SUBSET (1..b)
        <4> HIDE DEF t, piv
        <4> QED
          BY <2>2, <3>1
      <3> DEFINE P == Tip(kind, bs[p])
                 Q == Tip(kind, bs[q])
      <3> HIDE DEF t, piv
      <3>3. Line(p, q) = [kind |-> kind, t1 |-> p, p1 |-> P, t2 |-> q, p2 |-> Q, touches |-> t]
        BY DEF t
      <3> DEFINE x == Line(p, q)
      <3> HIDE DEF P, Q, x
      <3>4. /\ x.kind = kind /\ x.t1 = p /\ x.p1 = P /\ x.t2 = q /\ x.p2 = Q
            /\ x.touches = t
        BY <3>3 DEF x
      <3>5. OnBars(x, bs)
        BY <3>4 DEF OnBars, P, Q
      <3> QED
        BY <3>2, <3>4, <3>5 DEF x
    <2>6. \A x \in L : /\ x.kind = kind /\ OnBars(x, bs)
                       /\ x.t1 \in 1..b /\ x.t2 \in 1..b /\ x.touches \in SUBSET (1..b)
      <3> HIDE DEF L, Line, b, hull
      <3> QED
        BY <2>3, <2>4, <2>5
    <2>7. BestLine(bs, sc, kind, from) =
            IF L = {} THEN NoLine ELSE CHOOSE x \in L : \A y \in L : Beats(x, y)
      BY DEF BestLine
    <2>8. L # {} => \E x \in L : \A y \in L : Beats(x, y)
      <3> HIDE DEF L, b
      <3> QED
        BY <2>1, <2>6, SomeLineBeats
    <2> HIDE DEF L
    <2> QED
      BY <2>6, <2>7, <2>8
  <1> QED
    BY <1>1 DEF Detect

-----------------------------------------------------------------------------
(* The commits of a pass. *)

\* A commit that stores no line but one on the bars.
Rests(c, bs) == Commit(c) /\ (c.op = "put" => OnBars(c.line, bs))

Listed(cs, bs) ==
  /\ cs \in Seq({cs[i] : i \in DOMAIN cs})
  /\ \A i \in 1..Len(cs) : Rests(cs[i], bs)

Anchored(tab, bs) == \A key \in DOMAIN tab : OnBars(tab[key], bs)

\* A list of commits is a sequence.
LEMMA ListedLen ==
  ASSUME NEW cs, NEW bs, Listed(cs, bs)
  PROVE  Len(cs) \in Nat /\ DOMAIN cs = 1..Len(cs)
  <1> DEFINE S == {cs[i] : i \in DOMAIN cs}
  <1>1. cs \in Seq(S)
    BY DEF Listed
  <1> HIDE DEF S
  <1> QED
    BY <1>1, LenProperties

\* A sequence of commits that rest on the bars is such a list.
LEMMA ListedIs ==
  ASSUME NEW S, NEW cs \in Seq(S), NEW bs, \A i \in 1..Len(cs) : Rests(cs[i], bs)
  PROVE  Listed(cs, bs)
  <1>1. Len(cs) \in Nat /\ DOMAIN cs = 1..Len(cs) /\ cs \in [1..Len(cs) -> S]
    BY LenProperties
  <1>2. cs = [i \in 1..Len(cs) |-> cs[i]]
    BY <1>1
  <1> DEFINE T == {cs[i] : i \in DOMAIN cs}
  <1>3. \A i \in 1..Len(cs) : cs[i] \in T
    BY <1>1
  <1>4. cs \in Seq(T)
    <2> HIDE DEF T
    <2> QED
      BY <1>1, <1>2, <1>3, SeqDef
  <1> QED
    BY <1>4 DEF Listed

\* Two lists one after the other are a list.
LEMMA ListedBoth ==
  ASSUME NEW bs, NEW a, Listed(a, bs), NEW b, Listed(b, bs)
  PROVE  /\ Listed(a \o b, bs) /\ Len(a \o b) = Len(a) + Len(b)
         /\ \A i \in 1..Len(a) : (a \o b)[i] = a[i]
         /\ \A i \in 1..Len(b) : (a \o b)[Len(a) + i] = b[i]
  <1> DEFINE A == {a[i] : i \in DOMAIN a}
             B == {b[i] : i \in DOMAIN b}
             S == A \cup B
  <1>1. Len(a) \in Nat /\ Len(b) \in Nat
    BY ListedLen
  <1>2. a \in Seq(A) /\ b \in Seq(B)
    BY DEF Listed
  <1>3. A \subseteq S /\ B \subseteq S
    OBVIOUS
  <1> HIDE DEF A, B, S
  <1>4. a \in Seq(S) /\ b \in Seq(S)
    BY <1>2, <1>3, SeqMonotonic
  <1>5. /\ a \o b \in Seq(S) /\ Len(a \o b) = Len(a) + Len(b)
        /\ \A i \in 1..(Len(a) + Len(b)) :
             (a \o b)[i] = IF i <= Len(a) THEN a[i] ELSE b[i - Len(a)]
    BY <1>4, ConcatProperties
  <1> DEFINE la == Len(a)
             lb == Len(b)
             c  == a \o b
  <1> HIDE DEF la, lb, c
  <1>6. \A i \in 1..la : c[i] = a[i]
    <2> SUFFICES ASSUME NEW i \in 1..la PROVE c[i] = a[i]
      OBVIOUS
    <2>1. i \in 1..(la + lb) /\ i <= la
      BY <1>1 DEF la, lb
    <2> QED
      BY <1>5, <2>1 DEF la, lb, c
  <1>7. \A i \in 1..lb : c[la + i] = b[i]
    <2> SUFFICES ASSUME NEW i \in 1..lb PROVE c[la + i] = b[i]
      OBVIOUS
    <2>1. la + i \in 1..(la + lb) /\ ~(la + i <= la) /\ (la + i) - la = i
      BY <1>1 DEF la, lb
    <2>2. c[la + i] = b[(la + i) - la]
      BY <1>5, <2>1 DEF la, lb, c
    <2> QED
      BY <2>1, <2>2
  <1>8. \A i \in 1..la : Rests(a[i], bs)
    BY DEF Listed, la
  <1>9. \A i \in 1..lb : Rests(b[i], bs)
    BY DEF Listed, lb
  <1>10. ASSUME NEW i \in 1..(la + lb) PROVE Rests(c[i], bs)
    <2>1. CASE i <= la
      <3>1. i \in 1..la
        BY <1>1, <2>1 DEF la, lb
      <3> QED
        BY <1>6, <1>8, <3>1
    <2>2. CASE ~(i <= la)
      <3>1. i - la \in 1..lb /\ la + (i - la) = i
        BY <1>1, <2>2 DEF la, lb
      <3>2. c[la + (i - la)] = b[i - la]
        BY <1>7, <3>1
      <3> QED
        BY <1>9, <3>1, <3>2
    <2> QED
      BY <2>1, <2>2
  <1>11. Listed(c, bs)
    <2>1. c \in Seq(S) /\ Len(c) = la + lb
      BY <1>5 DEF la, lb, c
    <2> QED
      BY <1>10, <2>1, ListedIs
  <1> QED
    BY <1>5, <1>6, <1>7, <1>11 DEF la, lb, c

\* A commit that rests on the bars leaves lines on the bars.
LEMMA AppliedAnchored ==
  ASSUME NEW bs, NEW tab, Table(tab), Anchored(tab, bs), NEW c, Rests(c, bs)
  PROVE  Table(Apply(tab, c)) /\ Anchored(Apply(tab, c), bs)
  <1> DEFINE new == Apply(tab, c)
  <1>1. Commit(c) /\ (c.op = "put" => OnBars(c.line, bs))
    BY DEF Rests
  <1>2. Applied(new, tab, c)
    BY <1>1, ApplyIs
  <1> HIDE DEF new
  <1>3. ASSUME NEW key \in DOMAIN new PROVE OnBars(new[key], bs)
    <2>1. CASE key \in DOMAIN tab /\ ~(key = c.key /\ c.op = "put")
      <3>1. OnBars(tab[key], bs)
        BY <2>1 DEF Anchored
      <3>2. new[key] = tab[key] \/ SameLine(new[key], tab[key])
        BY <1>2, <2>1 DEF Applied
      <3> QED
        BY <3>1, <3>2 DEF OnBars, SameLine
    <2>2. CASE key = c.key /\ c.op = "put"
      <3>1. PICK i \in Nat : new[key] = Row(c.line, c.at, i)
        BY <1>2, <2>2 DEF Applied
      <3> DEFINE ln == c.line
                 r == new[key]
      <3>2. r = Row(ln, c.at, i) /\ OnBars(ln, bs)
        BY <1>1, <2>2, <3>1
      <3> HIDE DEF ln, r
      <3>3. r.t1 = ln.t1 /\ r.p1 = ln.p1 /\ r.t2 = ln.t2 /\ r.p2 = ln.p2 /\ r.kind = ln.kind
        BY <3>2 DEF Row
      <3>4. OnBars(r, bs)
        BY <3>2, <3>3 DEF OnBars
      <3> QED
        BY <3>4 DEF r
    <2> QED
      BY <1>2, <2>1, <2>2 DEF Applied
  <1> QED
    BY <1>2, <1>3 DEF Anchored, new, Applied

\* So does every beginning of a list of them.
LEMMA AfterAnchored ==
  ASSUME NEW bs, NEW tab, Table(tab), Anchored(tab, bs), NEW cs, Listed(cs, bs)
  PROVE  \A n \in 0..Len(cs) : Table(After(tab, cs, n)) /\ Anchored(After(tab, cs, n), bs)
  <1> DEFINE b == Len(cs)
             good == {n \in 0..b : Table(After(tab, cs, n)) /\ Anchored(After(tab, cs, n), bs)}
  <1>1. b \in Nat
    BY ListedLen
  <1>2. 0 \in good
    BY <1>1, AfterSteps
  <1>3. ASSUME NEW n \in 1..b, n - 1 \in good PROVE n \in good
    <2>1. n - 1 \in Nat /\ n \in 0..b /\ (n - 1) + 1 = n
      BY <1>1
    <2>2. After(tab, cs, (n - 1) + 1) = Apply(After(tab, cs, n - 1), cs[(n - 1) + 1])
      BY <2>1, AfterSteps
    <2>3. After(tab, cs, n) = Apply(After(tab, cs, n - 1), cs[n])
      BY <2>1, <2>2
    <2>4. Rests(cs[n], bs)
      BY DEF Listed
    <2>5. Table(After(tab, cs, n - 1)) /\ Anchored(After(tab, cs, n - 1), bs)
      BY <1>3
    <2>6. Table(After(tab, cs, n)) /\ Anchored(After(tab, cs, n), bs)
      BY <2>3, <2>4, <2>5, AppliedAnchored
    <2> QED
      BY <2>1, <2>6
  <1> HIDE DEF good
  <1>4. \A n \in 0..b : n \in good
    <2> HIDE DEF b
    <2> QED
      BY <1>1, <1>2, <1>3, CountingUp
  <1> QED
    BY <1>4 DEF good

-----------------------------------------------------------------------------
(* What a pass commits rests on the bars. *)

\* Lists of none, one and two commits.
LEMMA FewListed ==
  ASSUME NEW bs
  PROVE  /\ Listed(<<>>, bs) /\ Len(<<>>) = 0
         /\ \A c : Rests(c, bs) => Listed(<<c>>, bs)
         /\ \A c, d : Rests(c, bs) /\ Rests(d, bs) => Listed(<<c, d>>, bs)
  <1>1. <<>> \in Seq({}) /\ Len(<<>>) = 0
    OBVIOUS
  <1>2. Listed(<<>>, bs)
    <2>1. \A i \in 1..Len(<<>>) : FALSE
      BY <1>1
    <2> QED
      BY <1>1, <2>1, ListedIs
  <1>3. ASSUME NEW c, Rests(c, bs) PROVE Listed(<<c>>, bs)
    <2> DEFINE cs == <<c>>
    <2>1. cs \in Seq({c}) /\ \A i \in 1..Len(cs) : cs[i] = c
      OBVIOUS
    <2> HIDE DEF cs
    <2>2. \A i \in 1..Len(cs) : Rests(cs[i], bs)
      BY <1>3, <2>1
    <2>3. Listed(cs, bs)
      BY <2>1, <2>2, ListedIs
    <2> QED
      BY <2>3 DEF cs
  <1>4. ASSUME NEW c, NEW d, Rests(c, bs), Rests(d, bs) PROVE Listed(<<c, d>>, bs)
    <2> DEFINE cs == <<c, d>>
    <2>1. cs \in Seq({c, d}) /\ \A i \in 1..Len(cs) : cs[i] = c \/ cs[i] = d
      OBVIOUS
    <2> HIDE DEF cs
    <2>2. \A i \in 1..Len(cs) : Rests(cs[i], bs)
      BY <1>4, <2>1
    <2>3. Listed(cs, bs)
      BY <2>1, <2>2, ListedIs
    <2> QED
      BY <2>3 DEF cs
  <1> QED
    BY <1>1, <1>2, <1>3, <1>4

\* Ending a line stores none.
LEMMA EndRests ==
  ASSUME NEW key, NEW v \in {"broken", "replaced"}, NEW at, NEW bs
  PROVE  LET c == End(key, v, at) IN c.op = "end" /\ c.key = key /\ Rests(c, bs)
  BY DEF End, Rests, Commit

\* The end of the line before,
LEMMA SupersedesListed ==
  ASSUME NEW old, NEW at, NEW bs
  PROVE  Listed(Supersedes(old, at), bs)
  BY FewListed, EndRests DEF Supersedes

\* the commits for the line found,
LEMMA ChangesListed ==
  ASSUME NEW bs, NEW tab, NEW s, NEW at, NEW ln, ln # NoLine => OnBars(ln, bs), NEW cur
  PROVE  Listed(Changes(tab, s, bs, at, ln, cur), bs)
  <1> DEFINE key    == KeyOf(s, ln)
             touch  == [op |-> "touch", key |-> key, touches |-> ln.touches]
             revive == [op |-> "revive", key |-> key]
             put    == [op |-> "put", key |-> key, line |-> ln, at |-> at]
             ends   == Supersedes(cur, at)
             all    == Changes(tab, s, bs, at, ln, cur)
  <1>1. \/ all = <<>>
        \/ all = <<touch>>
        \/ all = <<revive, touch>> \o ends
        \/ ln # NoLine /\ all = <<put>> \o ends
    <2> HIDE DEF touch, revive, put, ends
    <2>1. \/ ln = NoLine
          \/ ln # NoLine /\ key \in cur
          \/ ln # NoLine /\ key \in DOMAIN tab \ cur
          \/ ln # NoLine /\ key \notin DOMAIN tab
      OBVIOUS
    <2> QED
      BY <2>1 DEF Changes, touch, revive, put, ends
  <1>2. Rests(touch, bs) /\ Rests(revive, bs) /\ (ln # NoLine => Rests(put, bs))
    <2> HIDE DEF key
    <2> QED
      BY DEF Rests, Commit
  <1>3. Listed(ends, bs)
    BY SupersedesListed
  <1> HIDE DEF touch, revive, put, ends, all
  <1>4. Listed(<<>>, bs) /\ Listed(<<touch>>, bs) /\ Listed(<<revive, touch>>, bs)
    BY <1>2, FewListed
  <1>5. Listed(<<revive, touch>> \o ends, bs)
    BY <1>3, <1>4, ListedBoth
  <1>6. CASE ln # NoLine
    <2>1. Listed(<<put>>, bs)
      BY <1>2, <1>6, FewListed
    <2>2. Listed(<<put>> \o ends, bs)
      BY <1>3, <2>1, ListedBoth
    <2> QED
      BY <1>1, <1>4, <1>5, <2>2 DEF all
  <1>7. CASE ln = NoLine
    BY <1>1, <1>4, <1>5, <1>7 DEF all
  <1> QED
    BY <1>6, <1>7

\* the ends of broken lines,
LEMMA BreaksListed ==
  ASSUME NEW bs, NEW tab, Table(tab), NEW s
  PROVE  /\ Listed(Breaks(tab, s, bs), bs)
         /\ \A i \in 1..Len(Breaks(tab, s, bs)) : Breaks(tab, s, bs)[i].op = "end"
  <1> DEFINE At(key) == BrokenAt(tab[key], bs, DOMAIN bs, Scales[s].tol, Scales[s].breakBars)
             Gone == {key \in UNION {Actives(tab, s, kind) : kind \in Kinds} : At(key) # Never}
             Nth(i) == CHOOSE key \in Gone :
                         Cardinality({x \in Gone : tab[x].id >= tab[key].id}) = i
             n == Cardinality(Gone)
             E(i) == End(Nth(i), "broken", At(Nth(i)))
             cs == [i \in 1..n |-> E(i)]
             S == {cs[i] : i \in 1..n}
  <1>1. Breaks(tab, s, bs) = cs
    BY DEF Breaks
  <1>2. n \in Nat
    <2>1. Gone \in SUBSET (DOMAIN tab) /\ IsFiniteSet(DOMAIN tab)
      BY DEF Actives, Table
    <2> HIDE DEF Gone
    <2> QED
      BY <2>1, FS_Subset, FS_CardinalityType
  <1>3. ASSUME NEW i \in 1..n PROVE cs[i].op = "end" /\ Rests(cs[i], bs)
    <2> DEFINE key == Nth(i)
               at  == At(key)
    <2>1. cs[i] = End(key, "broken", at)
      OBVIOUS
    <2> HIDE DEF key, at
    <2>2. LET c == End(key, "broken", at) IN c.op = "end" /\ Rests(c, bs)
      BY EndRests
    <2> HIDE DEF cs
    <2> QED
      BY <2>1, <2>2
  <1>4. cs \in [1..n -> S] /\ cs = [i \in 1..n |-> cs[i]]
    <2> HIDE DEF n, E
    <2> QED
      OBVIOUS
  <1> HIDE DEF n, cs, S
  <1>5. cs \in Seq(S) /\ Len(cs) = n
    BY <1>2, <1>4, SeqDef, LenProperties
  <1>6. Listed(cs, bs)
    BY <1>3, <1>5, ListedIs
  <1> QED
    BY <1>1, <1>3, <1>5, <1>6

\* and so all commits of a scale are such lists,
LEMMA LinesListed ==
  ASSUME NEW bs \in Seq(BarShapes), NEW tab, Table(tab), NEW s \in DOMAIN Scales
  PROVE  Listed(LinesOf(tab, bs, s), bs)
  <1> DEFINE ends == Breaks(tab, s, bs)
             left == After(tab, ends, Len(ends))
             R == KindCommits(left, s, bs, "resistance")
             P == KindCommits(left, s, bs, "support")
  <1>1. Listed(ends, bs)
    BY BreaksListed
  <1>2. ASSUME NEW kind PROVE Listed(KindCommits(left, s, bs, kind), bs)
    <2> DEFINE ln == Detect(bs, Scales[s], kind)
    <2>1. Scales[s] \in Scale
      BY TrendAssumption
    <2>2. ln # NoLine => OnBars(ln, bs)
      BY <2>1, DetectedOnBars
    <2> HIDE DEF ln, left
    <2> QED
      BY <2>2, ChangesListed DEF KindCommits, ln
  <1>3. Listed(R, bs) /\ Listed(P, bs)
    BY <1>2
  <1>4. LinesOf(tab, bs, s) = ends \o R \o P
    BY DEF LinesOf, LinesCommits
  <1> HIDE DEF ends, R, P
  <1>5. Listed(ends \o R, bs)
    BY <1>1, <1>3, ListedBoth
  <1> QED
    BY <1>3, <1>4, <1>5, ListedBoth

\* as are those of all scales.
LEMMA GatheredListed ==
  ASSUME NEW bs \in Seq(BarShapes), NEW tab, Table(tab)
  PROVE  \A n \in 0..Len(Scales) : Listed(Gathered(tab, bs, n), bs)
  <1> DEFINE b == Len(Scales)
             good == {n \in 0..b : Listed(Gathered(tab, bs, n), bs)}
  <1>1. b \in Nat /\ DOMAIN Scales = 1..b
    BY TrendAssumption
  <1>2. 0 \in good
    BY <1>1, GatheredSteps, FewListed
  <1>3. ASSUME NEW n \in 1..b, n - 1 \in good PROVE n \in good
    <2>1. n - 1 \in Nat /\ n \in 0..b /\ (n - 1) + 1 = n /\ n \in DOMAIN Scales
      BY <1>1
    <2>2. Gathered(tab, bs, (n - 1) + 1) = Gathered(tab, bs, n - 1) \o LinesOf(tab, bs, (n - 1) + 1)
      BY <2>1, GatheredSteps
    <2>3. Listed(Gathered(tab, bs, n - 1), bs) /\ Listed(LinesOf(tab, bs, n), bs)
      BY <1>3, <2>1, LinesListed
    <2>4. Listed(Gathered(tab, bs, n - 1) \o LinesOf(tab, bs, n), bs)
      BY <2>3, ListedBoth
    <2> QED
      BY <2>1, <2>2, <2>4
  <1> HIDE DEF good, b
  <1>4. \A n \in 0..b : n \in good
    BY <1>1, <1>2, <1>3, CountingUp
  <1> QED
    BY <1>4 DEF good, b

\* A pass commits what was gathered over all scales.
LEMMA PassIs ==
  ASSUME NEW bs, NEW tab
  PROVE  LET cs == Gathered(tab, bs, Len(Scales))
         IN  Commits(tab, bs) = cs /\ Pass(tab, bs) = After(tab, cs, Len(cs))
  <1> DEFINE cs == Gathered(tab, bs, Len(Scales))
  <1>1. Commits(tab, bs) = cs
    BY DEF Commits, Gathered, Gathers, LinesOf
  <1>2. Pass(tab, bs) = Only({After(tab, x, Len(x)) : x \in {Commits(tab, bs)}})
    BY DEF Pass
  <1> HIDE DEF cs
  <1>3. {After(tab, x, Len(x)) : x \in {Commits(tab, bs)}} = {After(tab, cs, Len(cs))}
    BY <1>1
  <1>4. \A x : Only({x}) = x
    BY DEF Only
  <1> QED
    BY <1>1, <1>2, <1>3, <1>4 DEF cs

\* A pass leaves lines on the bars, wherever it stops.
LEMMA PassAnchored ==
  ASSUME NEW bs \in Seq(BarShapes), NEW tab, Table(tab), Anchored(tab, bs)
  PROVE  /\ Table(Pass(tab, bs)) /\ Anchored(Pass(tab, bs), bs)
         /\ \A x \in Halfway(tab, Commits(tab, bs)) : Table(x) /\ Anchored(x, bs)
  <1> DEFINE cs == Gathered(tab, bs, Len(Scales))
  <1>1. Len(Scales) \in 0..Len(Scales)
    BY TrendAssumption
  <1>2. Listed(cs, bs)
    BY <1>1, GatheredListed
  <1>3. Commits(tab, bs) = cs /\ Pass(tab, bs) = After(tab, cs, Len(cs))
    BY PassIs
  <1> HIDE DEF cs
  <1>4. Len(cs) \in Nat
    BY <1>2, ListedLen
  <1>5. \A n \in 0..Len(cs) : Table(After(tab, cs, n)) /\ Anchored(After(tab, cs, n), bs)
    BY <1>2, AfterAnchored
  <1>6. Halfway(tab, cs) = {After(tab, cs, n) : n \in 0..(Len(cs) - 1)}
    BY DEF Halfway
  <1>7. Len(cs) \in 0..Len(cs) /\ \A n \in 0..(Len(cs) - 1) : n \in 0..Len(cs)
    BY <1>4
  <1> QED
    BY <1>3, <1>5, <1>6, <1>7

-----------------------------------------------------------------------------
(* One active line of a kind. *)

\* The commits of b follow those of a.
LEMMA AfterBoth ==
  ASSUME NEW bs, NEW tab, NEW a, Listed(a, bs), NEW b, Listed(b, bs)
  PROVE  After(tab, a \o b, Len(a \o b)) = After(After(tab, a, Len(a)), b, Len(b))
  <1> DEFINE la == Len(a)
             lb == Len(b)
             c  == a \o b
             t  == After(tab, a, la)
  <1>1. la \in Nat /\ lb \in Nat
    BY ListedLen
  <1>2. /\ Len(c) = la + lb
        /\ \A i \in 1..la : c[i] = a[i]
        /\ \A i \in 1..lb : c[la + i] = b[i]
    BY ListedBoth
  <1> HIDE DEF la, lb, c, t
  <1>3. \A n \in 0..la : After(tab, c, n) = After(tab, a, n)
    <2> DEFINE good == {n \in 0..la : After(tab, c, n) = After(tab, a, n)}
    <2>1. 0 \in good
      BY <1>1, AfterSteps
    <2>2. ASSUME NEW n \in 1..la, n - 1 \in good PROVE n \in good
      <3>1. n - 1 \in Nat /\ n \in 0..la /\ (n - 1) + 1 = n
        BY <1>1
      <3>2. /\ After(tab, c, (n - 1) + 1) = Apply(After(tab, c, n - 1), c[(n - 1) + 1])
            /\ After(tab, a, (n - 1) + 1) = Apply(After(tab, a, n - 1), a[(n - 1) + 1])
        BY <3>1, AfterSteps
      <3>3. c[n] = a[n] /\ After(tab, c, n - 1) = After(tab, a, n - 1)
        BY <1>2, <2>2
      <3> QED
        BY <3>1, <3>2, <3>3
    <2> HIDE DEF good
    <2>3. \A n \in 0..la : n \in good
      BY <1>1, <2>1, <2>2, CountingUp
    <2> QED
      BY <2>3 DEF good
  <1>4. \A n \in 0..lb : After(tab, c, la + n) = After(t, b, n)
    <2> DEFINE good == {n \in 0..lb : After(tab, c, la + n) = After(t, b, n)}
    <2>1. 0 \in good
      <3>1. la \in 0..la /\ la + 0 = la /\ 0 \in 0..lb
        BY <1>1
      <3>2. After(t, b, 0) = t
        BY AfterSteps
      <3>3. After(tab, c, la) = t
        BY <1>3, <3>1 DEF t
      <3> QED
        BY <3>1, <3>2, <3>3
    <2>2. ASSUME NEW n \in 1..lb, n - 1 \in good PROVE n \in good
      <3> DEFINE m == la + (n - 1)
      <3>1. n - 1 \in Nat /\ n \in 0..lb /\ (n - 1) + 1 = n /\ m \in Nat /\ m + 1 = la + n
        BY <1>1
      <3>2. /\ After(tab, c, m + 1) = Apply(After(tab, c, m), c[m + 1])
            /\ After(t, b, (n - 1) + 1) = Apply(After(t, b, n - 1), b[(n - 1) + 1])
        BY <3>1, AfterSteps
      <3>3. c[la + n] = b[n] /\ After(tab, c, m) = After(t, b, n - 1)
        BY <1>2, <2>2
      <3> HIDE DEF m
      <3> QED
        BY <3>1, <3>2, <3>3
    <2> HIDE DEF good
    <2>3. \A n \in 0..lb : n \in good
      BY <1>1, <2>1, <2>2, CountingUp
    <2> QED
      BY <2>3 DEF good
  <1>5. lb \in 0..lb
    BY <1>1
  <1>6. After(tab, c, la + lb) = After(t, b, lb)
    BY <1>4, <1>5
  <1> QED
    BY <1>2, <1>6 DEF la, lb, c, t

\* What one commit does to the active lines of a kind.
LEMMA ActivesApplied ==
  ASSUME NEW tab, Table(tab), NEW c, Commit(c), NEW s, NEW kind
  PROVE  LET A == Actives(tab, s, kind)
             B == Actives(Apply(tab, c), s, kind)
         IN  /\ B \subseteq A \cup (IF c.op \in {"put", "revive"} THEN {c.key} ELSE {})
             /\ c.op = "end" => B = A \ {c.key}
  <1> DEFINE new == Apply(tab, c)
             A == Actives(tab, s, kind)
             B == Actives(new, s, kind)
             T == DOMAIN tab
  <1>1. Applied(new, tab, c)
    BY ApplyIs
  <1> HIDE DEF new
  <1>2. \A key : key \in A <=> key \in T /\ key[1] = s /\ key[2] = kind /\ tab[key].status = "active"
    BY DEF Actives
  <1>3. \A key : key \in B <=> /\ key \in DOMAIN new /\ key[1] = s /\ key[2] = kind
                               /\ new[key].status = "active"
    BY DEF Actives
  <1> HIDE DEF A, B, T
  <1>4. /\ DOMAIN new = T \cup (IF c.op = "put" THEN {c.key} ELSE {})
        /\ \A key \in T : key # c.key => new[key] = tab[key]
        /\ c.key \in T /\ c.op = "end" => new[c.key].status # "active"
        /\ c.key \in T /\ c.op = "touch" => new[c.key].status = tab[c.key].status
    BY <1>1 DEF Applied, T
  <1>5. ASSUME NEW key \in B, ~(c.op \in {"put", "revive"} /\ key = c.key) PROVE key \in A
    <2>1. key \in T
      BY <1>3, <1>4, <1>5
    <2>2. CASE key # c.key
      <3>1. new[key] = tab[key]
        BY <1>4, <2>1, <2>2
      <3> QED
        BY <1>2, <1>3, <2>1, <3>1
    <2>3. CASE key = c.key
      <3>1. c.op = "end" \/ c.op = "touch"
        BY <1>5, <2>3 DEF Commit
      <3>2. new[key].status = "active"
        BY <1>3
      <3>3. tab[key].status = "active"
        BY <1>4, <2>1, <2>3, <3>1, <3>2
      <3> QED
        BY <1>2, <1>3, <2>1, <3>3
    <2> QED
      BY <2>2, <2>3
  <1>6. B \subseteq A \cup (IF c.op \in {"put", "revive"} THEN {c.key} ELSE {})
    BY <1>5
  <1>7. ASSUME c.op = "end" PROVE B = A \ {c.key}
    <2>1. c.key \notin B
      BY <1>3, <1>4, <1>7
    <2>2. ASSUME NEW key \in A, key # c.key PROVE key \in B
      <3>1. key \in T /\ key \in DOMAIN new /\ new[key] = tab[key]
        BY <1>2, <1>4, <2>2
      <3> QED
        BY <1>2, <1>3, <3>1
    <2> QED
      BY <1>5, <1>7, <2>1, <2>2
  <1> QED
    BY <1>6, <1>7 DEF A, B, new

\* The keys whose lines the commits may make active.
Grown(cs) == {cs[i].key : i \in {j \in 1..Len(cs) : cs[j].op \in {"put", "revive"}}}

\* No line becomes active but those the commits store or revive.
LEMMA ActivesGrow ==
  ASSUME NEW bs, NEW tab, Table(tab), Anchored(tab, bs), NEW cs, Listed(cs, bs), NEW s, NEW kind
  PROVE  Actives(After(tab, cs, Len(cs)), s, kind) \subseteq Actives(tab, s, kind) \cup Grown(cs)
  <1> DEFINE b == Len(cs)
             A(n) == Actives(After(tab, cs, n), s, kind)
             G == Grown(cs)
             good == {n \in 0..b : A(n) \subseteq A(0) \cup G}
  <1>1. b \in Nat /\ After(tab, cs, 0) = tab
    BY ListedLen, AfterSteps
  <1>2. 0 \in good
    BY <1>1
  <1>3. ASSUME NEW n \in 1..b, n - 1 \in good PROVE n \in good
    <2>1. n - 1 \in Nat /\ n - 1 \in 0..b /\ n \in 0..b /\ (n - 1) + 1 = n
      BY <1>1
    <2> DEFINE t == After(tab, cs, n - 1)
               c == cs[n]
    <2>2. After(tab, cs, (n - 1) + 1) = Apply(t, cs[(n - 1) + 1])
      BY <2>1, AfterSteps
    <2>3. Commit(c) /\ Table(t)
      BY <2>1, AfterAnchored DEF Listed, Rests
    <2>4. (IF c.op \in {"put", "revive"} THEN {c.key} ELSE {}) \subseteq G
      BY DEF Grown
    <2>5. A(n) = Actives(Apply(t, c), s, kind) /\ A(n - 1) = Actives(t, s, kind)
      BY <2>1, <2>2
    <2>6. A(n - 1) \subseteq A(0) \cup G
      BY <1>3
    <2> HIDE DEF A, G, t, c
    <2>7. A(n) \subseteq A(n - 1) \cup (IF c.op \in {"put", "revive"} THEN {c.key} ELSE {})
      BY <2>3, <2>5, ActivesApplied
    <2> QED
      BY <2>1, <2>4, <2>6, <2>7
  <1> HIDE DEF good
  <1>4. \A n \in 0..b : n \in good
    <2> HIDE DEF b
    <2> QED
      BY <1>1, <1>2, <1>3, CountingUp
  <1>5. b \in good
    BY <1>1, <1>4
  <1> QED
    BY <1>1, <1>5 DEF good

\* Where all commits end a line, what they name is left out.
LEMMA ActivesEnd ==
  ASSUME NEW bs, NEW tab, Table(tab), Anchored(tab, bs), NEW cs, Listed(cs, bs),
         \A i \in 1..Len(cs) : cs[i].op = "end", NEW s, NEW kind
  PROVE  Actives(After(tab, cs, Len(cs)), s, kind) = Actives(tab, s, kind) \ {cs[i].key : i \in 1..Len(cs)}
  <1> DEFINE b == Len(cs)
             A(n) == Actives(After(tab, cs, n), s, kind)
             K(n) == {cs[i].key : i \in 1..n}
             good == {n \in 0..b : A(n) = A(0) \ K(n)}
  <1>1. b \in Nat /\ After(tab, cs, 0) = tab
    BY ListedLen, AfterSteps
  <1>2. 0 \in good
    <2>1. K(0) = {}
      OBVIOUS
    <2> HIDE DEF K, A
    <2> QED
      BY <1>1, <2>1
  <1>3. ASSUME NEW n \in 1..b, n - 1 \in good PROVE n \in good
    <2>1. n - 1 \in Nat /\ n - 1 \in 0..b /\ n \in 0..b /\ (n - 1) + 1 = n
      BY <1>1
    <2> DEFINE t == After(tab, cs, n - 1)
               c == cs[n]
    <2>2. After(tab, cs, (n - 1) + 1) = Apply(t, cs[(n - 1) + 1])
      BY <2>1, AfterSteps
    <2>3. Commit(c) /\ Table(t) /\ c.op = "end"
      BY <2>1, AfterAnchored DEF Listed, Rests
    <2>4. K(n) = K(n - 1) \cup {c.key}
      <3>1. 1..n = (1..(n - 1)) \cup {n}
        BY <1>1
      <3> HIDE DEF c
      <3> QED
        BY <3>1 DEF c
    <2>5. A(n) = Actives(Apply(t, c), s, kind) /\ A(n - 1) = Actives(t, s, kind)
      BY <2>1, <2>2
    <2>6. A(n - 1) = A(0) \ K(n - 1)
      BY <1>3
    <2> HIDE DEF A, K, t, c
    <2>7. A(n) = A(n - 1) \ {c.key}
      BY <2>3, <2>5, ActivesApplied
    <2>8. A(n) = A(0) \ K(n)
      BY <2>4, <2>6, <2>7
    <2> QED
      BY <2>1, <2>8
  <1> HIDE DEF good
  <1>4. \A n \in 0..b : n \in good
    <2> HIDE DEF b
    <2> QED
      BY <1>1, <1>2, <1>3, CountingUp
  <1>5. b \in good
    BY <1>1, <1>4
  <1> QED
    BY <1>1, <1>5 DEF good

\* What two lists make active is made active by one of them.
LEMMA GrownBoth ==
  ASSUME NEW bs, NEW a, Listed(a, bs), NEW b, Listed(b, bs)
  PROVE  Grown(a \o b) \subseteq Grown(a) \cup Grown(b)
  <1> DEFINE la == Len(a)
             lb == Len(b)
             c  == a \o b
  <1>1. la \in Nat /\ lb \in Nat
    BY ListedLen
  <1>2. /\ Len(c) = la + lb
        /\ \A i \in 1..la : c[i] = a[i]
        /\ \A i \in 1..lb : c[la + i] = b[i]
    BY ListedBoth
  <1> HIDE DEF c
  <1>3. ASSUME NEW i \in 1..Len(c), c[i].op \in {"put", "revive"}
        PROVE  c[i].key \in Grown(a) \cup Grown(b)
    <2>1. CASE i <= la
      <3>1. i \in 1..la
        BY <1>1, <1>2, <2>1
      <3>2. c[i] = a[i]
        BY <1>2, <3>1
      <3> HIDE DEF la
      <3> QED
        BY <1>3, <3>1, <3>2 DEF Grown, la
    <2>2. CASE ~(i <= la)
      <3> DEFINE j == i - la
      <3>1. j \in 1..lb /\ la + j = i
        BY <1>1, <1>2, <2>2
      <3> HIDE DEF j, la, lb
      <3>2. c[i] = b[j]
        BY <1>2, <3>1
      <3> QED
        BY <1>3, <3>1, <3>2 DEF Grown, lb
    <2> QED
      BY <2>1, <2>2
  <1> QED
    BY <1>3 DEF Grown, c

\* The line that stood before ends.
LEMMA SupersedesEnds ==
  ASSUME NEW old, NEW at
  PROVE  LET cs == Supersedes(old, at)
         IN  /\ \A i \in 1..Len(cs) : cs[i].op = "end"
             /\ old # {} => \E i \in 1..Len(cs) : cs[i].key \in old
  <1> DEFINE x == CHOOSE x \in old : TRUE
             c == End(x, "replaced", at)
             cs == Supersedes(old, at)
  <1>1. c.op = "end" /\ c.key = x
    BY EndRests
  <1>2. cs = IF old = {} THEN <<>> ELSE <<c>>
    BY DEF Supersedes
  <1>3. old # {} => x \in old
    OBVIOUS
  <1> HIDE DEF c, x, cs
  <1>4. CASE old = {}
    BY <1>2, <1>4 DEF cs
  <1>5. CASE old # {}
    <2>1. Len(cs) = 1 /\ cs[1] = c
      BY <1>2, <1>5
    <2>2. 1 \in 1..Len(cs) /\ \A i \in 1..Len(cs) : i = 1
      BY <2>1
    <2> QED
      BY <1>1, <1>3, <2>1, <2>2 DEF cs
  <1> QED
    BY <1>4, <1>5

\* At most one.
One(S) == \A x, y \in S : x = y

\* The commits for the line found make no line active but that one, and leave at
\* most one of its kind.
LEMMA ChangesOne ==
  ASSUME NEW bs, NEW tab, NEW s, NEW at, NEW ln, ln # NoLine => OnBars(ln, bs),
         NEW cur, One(cur)
  PROVE  LET cs == Changes(tab, s, bs, at, ln, cur)
         IN  /\ Grown(cs) # {} => ln # NoLine
             /\ \A key \in Grown(cs) : key[1] = s /\ key[2] = ln.kind
             /\ \A t : Table(t) /\ Anchored(t, bs) =>
                  \A kind : Actives(t, s, kind) \subseteq cur =>
                            One(Actives(After(t, cs, Len(cs)), s, kind))
  <1> DEFINE key    == KeyOf(s, ln)
             touch  == [op |-> "touch", key |-> key, touches |-> ln.touches]
             revive == [op |-> "revive", key |-> key]
             put    == [op |-> "put", key |-> key, line |-> ln, at |-> at]
             ends   == Supersedes(cur, at)
             cs     == Changes(tab, s, bs, at, ln, cur)
  <1>1. \/ cs = <<>>
        \/ cs = <<touch>>
        \/ ln # NoLine /\ key \notin cur /\ cs = <<revive, touch>> \o ends
        \/ ln # NoLine /\ cs = <<put>> \o ends
    <2> HIDE DEF touch, revive, put, ends
    <2>1. \/ ln = NoLine
          \/ ln # NoLine /\ key \in cur
          \/ ln # NoLine /\ key \in DOMAIN tab \ cur
          \/ ln # NoLine /\ key \notin DOMAIN tab
      OBVIOUS
    <2> QED
      BY <2>1 DEF Changes, touch, revive, put, ends
  <1>2. key[1] = s /\ key[2] = ln.kind
    BY DEF KeyOf
  <1>3. /\ Rests(touch, bs) /\ Rests(revive, bs) /\ (ln # NoLine => Rests(put, bs))
        /\ touch.op = "touch" /\ revive.op = "revive" /\ put.op = "put"
        /\ touch.key = key /\ revive.key = key /\ put.key = key
    <2> HIDE DEF key
    <2> QED
      BY DEF Rests, Commit
  <1>4. Listed(ends, bs)
    BY SupersedesListed
  <1>5. \A i \in 1..Len(ends) : ends[i].op = "end"
    BY SupersedesEnds
  <1>6. cur # {} => \E i \in 1..Len(ends) : ends[i].key \in cur
    BY SupersedesEnds
  <1> HIDE DEF key, touch, revive, put, ends, cs
  <1>7. Grown(ends) = {}
    BY <1>5 DEF Grown
  <1>8. Grown(<<>>) = {} /\ Grown(<<touch>>) = {} /\ Grown(<<revive, touch>>) \subseteq {key}
        /\ Grown(<<put>>) \subseteq {key}
    <2>1. ASSUME NEW x, NEW d, \A i \in 1..Len(x) : x[i].op \in {"put", "revive"} => x[i].key = d
          PROVE  Grown(x) \subseteq {d}
      BY <2>1 DEF Grown
    <2>2. ASSUME NEW x, \A i \in 1..Len(x) : x[i].op \notin {"put", "revive"}
          PROVE  Grown(x) = {}
      BY <2>2 DEF Grown
    <2>3. \A i \in 1..Len(<<>>) : <<>>[i].op \notin {"put", "revive"}
      OBVIOUS
    <2>4. \A i \in 1..Len(<<touch>>) : <<touch>>[i].op \notin {"put", "revive"}
      BY <1>3
    <2>5. \A i \in 1..Len(<<put>>) : <<put>>[i].op \in {"put", "revive"} => <<put>>[i].key = key
      BY <1>3
    <2>6. \A i \in 1..Len(<<revive, touch>>) :
            <<revive, touch>>[i].op \in {"put", "revive"} => <<revive, touch>>[i].key = key
      BY <1>3
    <2> QED
      BY <2>1, <2>2, <2>3, <2>4, <2>5, <2>6
  <1>9. ASSUME NEW a, Listed(a, bs), Grown(a) \subseteq {key}, ln # NoLine, cs = a \o ends
        PROVE  /\ \A k \in Grown(cs) : k[1] = s /\ k[2] = ln.kind
               /\ \A t : Table(t) /\ Anchored(t, bs) =>
                    \A kind : Actives(t, s, kind) \subseteq cur =>
                              One(Actives(After(t, cs, Len(cs)), s, kind))
    <2>1. Grown(cs) \subseteq {key}
      BY <1>4, <1>7, <1>9, GrownBoth
    <2>2. ASSUME NEW t, Table(t), Anchored(t, bs), NEW kind, Actives(t, s, kind) \subseteq cur
          PROVE  One(Actives(After(t, cs, Len(cs)), s, kind))
      <3> DEFINE u == After(t, a, Len(a))
                 U == Actives(u, s, kind)
                 V == Actives(After(u, ends, Len(ends)), s, kind)
      <3>1. After(t, cs, Len(cs)) = After(u, ends, Len(ends))
        BY <1>4, <1>9, AfterBoth
      <3>2. Len(a) \in 0..Len(a)
        BY <1>9, ListedLen
      <3>3. Table(u) /\ Anchored(u, bs)
        BY <1>9, <2>2, <3>2, AfterAnchored
      <3>4. U \subseteq Actives(t, s, kind) \cup Grown(a)
        BY <1>9, <2>2, ActivesGrow
      <3>5. U \subseteq cur \cup {key}
        BY <1>9, <2>2, <3>4
      <3> HIDE DEF u
      <3>6. V = U \ {ends[i].key : i \in 1..Len(ends)}
        BY <1>4, <1>5, <3>3, ActivesEnd
      <3> HIDE DEF U, V
      <3>7. V \subseteq {key}
        BY <1>6, <3>5, <3>6 DEF One
      <3> QED
        BY <3>1, <3>7 DEF One, V
    <2> QED
      BY <1>2, <2>1, <2>2
  <1>10. ASSUME NEW a, Listed(a, bs), Grown(a) = {}, cs = a
         PROVE  /\ Grown(cs) = {}
                /\ \A t : Table(t) /\ Anchored(t, bs) =>
                     \A kind : Actives(t, s, kind) \subseteq cur =>
                               One(Actives(After(t, cs, Len(cs)), s, kind))
    <2>1. ASSUME NEW t, Table(t), Anchored(t, bs), NEW kind, Actives(t, s, kind) \subseteq cur
          PROVE  One(Actives(After(t, cs, Len(cs)), s, kind))
      <3>1. Actives(After(t, cs, Len(cs)), s, kind) \subseteq Actives(t, s, kind) \cup Grown(cs)
        BY <1>10, <2>1, ActivesGrow
      <3> QED
        BY <1>10, <2>1, <3>1 DEF One
    <2> QED
      BY <1>10, <2>1
  <1>11. Listed(<<>>, bs) /\ Listed(<<touch>>, bs) /\ Listed(<<revive, touch>>, bs)
         /\ (ln # NoLine => Listed(<<put>>, bs))
    BY <1>3, FewListed
  <1>12. CASE cs = <<>>
    BY <1>8, <1>10, <1>11, <1>12 DEF cs
  <1>13. CASE cs = <<touch>>
    BY <1>8, <1>10, <1>11, <1>13 DEF cs
  <1>14. CASE ln # NoLine /\ cs = <<revive, touch>> \o ends
    BY <1>8, <1>9, <1>11, <1>14 DEF cs
  <1>15. CASE ln # NoLine /\ cs = <<put>> \o ends
    BY <1>8, <1>9, <1>11, <1>15 DEF cs
  <1> QED
    BY <1>1, <1>12, <1>13, <1>14, <1>15

\* Where one line is active it is the current one.
LEMMA CurrentIsActive ==
  ASSUME NEW tab, Table(tab), NEW s, NEW kind, One(Actives(tab, s, kind))
  PROVE  Current(tab, Actives(tab, s, kind)) = Actives(tab, s, kind)
  <1> DEFINE A == Actives(tab, s, kind)
  <1>1. \A x \in A : tab[x].id \in Nat
    BY DEF Actives, Table
  <1> HIDE DEF A
  <1>2. \A x, y \in A : tab[x].id <= tab[y].id
    <2> SUFFICES ASSUME NEW x \in A, NEW y \in A PROVE tab[x].id <= tab[y].id
      OBVIOUS
    <2>1. x = y
      BY DEF One, A
    <2>2. tab[x].id \in Nat
      BY <1>1
    <2> QED
      BY <2>1, <2>2
  <1> QED
    BY <1>2 DEF Current, A

\* The lines found for one kind.
LEMMA KindOne ==
  ASSUME NEW bs \in Seq(BarShapes), NEW tab, Table(tab), NEW s \in DOMAIN Scales, NEW kind,
         One(Actives(tab, s, kind))
  PROVE  LET cs == KindCommits(tab, s, bs, kind)
         IN  /\ Listed(cs, bs)
             /\ \A key \in Grown(cs) : key[1] = s /\ key[2] = kind
             /\ \A t : /\ Table(t) /\ Anchored(t, bs)
                       /\ Actives(t, s, kind) \subseteq Actives(tab, s, kind)
                       => One(Actives(After(t, cs, Len(cs)), s, kind))
  <1> DEFINE ln  == Detect(bs, Scales[s], kind)
             cur == Actives(tab, s, kind)
             cs  == Changes(tab, s, bs, Len(bs), ln, cur)
  <1>1. Scales[s] \in Scale
    BY TrendAssumption
  <1>2. ln # NoLine => ln.kind = kind /\ OnBars(ln, bs)
    BY <1>1, DetectedOnBars
  <1>3. KindCommits(tab, s, bs, kind) = cs
    BY CurrentIsActive DEF KindCommits
  <1> HIDE DEF ln, cur
  <1>4. One(cur)
    BY DEF cur
  <1>5. Listed(cs, bs)
    BY <1>2, ChangesListed
  <1>6. /\ Grown(cs) # {} => ln # NoLine
        /\ \A key \in Grown(cs) : key[1] = s /\ key[2] = ln.kind
        /\ \A t : Table(t) /\ Anchored(t, bs) =>
             \A k : Actives(t, s, k) \subseteq cur => One(Actives(After(t, cs, Len(cs)), s, k))
    BY <1>2, <1>4, ChangesOne
  <1> HIDE DEF cs
  <1> QED
    BY <1>2, <1>3, <1>5, <1>6 DEF cur

\* What the commits of a scale leave active.
LEMMA LinesOne ==
  ASSUME NEW bs \in Seq(BarShapes), NEW tab, Table(tab), Anchored(tab, bs),
         NEW s \in DOMAIN Scales, \A kind \in Kinds : One(Actives(tab, s, kind)),
         NEW t, Table(t), Anchored(t, bs)
  PROVE  LET cs == LinesOf(tab, bs, s)
             u  == After(t, cs, Len(cs))
         IN  /\ \A z, kind : z # s => Actives(u, z, kind) \subseteq Actives(t, z, kind)
             /\ (\A kind \in Kinds : Actives(t, s, kind) \subseteq Actives(tab, s, kind))
                => \A kind \in Kinds : One(Actives(u, s, kind))
  <1> DEFINE ends == Breaks(tab, s, bs)
             left == After(tab, ends, Len(ends))
             R == KindCommits(left, s, bs, "resistance")
             P == KindCommits(left, s, bs, "support")
             keys == {ends[i].key : i \in 1..Len(ends)}
             t1 == After(t, ends, Len(ends))
             t2 == After(t1, R, Len(R))
             t3 == After(t2, P, Len(P))
             cs == LinesOf(tab, bs, s)
  <1>1. Listed(ends, bs) /\ \A i \in 1..Len(ends) : ends[i].op = "end"
    BY BreaksListed
  <1> HIDE DEF ends
  <1>2. Len(ends) \in 0..Len(ends)
    BY <1>1, ListedLen
  <1>3. Table(left) /\ Anchored(left, bs) /\ Table(t1) /\ Anchored(t1, bs)
    BY <1>1, <1>2, AfterAnchored
  <1>4. /\ \A z, kind : Actives(left, z, kind) = Actives(tab, z, kind) \ keys
        /\ \A z, kind : Actives(t1, z, kind) = Actives(t, z, kind) \ keys
    BY <1>1, ActivesEnd
  <1>5. cs = ends \o R \o P
    BY DEF LinesOf, LinesCommits, ends
  <1> HIDE DEF left, keys, t1
  <1>6. \A kind \in Kinds : One(Actives(left, s, kind))
    BY <1>4 DEF One
  <1>7. ASSUME NEW kind \in Kinds
        PROVE  LET c == KindCommits(left, s, bs, kind)
               IN  /\ Listed(c, bs)
                   /\ \A key \in Grown(c) : key[1] = s /\ key[2] = kind
                   /\ \A x : /\ Table(x) /\ Anchored(x, bs)
                             /\ Actives(x, s, kind) \subseteq Actives(left, s, kind)
                             => One(Actives(After(x, c, Len(c)), s, kind))
    BY <1>3, <1>6, KindOne
  <1>8. /\ Listed(R, bs) /\ \A key \in Grown(R) : key[1] = s /\ key[2] = "resistance"
        /\ Listed(P, bs) /\ \A key \in Grown(P) : key[1] = s /\ key[2] = "support"
    BY <1>7 DEF Kinds
  <1>9. /\ \A x : /\ Table(x) /\ Anchored(x, bs)
                  /\ Actives(x, s, "resistance") \subseteq Actives(left, s, "resistance")
                  => One(Actives(After(x, R, Len(R)), s, "resistance"))
        /\ \A x : /\ Table(x) /\ Anchored(x, bs)
                  /\ Actives(x, s, "support") \subseteq Actives(left, s, "support")
                  => One(Actives(After(x, P, Len(P)), s, "support"))
    BY <1>7 DEF Kinds
  <1> HIDE DEF R, P
  <1>10. Len(R) \in 0..Len(R) /\ Len(P) \in 0..Len(P)
    BY <1>8, ListedLen
  <1>11. Table(t2) /\ Anchored(t2, bs)
    BY <1>3, <1>8, <1>10, AfterAnchored
  <1>12. After(t, cs, Len(cs)) = t3
    <2>1. Listed(ends \o R, bs)
      BY <1>1, <1>8, ListedBoth
    <2>2. After(t, ends \o R, Len(ends \o R)) = t2
      BY <1>1, <1>8, AfterBoth DEF t1
    <2> DEFINE er == ends \o R
    <2> HIDE DEF er
    <2>3. Listed(er, bs) /\ Listed(P, bs)
      BY <1>8, <2>1 DEF er
    <2>4. After(t, er \o P, Len(er \o P)) = After(After(t, er, Len(er)), P, Len(P))
      BY <2>3, AfterBoth
    <2> QED
      BY <1>5, <2>2, <2>4 DEF er
  <1>13. \A z, kind : Actives(t2, z, kind) \subseteq Actives(t1, z, kind) \cup Grown(R)
    BY <1>3, <1>8, ActivesGrow
  <1>14. \A z, kind : Actives(t3, z, kind) \subseteq Actives(t2, z, kind) \cup Grown(P)
    BY <1>8, <1>11, ActivesGrow
  <1>15. \A x, z, kind : \A key \in Actives(x, z, kind) : key[1] = z /\ key[2] = kind
    BY DEF Actives
  <1> HIDE DEF t2, t3
  <1>16. ASSUME NEW z, NEW kind, z # s PROVE Actives(t3, z, kind) \subseteq Actives(t, z, kind)
    BY <1>4, <1>8, <1>13, <1>14, <1>15, <1>16
  <1>17. ASSUME \A kind \in Kinds : Actives(t, s, kind) \subseteq Actives(tab, s, kind)
         PROVE  \A kind \in Kinds : One(Actives(t3, s, kind))
    <2>1. \A kind \in Kinds : Actives(t1, s, kind) \subseteq Actives(left, s, kind)
      BY <1>4, <1>17
    <2>2. One(Actives(t2, s, "resistance"))
      BY <1>3, <1>9, <2>1 DEF Kinds, t2
    <2>3. Actives(t2, s, "support") \subseteq Actives(t1, s, "support")
      BY <1>8, <1>13, <1>15
    <2>4. Actives(t3, s, "resistance") \subseteq Actives(t2, s, "resistance")
      BY <1>8, <1>14, <1>15
    <2>5. Actives(t2, s, "support") \subseteq Actives(left, s, "support")
      BY <2>1, <2>3 DEF Kinds
    <2>6. One(Actives(t3, s, "support"))
      BY <1>9, <1>11, <2>5 DEF t3
    <2>7. One(Actives(t3, s, "resistance"))
      BY <2>2, <2>4 DEF One
    <2> QED
      BY <2>6, <2>7 DEF Kinds
  <1> QED
    BY <1>12, <1>16, <1>17

\* One active line of each kind on each scale.
OneEach(tab) == \A s \in DOMAIN Scales, kind \in Kinds : One(Actives(tab, s, kind))

\* A whole pass leaves at most one active line of a kind on each scale.
LEMMA PassOne ==
  ASSUME NEW bs \in Seq(BarShapes), NEW tab, Table(tab), Anchored(tab, bs), OneEach(tab)
  PROVE  OneEach(Pass(tab, bs))
  <1> DEFINE b == Len(Scales)
             G(n) == Gathered(tab, bs, n)
             T(n) == After(tab, G(n), Len(G(n)))
             Done(n) == /\ \A s \in 1..n, kind \in Kinds : One(Actives(T(n), s, kind))
                        /\ \A s \in (n + 1)..b, kind \in Kinds :
                             Actives(T(n), s, kind) \subseteq Actives(tab, s, kind)
             good == {n \in 0..b : Done(n)}
  <1>1. b \in Nat /\ DOMAIN Scales = 1..b
    BY TrendAssumption
  <1>2. ASSUME NEW n \in 0..b
        PROVE  Listed(G(n), bs) /\ Table(T(n)) /\ Anchored(T(n), bs)
    <2>1. Listed(G(n), bs)
      BY GatheredListed
    <2>2. Len(G(n)) \in 0..Len(G(n))
      BY <2>1, ListedLen
    <2> QED
      BY <2>1, <2>2, AfterAnchored
  <1>3. 0 \in good
    <2>1. T(0) = tab
      <3>1. G(0) = <<>> /\ Len(<<>>) = 0
        BY GatheredSteps
      <3> QED
        BY <3>1, AfterSteps
    <2> HIDE DEF T
    <2> QED
      BY <1>1, <2>1
  <1>4. ASSUME NEW n \in 1..b, n - 1 \in good PROVE n \in good
    <2> DEFINE m == n - 1
               cs == LinesOf(tab, bs, n)
    <2>1. m \in Nat /\ m \in 0..b /\ n \in 0..b /\ m + 1 = n /\ n \in DOMAIN Scales
      BY <1>1
    <2>2. Done(m)
      BY <1>4
    <2> HIDE DEF m
    <2>3. G(n) = G(m) \o cs
      BY <2>1, GatheredSteps
    <2>4. Listed(G(m), bs) /\ Table(T(m)) /\ Anchored(T(m), bs)
      BY <1>2, <2>1
    <2>5. Listed(cs, bs)
      BY <2>1, LinesListed
    <2>6. T(n) = After(T(m), cs, Len(cs))
      <3> DEFINE g == G(m)
      <3> HIDE DEF g, cs
      <3>1. After(tab, g \o cs, Len(g \o cs)) = After(After(tab, g, Len(g)), cs, Len(cs))
        BY <2>4, <2>5, AfterBoth DEF g
      <3> QED
        BY <2>3, <3>1 DEF g
    <2>7. \A kind \in Kinds : One(Actives(tab, n, kind))
      BY <2>1 DEF OneEach
    <2> DEFINE t == T(m)
    <2> HIDE DEF t
    <2>8. /\ \A z, kind : z # n => Actives(After(t, cs, Len(cs)), z, kind) \subseteq Actives(t, z, kind)
          /\ (\A kind \in Kinds : Actives(t, n, kind) \subseteq Actives(tab, n, kind))
             => \A kind \in Kinds : One(Actives(After(t, cs, Len(cs)), n, kind))
      BY <2>1, <2>4, <2>7, LinesOne DEF t
    <2> DEFINE u == T(n)
    <2> HIDE DEF u
    <2>9. u = After(t, cs, Len(cs))
      BY <2>6 DEF t, u
    <2>10. /\ \A s \in 1..m, kind \in Kinds : One(Actives(t, s, kind))
           /\ \A s \in (m + 1)..b, kind \in Kinds : Actives(t, s, kind) \subseteq Actives(tab, s, kind)
      BY <2>2 DEF t
    <2> HIDE DEF cs
    <2>11. ASSUME NEW s \in 1..n, NEW kind \in Kinds PROVE One(Actives(u, s, kind))
      <3>1. CASE s = n
        <4>1. n \in (m + 1)..b
          BY <1>1, <2>1
        <4> QED
          BY <2>8, <2>9, <2>10, <3>1, <4>1
      <3>2. CASE s # n
        <4>1. s \in 1..m
          BY <2>1, <3>2
        <4>2. One(Actives(t, s, kind)) /\ Actives(u, s, kind) \subseteq Actives(t, s, kind)
          BY <2>8, <2>9, <2>10, <3>2, <4>1
        <4> QED
          BY <4>2 DEF One
      <3> QED
        BY <3>1, <3>2
    <2>12. ASSUME NEW s \in (n + 1)..b, NEW kind \in Kinds
           PROVE  Actives(u, s, kind) \subseteq Actives(tab, s, kind)
      <3>1. s # n /\ s \in (m + 1)..b
        BY <1>1, <2>1
      <3>2. Actives(u, s, kind) \subseteq Actives(t, s, kind)
        BY <2>8, <2>9, <3>1
      <3>3. Actives(t, s, kind) \subseteq Actives(tab, s, kind)
        BY <2>10, <3>1
      <3> QED
        BY <3>2, <3>3
    <2>13. Done(n)
      BY <2>11, <2>12 DEF u
    <2> HIDE DEF Done
    <2> QED
      BY <2>1, <2>13
  <1> HIDE DEF good
  <1>5. \A n \in 0..b : n \in good
    <2> HIDE DEF b
    <2> QED
      BY <1>1, <1>3, <1>4, CountingUp
  <1>6. Done(b)
    <2>1. b \in 0..b
      BY <1>1
    <2> HIDE DEF Done
    <2> QED
      BY <1>5, <2>1 DEF good
  <1>7. Pass(tab, bs) = T(b)
    BY PassIs
  <1> HIDE DEF T
  <1> QED
    BY <1>1, <1>6, <1>7 DEF OneEach

-----------------------------------------------------------------------------
(* The worker. *)

\* Lines on bars stay on them when hours follow.
LEMMA AnchoredOn ==
  ASSUME NEW hs, NEW bs, Len(bs) \in Nat, Len(hs) \in Nat, Len(bs) <= Len(hs),
         \A j \in 1..Len(bs) : hs[j] = bs[j], NEW tab, Anchored(tab, bs)
  PROVE  Anchored(tab, hs)
  <1> SUFFICES ASSUME NEW key \in DOMAIN tab PROVE OnBars(tab[key], hs)
    BY DEF Anchored
  <1>1. OnBars(tab[key], bs)
    BY DEF Anchored
  <1>2. \A t \in 1..Len(bs) : t \in 1..Len(hs)
    OBVIOUS
  <1> QED
    BY <1>1, <1>2 DEF OnBars

\* An empty archive.
LEMMA NothingStored ==
  ASSUME NEW bs
  PROVE  Table(<<>>) /\ Anchored(<<>>, bs) /\ OneEach(<<>>)
  <1>1. DOMAIN <<>> = {} /\ <<>> = [key \in {} |-> <<>>[key]]
    OBVIOUS
  <1>2. Table(<<>>)
    BY <1>1, FS_EmptySet DEF Table
  <1>3. Anchored(<<>>, bs)
    BY <1>1 DEF Anchored
  <1>4. \A s, kind : Actives(<<>>, s, kind) = {}
    BY <1>1 DEF Actives
  <1> QED
    BY <1>2, <1>3, <1>4 DEF OneEach, One

\* What holds of an archive kept without a pass that stopped.
Kept(tab, bs) == Table(tab) /\ Anchored(tab, bs) /\ OneEach(tab)

\* An archive replayed from nothing is kept so.
LEMMA ReplayKept ==
  ASSUME NEW hs \in Seq(BarShapes)
  PROVE  Kept(Replay(hs, Len(hs)), hs)
  <1> DEFINE b == Len(hs)
             pre(n) == SubSeq(hs, 1, n)
             T(n) == Passes(<<>>, hs, n)
             good == {n \in 0..b : Kept(T(n), pre(n))}
  <1>1. b \in Nat
    OBVIOUS
  <1>2. ASSUME NEW n \in 0..b
        PROVE  pre(n) \in Seq(BarShapes) /\ Len(pre(n)) = n /\ \A j \in 1..n : pre(n)[j] = hs[j]
    <2>1. 1 \in Int /\ n \in Int /\ n - 1 + 1 = n /\ (1 <= n \/ n = 0)
      BY <1>1
    <2>2. \A i \in 1..n : hs[i] \in BarShapes /\ 1 + i - 1 = i
      BY <1>1
    <2>3. /\ SubSeq(hs, 1, n) \in Seq(BarShapes)
          /\ Len(SubSeq(hs, 1, n)) = IF 1 <= n THEN n - 1 + 1 ELSE 0
          /\ \A i \in 1..(n - 1 + 1) : SubSeq(hs, 1, n)[i] = hs[1 + i - 1]
      BY <2>1, <2>2, SubSeqProperties
    <2> HIDE DEF b
    <2> QED
      BY <2>1, <2>2, <2>3
  <1> HIDE DEF pre
  <1>3. 0 \in good
    BY <1>1, PassesSteps, NothingStored DEF Kept
  <1>4. ASSUME NEW n \in 1..b, n - 1 \in good PROVE n \in good
    <2> DEFINE m == n - 1
    <2>1. m \in Nat /\ m \in 0..b /\ n \in 0..b /\ m + 1 = n /\ m <= n
      BY <1>1
    <2>2. Kept(T(m), pre(m))
      BY <1>4
    <2> HIDE DEF m
    <2>3. T(n) = Pass(T(m), pre(n))
      <3>1. T(m + 1) = Pass(T(m), SubSeq(hs, 1, m + 1))
        BY <2>1, PassesSteps
      <3> QED
        BY <2>1, <3>1 DEF pre
    <2>4. Anchored(T(m), pre(n))
      <3>1. /\ Len(pre(m)) = m /\ Len(pre(n)) = n
            /\ \A j \in 1..m : pre(m)[j] = hs[j] /\ j \in 1..n
            /\ \A j \in 1..n : pre(n)[j] = hs[j]
        BY <1>2, <2>1
      <3>2. \A j \in 1..m : pre(n)[j] = pre(m)[j]
        BY <3>1
      <3>3. Anchored(T(m), pre(m)) /\ n \in Nat
        BY <2>1, <2>2 DEF Kept
      <3> HIDE DEF T
      <3> QED
        BY <2>1, <3>1, <3>2, <3>3, AnchoredOn
    <2>5. Table(T(m)) /\ OneEach(T(m)) /\ pre(n) \in Seq(BarShapes)
      BY <1>2, <2>1, <2>2 DEF Kept
    <2> DEFINE t == T(m)
               p == pre(n)
    <2> HIDE DEF t, p
    <2>6. Kept(Pass(t, p), p)
      BY <2>4, <2>5, PassAnchored, PassOne DEF Kept, t, p
    <2> QED
      BY <2>1, <2>3, <2>6 DEF t, p
  <1> HIDE DEF good
  <1>5. \A n \in 0..b : n \in good
    <2> HIDE DEF b
    <2> QED
      BY <1>1, <1>3, <1>4, CountingUp
  <1>6. Kept(T(b), pre(b))
    <2>1. b \in 0..b
      BY <1>1
    <2> QED
      BY <1>5, <2>1 DEF good
  <1>7. pre(b) = hs
    BY SubSeqFull DEF pre
  <1> QED
    BY <1>6, <1>7 DEF Replay

\* The archive has its form and rests on the bars, and no pass that went through
\* left two lines of a kind active.
TrendInv ==
  /\ bars \in Seq(BarShapes) /\ halts \in Nat
  /\ Table(lines) /\ Anchored(lines, bars)
  /\ halts = 0 => OneEach(lines)

\* The invariant holds at the start,
LEMMA TrendInitially == TrendInit => TrendInv
  <1> SUFFICES ASSUME TrendInit PROVE TrendInv
    OBVIOUS
  <1>1. lines = <<>> /\ bars = <<>> /\ halts = 0
    BY DEF TrendInit
  <1>2. Table(lines) /\ Anchored(lines, bars) /\ OneEach(lines)
    BY <1>1, NothingStored
  <1>3. bars \in Seq(BarShapes)
    BY <1>1
  <1> QED
    BY <1>1, <1>2, <1>3 DEF TrendInv

\* and after every step.
LEMMA TrendSteps == TrendInv /\ [TrendNext]_trendVars => TrendInv'
  <1> SUFFICES ASSUME TrendInv, [TrendNext]_trendVars PROVE TrendInv'
    OBVIOUS
  <1>1. /\ bars \in Seq(BarShapes) /\ halts \in Nat
        /\ Table(lines) /\ Anchored(lines, bars) /\ (halts = 0 => OneEach(lines))
    BY DEF TrendInv
  <1>2. CASE NewHour
    <2>1. PICK x \in BarShapes : bars' = Append(bars, x)
      BY <1>2 DEF NewHour
    <2>2. /\ bars' \in Seq(BarShapes) /\ Len(bars') = Len(bars) + 1 /\ Len(bars) \in Nat
          /\ \A j \in 1..Len(bars) : bars'[j] = bars[j]
      BY <1>1, <2>1
    <2>3. Anchored(lines, bars')
      <3> DEFINE hs == bars'
      <3> HIDE DEF hs
      <3>1. /\ Len(hs) \in Nat /\ Len(bars) \in Nat /\ Len(bars) <= Len(hs)
            /\ \A j \in 1..Len(bars) : hs[j] = bars[j]
        BY <2>2 DEF hs
      <3>2. Anchored(lines, hs)
        BY <1>1, <3>1, AnchoredOn
      <3> QED
        BY <3>2 DEF hs
    <2>4. lines' = lines /\ halts' = halts
      BY <1>2 DEF NewHour
    <2>5. Table(lines') /\ Anchored(lines', bars') /\ (halts' = 0 => OneEach(lines'))
      BY <1>1, <2>3, <2>4
    <2> QED
      BY <1>1, <2>2, <2>4, <2>5 DEF TrendInv
  <1>3. CASE Update
    <2>1. lines' = Pass(lines, bars) /\ bars' = bars /\ halts' = halts
      BY <1>3 DEF Update
    <2>2. /\ Table(Pass(lines, bars)) /\ Anchored(Pass(lines, bars), bars)
          /\ (halts = 0 => OneEach(Pass(lines, bars)))
      BY <1>1, PassAnchored, PassOne
    <2>3. Table(lines') /\ Anchored(lines', bars') /\ (halts' = 0 => OneEach(lines'))
      BY <2>1, <2>2
    <2> QED
      BY <1>1, <2>1, <2>3 DEF TrendInv
  <1>4. CASE UpdateStops
    <2>1. halts' = halts + 1 /\ bars' = bars /\ lines' \in Halfway(lines, Commits(lines, bars))
      BY <1>4 DEF UpdateStops
    <2>2. \A x \in Halfway(lines, Commits(lines, bars)) : Table(x) /\ Anchored(x, bars)
      BY <1>1, PassAnchored
    <2>3. Table(lines') /\ Anchored(lines', bars) /\ halts' \in Nat /\ halts' # 0
      BY <1>1, <2>1, <2>2
    <2>4. Anchored(lines', bars')
      BY <2>1, <2>3
    <2> QED
      BY <1>1, <2>1, <2>3, <2>4 DEF TrendInv
  <1>5. CASE Correct
    <2>1. PICK i \in DOMAIN bars, x \in BarShapes :
            bars' = [bars EXCEPT ![i] = x] /\ lines' = Replay(bars', Len(bars))
      BY <1>5 DEF Correct
    <2>2. bars' \in Seq(BarShapes) /\ Len(bars') = Len(bars)
      BY <1>1, <2>1, ExceptSeq
    <2>3. Kept(lines', bars')
      <3> DEFINE hs == bars'
      <3>1. Kept(Replay(hs, Len(hs)), hs)
        <4> HIDE DEF hs
        <4> QED
          BY <2>2, ReplayKept DEF hs
      <3> QED
        BY <2>1, <2>2, <3>1
    <2>4. halts' = halts
      BY <1>5 DEF Correct
    <2>5. Table(lines') /\ Anchored(lines', bars') /\ OneEach(lines')
      BY <2>3 DEF Kept
    <2> QED
      BY <1>1, <2>2, <2>4, <2>5 DEF TrendInv
  <1>6. CASE UNCHANGED trendVars
    BY <1>1, <1>6 DEF TrendInv, trendVars
  <1> QED
    BY <1>2, <1>3, <1>4, <1>5, <1>6 DEF TrendNext

\* Every line of the archive rests on the tips of two hours on record, whatever
\* hours come, wherever a pass stops and after stored hours were corrected
\* (pipeline.py update_trendlines, replay_trendlines).
THEOREM LinesRestOnBars == TrendSpec => []AnchoredOnRecord
  <1>1. TrendInv => AnchoredOnRecord
    BY DEF TrendInv, Anchored, OnBars, AnchoredOnRecord
  <1> QED
    BY <1>1, TrendInitially, TrendSteps, PTL DEF TrendSpec

\* Unless a pass stopped midway, each scale has at most one active line of a kind
\* (pipeline.py update_trendlines).
THEOREM OneLineActive == TrendSpec => []OneActive
  <1>1. TrendInv => OneActive
    <2> SUFFICES ASSUME TrendInv, halts = 0, NEW s \in DOMAIN Scales, NEW kind \in Kinds
                 PROVE  Cardinality(Actives(lines, s, kind)) <= 1
      BY DEF OneActive, OneOfEach
    <2> DEFINE A == Actives(lines, s, kind)
    <2>1. One(A)
      BY DEF TrendInv, OneEach
    <2> HIDE DEF A
    <2>2. A = {} \/ \E x : A = {x}
      BY <2>1 DEF One
    <2>3. Cardinality({}) = 0 /\ \A x : Cardinality({x}) = 1
      BY FS_EmptySet, FS_Singleton
    <2>4. Cardinality(A) = 0 \/ Cardinality(A) = 1
      BY <2>2, <2>3
    <2> QED
      BY <2>4 DEF A
  <1> QED
    BY <1>1, TrendInitially, TrendSteps, PTL DEF TrendSpec

-----------------------------------------------------------------------------
(* A pass that stopped midway. *)

\* The commits c come to those of a and then those of b, wherever they stop.
Parted(tab, c, a, b) ==
  /\ \A n \in 0..Len(a) : After(tab, c, n) = After(tab, a, n)
  /\ \A n \in 0..Len(b) : After(tab, c, Len(a) + n) = After(After(tab, a, Len(a)), b, n)

\* The commits of b follow those of a.
LEMMA AfterPart ==
  ASSUME NEW bs, NEW tab, NEW a, Listed(a, bs), NEW b, Listed(b, bs)
  PROVE  Parted(tab, a \o b, a, b)
  <1> DEFINE la == Len(a)
             lb == Len(b)
             c  == a \o b
             t  == After(tab, a, la)
  <1>1. la \in Nat /\ lb \in Nat
    BY ListedLen
  <1>2. /\ Len(c) = la + lb
        /\ \A i \in 1..la : c[i] = a[i]
        /\ \A i \in 1..lb : c[la + i] = b[i]
    BY ListedBoth
  <1> HIDE DEF la, lb, c, t
  <1>3. \A n \in 0..la : After(tab, c, n) = After(tab, a, n)
    <2> DEFINE good == {n \in 0..la : After(tab, c, n) = After(tab, a, n)}
    <2>1. 0 \in good
      BY <1>1, AfterSteps
    <2>2. ASSUME NEW n \in 1..la, n - 1 \in good PROVE n \in good
      <3>1. n - 1 \in Nat /\ n \in 0..la /\ (n - 1) + 1 = n
        BY <1>1
      <3>2. /\ After(tab, c, (n - 1) + 1) = Apply(After(tab, c, n - 1), c[(n - 1) + 1])
            /\ After(tab, a, (n - 1) + 1) = Apply(After(tab, a, n - 1), a[(n - 1) + 1])
        BY <3>1, AfterSteps
      <3>3. c[n] = a[n] /\ After(tab, c, n - 1) = After(tab, a, n - 1)
        BY <1>2, <2>2
      <3> QED
        BY <3>1, <3>2, <3>3
    <2> HIDE DEF good
    <2>3. \A n \in 0..la : n \in good
      BY <1>1, <2>1, <2>2, CountingUp
    <2> QED
      BY <2>3 DEF good
  <1>4. \A n \in 0..lb : After(tab, c, la + n) = After(t, b, n)
    <2> DEFINE good == {n \in 0..lb : After(tab, c, la + n) = After(t, b, n)}
    <2>1. 0 \in good
      <3>1. la \in 0..la /\ la + 0 = la /\ 0 \in 0..lb
        BY <1>1
      <3>2. After(t, b, 0) = t
        BY AfterSteps
      <3>3. After(tab, c, la) = t
        BY <1>3, <3>1 DEF t
      <3> QED
        BY <3>1, <3>2, <3>3
    <2>2. ASSUME NEW n \in 1..lb, n - 1 \in good PROVE n \in good
      <3> DEFINE m == la + (n - 1)
      <3>1. n - 1 \in Nat /\ n \in 0..lb /\ (n - 1) + 1 = n /\ m \in Nat /\ m + 1 = la + n
        BY <1>1
      <3>2. /\ After(tab, c, m + 1) = Apply(After(tab, c, m), c[m + 1])
            /\ After(t, b, (n - 1) + 1) = Apply(After(t, b, n - 1), b[(n - 1) + 1])
        BY <3>1, AfterSteps
      <3>3. c[la + n] = b[n] /\ After(tab, c, m) = After(t, b, n - 1)
        BY <1>2, <2>2
      <3> HIDE DEF m
      <3> QED
        BY <3>1, <3>2, <3>3
    <2> HIDE DEF good
    <2>3. \A n \in 0..lb : n \in good
      BY <1>1, <2>1, <2>2, CountingUp
    <2> QED
      BY <2>3 DEF good
  <1>5. Parted(tab, c, a, b)
    BY <1>3, <1>4 DEF Parted, la, lb, t
  <1> QED
    BY <1>5 DEF c

\* Two tables hold the same under a key.
Agree(a, b, key) ==
  /\ key \in DOMAIN a <=> key \in DOMAIN b
  /\ key \in DOMAIN a => a[key] = b[key]

\* What a commit makes of the row under its key.
Changed(r, c) ==
  CASE c.op = "end"    -> Ended(r, c.status, c.at)
    [] c.op = "revive" -> Revived(r)
    [] c.op = "touch"  -> [r EXCEPT !.touches = c.touches]

RowsOf(new, tab, c) ==
  /\ Table(new)
  /\ \A key : key # c.key => Agree(new, tab, key)
  /\ c.op # "put" =>
       /\ DOMAIN new = DOMAIN tab
       /\ c.key \in DOMAIN tab => new[c.key] = Changed(tab[c.key], c)
  /\ c.op = "put" =>
       /\ DOMAIN new = DOMAIN tab \cup {c.key}
       /\ new[c.key] = Row(c.line, c.at, Cardinality(DOMAIN tab) + 1)

\* One commit, row by row.
LEMMA ApplyRow ==
  ASSUME NEW tab, Table(tab), NEW c, Commit(c)
  PROVE  RowsOf(Apply(tab, c), tab, c)
  <1> DEFINE new == Apply(tab, c)
             T == DOMAIN tab
             old == tab[c.key]
  <1>1. Table(new)
    BY ApplyIs DEF Applied
  <1>2. ASSUME NEW r, new = [tab EXCEPT ![c.key] = r], c.op # "put", r = Changed(old, c)
        PROVE  RowsOf(new, tab, c)
    <2> HIDE DEF new, T, old
    <2>1. DOMAIN new = T /\ new = [key \in T |-> IF key = c.key THEN r ELSE tab[key]]
      BY <1>2, <1>1 DEF T, Table
    <2>2. \A key \in T : new[key] = IF key = c.key THEN r ELSE tab[key]
      BY <2>1
    <2>3. \A key : key # c.key => Agree(new, tab, key)
      BY <2>1, <2>2 DEF Agree, T
    <2>4. c.key \in T => new[c.key] = Changed(tab[c.key], c)
      BY <1>2, <2>2 DEF old
    <2> QED
      BY <1>1, <1>2, <2>1, <2>3, <2>4 DEF RowsOf, T
  <1>3. CASE c.op = "end"
    <2> DEFINE r == Ended(old, c.status, c.at)
    <2>1. new = [tab EXCEPT ![c.key] = r]
      BY <1>3 DEF Apply
    <2>2. r = Changed(old, c)
      BY <1>3 DEF Changed
    <2> HIDE DEF r, new, old
    <2> QED
      BY <1>2, <1>3, <2>1, <2>2 DEF new
  <1>4. CASE c.op = "revive"
    <2> DEFINE r == Revived(old)
    <2>1. new = [tab EXCEPT ![c.key] = r]
      BY <1>4 DEF Apply
    <2>2. r = Changed(old, c)
      BY <1>4 DEF Changed
    <2> HIDE DEF r, new, old
    <2> QED
      BY <1>2, <1>4, <2>1, <2>2 DEF new
  <1>5. CASE c.op = "touch"
    <2> DEFINE r == [old EXCEPT !.touches = c.touches]
    <2>1. new = [tab EXCEPT ![c.key] = r]
      BY <1>5 DEF Apply
    <2>2. r = Changed(old, c)
      BY <1>5 DEF Changed
    <2> HIDE DEF r, new, old
    <2> QED
      BY <1>2, <1>5, <2>1, <2>2 DEF new
  <1>6. CASE c.op = "put"
    <2> DEFINE r == Row(c.line, c.at, Cardinality(DOMAIN tab) + 1)
    <2>1. new = Stored(tab, c.key, r)
      BY <1>6 DEF Apply
    <2> HIDE DEF r
    <2>2. DOMAIN new = T \cup {c.key} /\ new = [x \in T \cup {c.key} |-> IF x = c.key THEN r ELSE tab[x]]
      BY <2>1 DEF Stored
    <2> HIDE DEF new, T
    <2>3. \A key \in T \cup {c.key} : new[key] = IF key = c.key THEN r ELSE tab[key]
      BY <2>2
    <2>4. \A key : key # c.key => Agree(new, tab, key)
      BY <2>2, <2>3 DEF Agree, T
    <2> QED
      BY <1>1, <1>6, <2>2, <2>3, <2>4 DEF RowsOf, T, r, new
  <1> QED
    BY <1>3, <1>4, <1>5, <1>6 DEF Commit

\* One commit more, row by row.
LEMMA NextRows ==
  ASSUME NEW bs, NEW cs, Listed(cs, bs), NEW tab, NEW n \in 1..Len(cs),
         Table(After(tab, cs, n - 1))
  PROVE  RowsOf(After(tab, cs, n), After(tab, cs, n - 1), cs[n]) /\ Commit(cs[n])
  <1>1. n - 1 \in Nat /\ (n - 1) + 1 = n
    BY ListedLen
  <1>2. After(tab, cs, (n - 1) + 1) = Apply(After(tab, cs, n - 1), cs[(n - 1) + 1])
    BY <1>1, AfterSteps
  <1>3. Commit(cs[n])
    BY DEF Listed, Rests
  <1> QED
    BY <1>1, <1>2, <1>3, ApplyRow

\* Commits on other rows leave a row as it is.
LEMMA Untouched ==
  ASSUME NEW bs, NEW cs, Listed(cs, bs), NEW tab, Table(tab)
  PROVE  \A n \in 0..Len(cs) :
           /\ Table(After(tab, cs, n))
           /\ \A key : (\A i \in 1..Len(cs) : cs[i].key # key) => Agree(After(tab, cs, n), tab, key)
  <1> DEFINE b == Len(cs)
             off(key) == \A i \in 1..b : cs[i].key # key
             good == {n \in 0..b : /\ Table(After(tab, cs, n))
                                   /\ \A key : off(key) => Agree(After(tab, cs, n), tab, key)}
  <1>1. b \in Nat
    BY ListedLen
  <1>2. 0 \in good
    <2>1. After(tab, cs, 0) = tab
      BY AfterSteps
    <2> QED
      BY <1>1, <2>1 DEF Agree
  <1>3. ASSUME NEW n \in 1..b, n - 1 \in good PROVE n \in good
    <2> DEFINE old == After(tab, cs, n - 1)
               new == After(tab, cs, n)
    <2>1. Table(old) /\ \A key : off(key) => Agree(old, tab, key)
      BY <1>3
    <2>2. RowsOf(new, old, cs[n])
      BY <2>1, NextRows
    <2>3. n \in 0..b
      BY <1>1
    <2> HIDE DEF old, new
    <2>4. ASSUME NEW key, off(key) PROVE Agree(new, tab, key)
      <3>1. Agree(new, old, key)
        BY <2>2, <2>4 DEF RowsOf
      <3> QED
        BY <2>1, <2>4, <3>1 DEF Agree
    <2> QED
      BY <2>2, <2>3, <2>4 DEF RowsOf, new
  <1> HIDE DEF good, off
  <1>4. \A n \in 0..b : n \in good
    <2> HIDE DEF b
    <2> QED
      BY <1>1, <1>2, <1>3, CountingUp
  <1> QED
    BY <1>4 DEF good, off

Puts(cs) == \E i \in 1..Len(cs) : cs[i].op = "put"

\* The same commits on tables that agree under a key leave tables that agree.
LEMMA AfterAlike ==
  ASSUME NEW bs, NEW cs, Listed(cs, bs), NEW a, Table(a), NEW b, Table(b),
         Puts(cs) => DOMAIN a = DOMAIN b
  PROVE  \A n \in 0..Len(cs) :
           /\ \A key : Agree(a, b, key) => Agree(After(a, cs, n), After(b, cs, n), key)
           /\ DOMAIN a = DOMAIN b => DOMAIN After(a, cs, n) = DOMAIN After(b, cs, n)
           /\ ~Puts(cs) => DOMAIN After(a, cs, n) = DOMAIN a
  <1> DEFINE m == Len(cs)
             A(n) == After(a, cs, n)
             B(n) == After(b, cs, n)
             P(n) == /\ \A key : Agree(a, b, key) => Agree(A(n), B(n), key)
                     /\ DOMAIN a = DOMAIN b => DOMAIN A(n) = DOMAIN B(n)
                     /\ ~Puts(cs) => DOMAIN A(n) = DOMAIN a
             good == {n \in 0..m : P(n)}
  <1>1. m \in Nat
    BY ListedLen
  <1>2. 0 \in good
    <2>1. A(0) = a /\ B(0) = b
      BY AfterSteps
    <2> HIDE DEF A, B
    <2> QED
      BY <1>1, <2>1
  <1>3. ASSUME NEW n \in 1..m, n - 1 \in good PROVE n \in good
    <2> DEFINE a0 == A(n - 1)
               a1 == A(n)
               b0 == B(n - 1)
               b1 == B(n)
               c  == cs[n]
    <2>1. n \in 0..m /\ n - 1 \in 0..m
      BY <1>1
    <2>2. Table(a0) /\ Table(b0)
      BY <2>1, Untouched
    <2>3. RowsOf(a1, a0, c) /\ RowsOf(b1, b0, c)
      BY <2>2, NextRows
    <2>4. P(n - 1)
      BY <1>3
    <2>5. c.op = "put" => Puts(cs)
      BY DEF Puts
    <2>6. /\ \A key : Agree(a, b, key) => Agree(a0, b0, key)
          /\ DOMAIN a = DOMAIN b => DOMAIN a0 = DOMAIN b0
          /\ ~Puts(cs) => DOMAIN a0 = DOMAIN a
      BY <2>4
    <2> HIDE DEF a0, a1, b0, b1, c
    <2>7. ASSUME NEW key, Agree(a, b, key) PROVE Agree(a1, b1, key)
      <3>1. Agree(a0, b0, key)
        BY <2>6, <2>7
      <3>2. CASE key # c.key
        <4>1. Agree(a1, a0, key) /\ Agree(b1, b0, key)
          BY <2>3, <3>2 DEF RowsOf
        <4> QED
          BY <3>1, <4>1 DEF Agree
      <3>3. CASE key = c.key /\ c.op = "put"
        <4>1. DOMAIN a0 = DOMAIN b0
          BY <2>5, <2>6, <3>3
        <4> QED
          BY <2>3, <3>3, <4>1 DEF RowsOf, Agree
      <3>4. CASE key = c.key /\ c.op # "put"
        BY <2>3, <3>1, <3>4 DEF RowsOf, Agree
      <3> QED
        BY <3>2, <3>3, <3>4
    <2>8. DOMAIN a = DOMAIN b => DOMAIN a1 = DOMAIN b1
      BY <2>3, <2>6 DEF RowsOf
    <2>9. ~Puts(cs) => DOMAIN a1 = DOMAIN a
      BY <2>3, <2>5, <2>6 DEF RowsOf
    <2> QED
      BY <2>1, <2>7, <2>8, <2>9 DEF a1, b1
  <1> HIDE DEF good, P
  <1>4. \A n \in 0..m : n \in good
    <2> HIDE DEF m
    <2> QED
      BY <1>1, <1>2, <1>3, CountingUp
  <1> QED
    BY <1>4 DEF good, P

\* As many numbers as keys, where no two keys have the same.
LEMMA NumbersCount ==
  ASSUME NEW S, IsFiniteSet(S), NEW id, \A x, y \in S : id[x] = id[y] => x = y
  PROVE  LET N == {id[x] : x \in S} IN IsFiniteSet(N) /\ Cardinality(N) = Cardinality(S)
  <1> DEFINE N == {id[x] : x \in S}
             g == [x \in S |-> id[x]]
  <1>1. g \in [S -> N] /\ \A x \in S : g[x] = id[x]
    OBVIOUS
  <1>2. \A e \in N : \E x \in S : id[x] = e
    OBVIOUS
  <1> HIDE DEF N, g
  <1>3. g \in Surjection(S, N)
    BY <1>1, <1>2 DEF Surjection
  <1>4. g \in Injection(S, N)
    BY <1>1, Zenon DEF Injection, IsInjective
  <1> QED
    BY <1>3, <1>4, FS_Surjection DEF N

\* Every key has a place from the highest number down, and every place one key.
LEMMA NumbersPlace ==
  ASSUME NEW S, IsFiniteSet(S), NEW id, \A x \in S : id[x] \in Nat,
         \A x, y \in S : id[x] = id[y] => x = y,
         NEW place, place = [x \in S |-> Cardinality({y \in S : id[y] >= id[x]})]
  PROVE  place \in Surjection(S, 1..Cardinality(S)) /\ place \in Injection(S, 1..Cardinality(S))
  <1> DEFINE N == {id[x] : x \in S}
             n == Cardinality(S)
             f == [d \in N |-> Cardinality({e \in N : e >= d})]
  <1>1. IsFiniteSet(N) /\ Cardinality(N) = n /\ N \in SUBSET Nat
    BY NumbersCount
  <1>2. ASSUME NEW x \in S PROVE Cardinality({y \in S : id[y] >= id[x]}) = f[id[x]]
    <2> DEFINE U == {y \in S : id[y] >= id[x]}
               M == {id[y] : y \in U}
    <2>1. IsFiniteSet(U) /\ \A y, z \in U : id[y] = id[z] => y = z
      BY FS_Subset
    <2>2. M = {e \in N : e >= id[x]}
      OBVIOUS
    <2>3. id[x] \in N
      OBVIOUS
    <2> HIDE DEF U
    <2>4. Cardinality(M) = Cardinality(U)
      BY <2>1, NumbersCount
    <2> HIDE DEF M, N
    <2>5. f[id[x]] = Cardinality({e \in N : e >= id[x]})
      BY <2>3
    <2> QED
      BY <2>2, <2>4, <2>5 DEF U
  <1> HIDE DEF N
  <1>3. f \in Surjection(N, 1..n) /\ f \in Injection(N, 1..n)
    BY <1>1, NewestPlaces, Zenon
  <1> HIDE DEF f
  <1>4. f \in [N -> 1..n] /\ (\A a, b \in N : f[a] = f[b] => a = b) /\ (\A i \in 1..n : \E d \in N : f[d] = i)
    BY <1>3, Zenon DEF Surjection, Injection, IsInjective
  <1>5. \A x \in S : id[x] \in N /\ place[x] = f[id[x]]
    BY <1>2 DEF N
  <1>6. \A d \in N : \E x \in S : id[x] = d
    BY DEF N
  <1> HIDE DEF n
  <1>7. place \in [S -> 1..n]
    BY <1>4, <1>5
  <1>8. \A i \in 1..n : \E x \in S : place[x] = i
    BY <1>4, <1>5, <1>6
  <1>9. \A x, y \in S : place[x] = place[y] => x = y
    <2> SUFFICES ASSUME NEW x \in S, NEW y \in S, place[x] = place[y] PROVE x = y
      OBVIOUS
    <2>1. id[x] = id[y]
      BY <1>4, <1>5
    <2> QED
      BY <2>1
  <1> QED
    BY <1>7, <1>8, <1>9, Zenon DEF Surjection, Injection, IsInjective, n

\* No two lines have the same number, and the next to come is higher than all.
Numbered(tab) ==
  /\ \A key \in DOMAIN tab :
       /\ tab[key].id \in 1..Cardinality(DOMAIN tab)
       /\ tab[key].status \in {"active", "broken", "replaced"}
  /\ \A x, y \in DOMAIN tab : tab[x].id = tab[y].id => x = y

\* Where a line is broken depends on its anchors.
BreakAt(r, s, bs) == BrokenAt(r, bs, DOMAIN bs, Scales[s].tol, Scales[s].breakBars)

\* Two rows of the same line are broken at the same hour.
LEMMA BrokenAlike ==
  ASSUME NEW r, NEW q, r.t1 = q.t1, r.p1 = q.p1, r.t2 = q.t2, r.p2 = q.p2, r.kind = q.kind,
         NEW s, NEW bs
  PROVE  BreakAt(r, s, bs) = BreakAt(q, s, bs)
  <1> DEFINE tol == Scales[s].tol
             R(i) == Beyond(r, bs[i].close, i, tol)
             Q(i) == Beyond(q, bs[i].close, i, tol)
  <1>1. \A i : R(i) = Q(i)
    BY DEF Beyond, LineAt
  <1> DEFINE A == {i \in DOMAIN bs : i > r.t2 /\ R(i)}
             B == {i \in DOMAIN bs : i > q.t2 /\ Q(i)}
  <1> HIDE DEF R, Q
  <1>2. A = B
    BY <1>1
  <1> DEFINE need == Scales[s].breakBars
             First(S) == IF S = {} THEN Never ELSE Min(S)
             Starts(out) == {i \in out : i..(i + need - 1) \subseteq out}
  <1>3. BreakAt(r, s, bs) = First(Starts(A)) /\ BreakAt(q, s, bs) = First(Starts(B))
    BY DEF BreakAt, BrokenAt, R, Q
  <1> HIDE DEF A, B, First, Starts
  <1> QED
    BY <1>2, <1>3

\* A row after the breaks are written.
Cleared(r, s, bs) ==
  IF r.status = "active" /\ BreakAt(r, s, bs) # Never
  THEN Ended(r, "broken", BreakAt(r, s, bs)) ELSE r

\* Ending the broken lines once more changes nothing.
LEMMA ClearedTwice ==
  ASSUME NEW r, Shape(r), NEW s, NEW bs
  PROVE  /\ Shape(Cleared(r, s, bs)) /\ SameLine(Cleared(r, s, bs), r)
         /\ Cleared(Cleared(r, s, bs), s, bs) = Cleared(r, s, bs)
         /\ Cleared(r, s, bs).status = "active" =>
              Cleared(r, s, bs) = r /\ BreakAt(r, s, bs) = Never
         /\ Cleared(r, s, bs).status \in {r.status, "broken"}
  <1> DEFINE at == BreakAt(r, s, bs)
             e  == Ended(r, "broken", at)
             c  == Cleared(r, s, bs)
  <1>1. Shape(e) /\ SameLine(e, r) /\ e.status # "active"
    BY EndedIs
  <1>2. r.status = "active" => e.status = "broken"
    <2> DEFINE v == "broken"
    <2>1. r.status = "active" => e = [r EXCEPT !.status = v, !.ended = at]
      BY DEF Ended
    <2> HIDE DEF v, at, e
    <2>2. r.status = "active" => e.status = v
      BY <2>1, StatusChanged, Zenon
    <2> QED
      BY <2>2 DEF v
  <1>3. c = IF r.status = "active" /\ at # Never THEN e ELSE r
    BY DEF Cleared
  <1>4. SameLine(r, r)
    BY DEF SameLine
  <1> HIDE DEF at, e, c
  <1>5. Shape(c) /\ SameLine(c, r)
    BY <1>1, <1>3, <1>4
  <1>6. c.status = "active" => c = r /\ at = Never
    BY <1>1, <1>3
  <1>7. c.status \in {r.status, "broken"}
    BY <1>2, <1>3
  <1>8. Cleared(c, s, bs) = c
    <2>1. CASE c.status = "active"
      <3>1. BreakAt(c, s, bs) = Never
        BY <1>6, <2>1 DEF at
      <3> QED
        BY <3>1 DEF Cleared
    <2>2. CASE c.status # "active"
      BY <2>2 DEF Cleared
    <2> QED
      BY <2>1, <2>2
  <1> QED
    BY <1>5, <1>6, <1>7, <1>8 DEF c, at

\* The lines of a scale that are broken, in the order their ends are written.
BrokenOf(tab, s, bs) ==
  {key \in UNION {Actives(tab, s, kind) : kind \in Kinds} : BreakAt(tab[key], s, bs) # Never}

BreakOf(tab, s, bs, i) ==
  CHOOSE key \in BrokenOf(tab, s, bs) :
    Cardinality({x \in BrokenOf(tab, s, bs) : tab[x].id >= tab[key].id}) = i

\* The ends written are those of the broken lines, each once.
LEMMA BreaksAre ==
  ASSUME NEW bs, NEW tab, Table(tab), Numbered(tab), NEW s
  PROVE  LET cs == Breaks(tab, s, bs)
             B  == BrokenOf(tab, s, bs)
             at(key) == BreakAt(tab[key], s, bs)
         IN  /\ \A i \in 1..Len(cs) :
                  cs[i] = End(BreakOf(tab, s, bs, i), "broken", at(BreakOf(tab, s, bs, i)))
             /\ \A i \in 1..Len(cs) : BreakOf(tab, s, bs, i) \in B
             /\ \A i, j \in 1..Len(cs) : BreakOf(tab, s, bs, i) = BreakOf(tab, s, bs, j) => i = j
             /\ \A key \in B : \E i \in 1..Len(cs) : BreakOf(tab, s, bs, i) = key
  <1> DEFINE B == BrokenOf(tab, s, bs)
             n == Cardinality(B)
             at(key) == BreakAt(tab[key], s, bs)
             Nth(i) == BreakOf(tab, s, bs, i)
             E(i) == End(Nth(i), "broken", at(Nth(i)))
             cs == [i \in 1..n |-> E(i)]
             S == {cs[i] : i \in 1..n}
             id == [key \in B |-> tab[key].id]
             place == [x \in B |-> Cardinality({y \in B : id[y] >= id[x]})]
             Up(x) == Cardinality({y \in B : tab[y].id >= tab[x].id})
  <1>1. Breaks(tab, s, bs) = cs
    BY DEF Breaks, BreakAt, BrokenOf, BreakOf
  <1>2. B \in SUBSET (DOMAIN tab) /\ IsFiniteSet(DOMAIN tab)
    BY DEF BrokenOf, Actives, Table
  <1>3. IsFiniteSet(B) /\ n \in Nat
    <2> HIDE DEF B
    <2> QED
      BY <1>2, FS_Subset, FS_CardinalityType
  <1>4. Len(cs) = n /\ \A i \in 1..n : cs[i] = E(i)
    <2>1. cs \in [1..n -> S] /\ cs = [i \in 1..n |-> cs[i]]
      <3> HIDE DEF n, E
      <3> QED
        OBVIOUS
    <2>2. \A i \in 1..n : cs[i] = E(i)
      <3> HIDE DEF n, E
      <3> QED
        OBVIOUS
    <2> HIDE DEF n, cs, S, E
    <2>3. cs \in Seq(S) /\ Len(cs) = n
      BY <1>3, <2>1, SeqDef, LenProperties
    <2> QED
      BY <2>2, <2>3
  <1> HIDE DEF B
  <1>5. \A x \in B : id[x] = tab[x].id /\ id[x] \in Nat
    BY <1>2 DEF Table
  <1>6. \A x, y \in B : id[x] = id[y] => x = y
    BY <1>2, <1>5 DEF Numbered
  <1> HIDE DEF id
  <1>7. place \in Surjection(B, 1..n) /\ place \in Injection(B, 1..n)
    <2> DEFINE p == place
    <2>1. p = [x \in B |-> Cardinality({y \in B : id[y] >= id[x]})]
      OBVIOUS
    <2> HIDE DEF p
    <2>2. p \in Surjection(B, 1..Cardinality(B)) /\ p \in Injection(B, 1..Cardinality(B))
      BY <1>3, <1>5, <1>6, <2>1, NumbersPlace
    <2> QED
      BY <2>2 DEF p
  <1>8. \A x \in B : place[x] = Up(x)
    <2> SUFFICES ASSUME NEW x \in B PROVE place[x] = Up(x)
      OBVIOUS
    <2>1. {y \in B : id[y] >= id[x]} = {y \in B : tab[y].id >= tab[x].id}
      BY <1>5
    <2>2. place[x] = Cardinality({y \in B : id[y] >= id[x]})
      OBVIOUS
    <2> HIDE DEF place
    <2> QED
      BY <2>1, <2>2
  <1> HIDE DEF place
  <1>9. /\ \A x \in B : place[x] \in 1..n
        /\ \A x, y \in B : place[x] = place[y] => x = y
        /\ \A i \in 1..n : \E x \in B : place[x] = i
    <2>1. place \in [B -> 1..n] /\ (\A x, y \in B : place[x] = place[y] => x = y)
          /\ \A i \in 1..n : \E x \in B : place[x] = i
      BY <1>7, Zenon DEF Surjection, Injection, IsInjective
    <2> QED
      BY <2>1
  <1>10. ASSUME NEW i \in 1..n PROVE Nth(i) \in B /\ Up(Nth(i)) = i
    <2>1. Nth(i) = CHOOSE key \in B : Up(key) = i
      BY DEF BreakOf, B
    <2> HIDE DEF Nth, Up, n
    <2>2. \E key \in B : Up(key) = i
      BY <1>8, <1>9
    <2> QED
      BY <2>1, <2>2
  <1>11. \A key \in B : \E i \in 1..n : Nth(i) = key
    <2> SUFFICES ASSUME NEW key \in B PROVE \E i \in 1..n : Nth(i) = key
      OBVIOUS
    <2> DEFINE i == place[key]
    <2>1. i \in 1..n
      BY <1>9
    <2>2. Nth(i) \in B /\ place[Nth(i)] = i
      BY <1>8, <1>10, <2>1
    <2> HIDE DEF Nth
    <2> QED
      BY <1>9, <2>1, <2>2
  <1>12. \A i, j \in 1..n : Nth(i) = Nth(j) => i = j
    <2> HIDE DEF Nth
    <2> SUFFICES ASSUME NEW i \in 1..n, NEW j \in 1..n, Nth(i) = Nth(j) PROVE i = j
      OBVIOUS
    <2>1. Up(Nth(i)) = i /\ Up(Nth(j)) = j
      BY <1>10
    <2> HIDE DEF Up
    <2> QED
      BY <2>1
  <1>13. /\ \A i \in 1..n : cs[i] = End(Nth(i), "broken", at(Nth(i)))
         /\ \A i \in 1..n : Nth(i) \in B
    BY <1>4, <1>10
  <1> HIDE DEF cs, n, at, Nth
  <1> QED
    BY <1>1, <1>4, <1>11, <1>12, <1>13 DEF at, Nth, B

OfScale(key, s) == key[1] = s /\ key[2] \in Kinds

\* What ending the broken lines of a scale comes to.
Clearing(v, s, bs, cs) ==
  /\ \A n \in 0..Len(cs) : /\ DOMAIN After(v, cs, n) = DOMAIN v
                           /\ \A x \in DOMAIN v : After(v, cs, n)[x] \in {v[x], Cleared(v[x], s, bs)}
  /\ \A x \in DOMAIN v : OfScale(x, s) => After(v, cs, Len(cs))[x] = Cleared(v[x], s, bs)

\* The ends of the broken lines, written to a table whose lines of the scale are
\* those they were looked for in.
LEMMA BreaksClear ==
  ASSUME NEW bs, NEW tab, Table(tab), Numbered(tab), NEW s,
         NEW v, Table(v), \A key : OfScale(key, s) => Agree(v, tab, key)
  PROVE  /\ Listed(Breaks(tab, s, bs), bs) /\ ~Puts(Breaks(tab, s, bs))
         /\ Clearing(v, s, bs, Breaks(tab, s, bs))
  <1> DEFINE cs == Breaks(tab, s, bs)
             b == Len(cs)
             B == BrokenOf(tab, s, bs)
             Nth(i) == BreakOf(tab, s, bs, i)
             at(key) == BreakAt(tab[key], s, bs)
             M(n) == After(v, cs, n)
             Cl(key) == Cleared(v[key], s, bs)
             Done(key, n) == \E i \in 1..n : Nth(i) = key
             good == {n \in 0..b : \A key \in DOMAIN v :
                        M(n)[key] = IF Done(key, n) THEN Cl(key) ELSE v[key]}
  <1>1. Listed(cs, bs) /\ \A i \in 1..b : cs[i].op = "end"
    BY BreaksListed
  <1>2. /\ \A i \in 1..b : cs[i] = End(Nth(i), "broken", at(Nth(i)))
        /\ \A i \in 1..b : Nth(i) \in B
        /\ \A i, j \in 1..b : Nth(i) = Nth(j) => i = j
        /\ \A key \in B : \E i \in 1..b : Nth(i) = key
    BY BreaksAre
  <1> HIDE DEF cs
  <1>3. b \in Nat /\ ~Puts(cs)
    BY <1>1, ListedLen DEF Puts
  <1>4. \A n \in 0..b : Table(M(n)) /\ DOMAIN M(n) = DOMAIN v
    BY <1>1, <1>3, Untouched, AfterAlike
  <1>5. \A key \in B : /\ OfScale(key, s) /\ key \in DOMAIN v /\ v[key] = tab[key]
                       /\ v[key].status = "active" /\ at(key) # Never
    <2> SUFFICES ASSUME NEW key \in B
                 PROVE  /\ OfScale(key, s) /\ key \in DOMAIN v /\ v[key] = tab[key]
                        /\ v[key].status = "active" /\ at(key) # Never
      OBVIOUS
    <2>1. OfScale(key, s) /\ key \in DOMAIN tab /\ tab[key].status = "active" /\ at(key) # Never
      BY DEF BrokenOf, Actives, OfScale
    <2>2. Agree(v, tab, key)
      BY <2>1
    <2> QED
      BY <2>1, <2>2 DEF Agree
  <1>6. \A key \in DOMAIN v : OfScale(key, s) /\ key \notin B => Cl(key) = v[key]
    <2> SUFFICES ASSUME NEW key \in DOMAIN v, OfScale(key, s), key \notin B PROVE Cl(key) = v[key]
      OBVIOUS
    <2>1. key \in DOMAIN tab /\ v[key] = tab[key]
      BY DEF Agree
    <2>2. ~(tab[key].status = "active" /\ BreakAt(tab[key], s, bs) # Never)
      BY <2>1 DEF BrokenOf, Actives, OfScale
    <2> QED
      BY <2>1, <2>2 DEF Cleared
  <1>7. \A key \in B : Cl(key) = Ended(v[key], "broken", at(key))
    BY <1>5 DEF Cleared
  <1> HIDE DEF B, Nth, at, Cl
  <1>8. 0 \in good
    <2>1. M(0) = v /\ \A key : ~Done(key, 0)
      BY AfterSteps
    <2> HIDE DEF M, Done
    <2> QED
      BY <1>3, <2>1
  <1>9. ASSUME NEW n \in 1..b, n - 1 \in good PROVE n \in good
    <2> DEFINE old == M(n - 1)
               new == M(n)
               c   == cs[n]
               k   == Nth(n)
    <2>1. n \in 0..b /\ n - 1 \in 0..b
      BY <1>3
    <2>2. RowsOf(new, old, c)
      BY <1>1, <1>4, <2>1, NextRows
    <2>3. c = End(k, "broken", at(k)) /\ k \in B
      BY <1>2
    <2>4. c.key = k /\ c.op = "end" /\ c.status = "broken" /\ c.at = at(k)
      BY <2>3 DEF End
    <2>5. ~Done(k, n - 1) /\ Done(k, n)
      BY <1>2, <1>3
    <2>6. \A key : key # k => Done(key, n) = Done(key, n - 1)
      <3> SUFFICES ASSUME NEW key, key # k PROVE Done(key, n) <=> Done(key, n - 1)
        OBVIOUS
      <3>1. 1..n = 1..(n - 1) \cup {n}
        BY <1>3
      <3> QED
        BY <3>1
    <2>7. \A key \in DOMAIN v : old[key] = IF Done(key, n - 1) THEN Cl(key) ELSE v[key]
      BY <1>9
    <2>8. DOMAIN old = DOMAIN v
      BY <1>4, <2>1
    <2> HIDE DEF old, new, c, Done
    <2>9. ASSUME NEW key \in DOMAIN v PROVE new[key] = IF Done(key, n) THEN Cl(key) ELSE v[key]
      <3>1. CASE key = k
        <4>1. new[k] = Changed(old[k], c)
          BY <2>2, <2>4, <2>8, <3>1 DEF RowsOf
        <4>2. new[k] = Ended(old[k], "broken", at(k))
          BY <2>4, <4>1 DEF Changed
        <4>3. old[k] = v[k]
          BY <2>5, <2>7, <3>1
        <4> HIDE DEF k
        <4> QED
          BY <1>7, <2>3, <2>5, <3>1, <4>2, <4>3
      <3>2. CASE key # k
        <4>1. new[key] = old[key]
          BY <2>2, <2>4, <2>8, <3>2 DEF RowsOf, Agree
        <4> QED
          BY <2>6, <2>7, <3>2, <4>1
      <3> QED
        BY <3>1, <3>2
    <2> QED
      BY <2>1, <2>9 DEF new
  <1>10. \A n \in 0..b : n \in good
    <2> HIDE DEF b, good
    <2> QED
      BY <1>3, <1>8, <1>9, CountingUp
  <1>11. ASSUME NEW n \in 0..b, NEW key \in DOMAIN v
         PROVE  M(n)[key] = IF Done(key, n) THEN Cl(key) ELSE v[key]
    BY <1>10
  <1>12. ASSUME NEW n \in 0..b
         PROVE  /\ \A key : ~OfScale(key, s) => Agree(M(n), v, key)
                /\ \A key \in DOMAIN v : M(n)[key] \in {v[key], Cl(key)}
                /\ n = b => \A key \in DOMAIN v : OfScale(key, s) => M(n)[key] = Cl(key)
    <2>1. \A key : Done(key, n) => key \in B
      BY <1>2, <1>3
    <2>2. \A key \in B : Done(key, b)
      BY <1>2
    <2>3. DOMAIN M(n) = DOMAIN v
      BY <1>4
    <2> DEFINE m == M(n)
               D(key) == Done(key, n)
    <2>4. \A key \in DOMAIN v : m[key] = IF D(key) THEN Cl(key) ELSE v[key]
      BY <1>11
    <2>5. n = b => \A key \in B : D(key)
      BY <2>2
    <2> HIDE DEF m, D, M, Done
    <2>6. ASSUME NEW key, ~OfScale(key, s) PROVE Agree(m, v, key)
      <3>1. ~D(key)
        BY <1>5, <2>1, <2>6 DEF D
      <3> QED
        BY <2>3, <2>4, <3>1 DEF Agree, m
    <2>7. ASSUME n = b, NEW key \in DOMAIN v, OfScale(key, s) PROVE m[key] = Cl(key)
      BY <1>6, <2>4, <2>5, <2>7
    <2> QED
      BY <2>4, <2>6, <2>7 DEF m
  <1>13. \A key \in DOMAIN v : OfScale(key, s) => M(b)[key] = Cl(key)
    <2>1. b \in 0..b
      BY <1>3
    <2> HIDE DEF M, b
    <2> QED
      BY <1>12, <2>1
  <1>14. Clearing(v, s, bs, cs)
    BY <1>4, <1>12, <1>13 DEF Clearing, Cl
  <1> QED
    BY <1>1, <1>3, <1>14 DEF cs

InSlot(key, s, kind) == key[1] = s /\ key[2] = kind

TouchOf(s, ln)   == [op |-> "touch", key |-> KeyOf(s, ln), touches |-> ln.touches]
ReviveOf(s, ln)  == [op |-> "revive", key |-> KeyOf(s, ln)]
PutOf(s, ln, at) == [op |-> "put", key |-> KeyOf(s, ln), line |-> ln, at |-> at]

Touched(r, x) == [r EXCEPT !.touches = x]

\* The row of a line found again.
Returned(r, ln) == Touched(Revived(r), ln.touches)

\* What became of the line found, when cur are the current ones.
NoChange(tab, s, bs, ln, cur) ==
  \/ ln = NoLine
  \/ KeyOf(s, ln) \in DOMAIN tab \ cur /\ tab[KeyOf(s, ln)].status = "broken"
  \/ KeyOf(s, ln) \notin DOMAIN tab \cup cur /\ ~FitToStore(ln, bs, Scales[s])

Stands(tab, s, ln, cur) == ln # NoLine /\ KeyOf(s, ln) \in cur

ComesBack(tab, s, ln, cur) ==
  ln # NoLine /\ KeyOf(s, ln) \in DOMAIN tab \ cur /\ tab[KeyOf(s, ln)].status # "broken"

IsNew(tab, s, bs, ln, cur) ==
  ln # NoLine /\ KeyOf(s, ln) \notin DOMAIN tab \cup cur /\ FitToStore(ln, bs, Scales[s])

\* The commits in each case, with and without a line to end.
ChangesList(cs, tab, s, bs, ln, at, cur, a) ==
  /\ NoChange(tab, s, bs, ln, cur) => cs = <<>>
  /\ Stands(tab, s, ln, cur) =>
       cs = IF tab[KeyOf(s, ln)].touches # ln.touches THEN <<TouchOf(s, ln)>> ELSE <<>>
  /\ ComesBack(tab, s, ln, cur) =>
       cs = IF cur = {} THEN <<ReviveOf(s, ln), TouchOf(s, ln)>>
            ELSE <<ReviveOf(s, ln), TouchOf(s, ln), End(a, "replaced", at)>>
  /\ IsNew(tab, s, bs, ln, cur) =>
       cs = IF cur = {} THEN <<PutOf(s, ln, at)>>
            ELSE <<PutOf(s, ln, at), End(a, "replaced", at)>>

\* The four things that may become of the line found, and their commits.
LEMMA ChangesAre ==
  ASSUME NEW bs, NEW tab, NEW s, NEW ln, NEW at, NEW cur, cur \subseteq DOMAIN tab,
         NEW a, cur = {} \/ cur = {a},
         NEW cs, cs = Changes(tab, s, bs, at, ln, cur)
  PROVE  /\ \/ NoChange(tab, s, bs, ln, cur) \/ Stands(tab, s, ln, cur)
            \/ ComesBack(tab, s, ln, cur) \/ IsNew(tab, s, bs, ln, cur)
         /\ ChangesList(cs, tab, s, bs, ln, at, cur, a)
  <1> DEFINE key == KeyOf(s, ln)
             touch == TouchOf(s, ln)
             revive == ReviveOf(s, ln)
             put == PutOf(s, ln, at)
             end == End(a, "replaced", at)
             ends == Supersedes(cur, at)
             new == tab[key].touches # ln.touches
             broken == tab[key].status = "broken"
             fit == FitToStore(ln, bs, Scales[s])
  <1>1. ends = IF cur = {} THEN <<>> ELSE <<end>>
    <2>1. CASE cur = {}
      BY <2>1 DEF Supersedes
    <2>2. CASE cur = {a}
      <3>1. (CHOOSE x \in cur : TRUE) = a
        BY <2>2
      <3> QED
        BY <2>2, <3>1 DEF Supersedes
    <2> QED
      BY <2>1, <2>2
  <1>2. /\ <<revive, touch>> \o <<>> = <<revive, touch>>
        /\ <<revive, touch>> \o <<end>> = <<revive, touch, end>>
        /\ <<put>> \o <<>> = <<put>> /\ <<put>> \o <<end>> = <<put, end>>
    <2>1. \A c, d : <<c, d>> \o <<>> = <<c, d>>
      OBVIOUS
    <2>2. ASSUME NEW c, NEW d, NEW e PROVE <<c, d>> \o <<e>> = <<c, d, e>>
      <3> DEFINE p == <<c, d>>
                 S == {c, d, e}
                 q == p \o <<e>>
      <3>1. p \in Seq(S) /\ Len(p) = 2 /\ p[1] = c /\ p[2] = d
        OBVIOUS
      <3>2. <<e>> \in Seq(S) /\ Len(<<e>>) = 1 /\ <<e>>[1] = e
        OBVIOUS
      <3> HIDE DEF p, S
      <3>3. /\ q \in Seq(S) /\ Len(q) = Len(p) + Len(<<e>>)
            /\ \A i \in 1..Len(p) : q[i] = p[i]
            /\ \A i \in 1..Len(<<e>>) : q[Len(p) + i] = <<e>>[i]
        BY <3>1, <3>2, ConcatProperties
      <3> HIDE DEF q
      <3>4. Len(q) = 3 /\ q[1] = c /\ q[2] = d /\ q[2 + 1] = e
        BY <3>1, <3>2, <3>3
      <3> DEFINE r == <<c, d, e>>
      <3>5. r \in Seq(S) /\ Len(r) = 3 /\ r[1] = c /\ r[2] = d /\ r[3] = e
        BY DEF S
      <3> HIDE DEF r
      <3>6. \A i \in 1..Len(q) : q[i] = r[i]
        BY <3>4, <3>5
      <3>7. q = r
        BY <3>3, <3>4, <3>5, <3>6, SeqEqual
      <3> QED
        BY <3>7 DEF q, p, r
    <2>3. \A c : <<c>> \o <<>> = <<c>>
      OBVIOUS
    <2>4. ASSUME NEW c, NEW d PROVE <<c>> \o <<d>> = <<c, d>>
      <3> DEFINE p == <<c>>
                 S == {c, d}
                 q == p \o <<d>>
      <3>1. p \in Seq(S) /\ Len(p) = 1 /\ p[1] = c
        OBVIOUS
      <3>2. <<d>> \in Seq(S) /\ Len(<<d>>) = 1 /\ <<d>>[1] = d
        OBVIOUS
      <3> HIDE DEF p, S
      <3>3. /\ q \in Seq(S) /\ Len(q) = Len(p) + Len(<<d>>)
            /\ \A i \in 1..Len(p) : q[i] = p[i]
            /\ \A i \in 1..Len(<<d>>) : q[Len(p) + i] = <<d>>[i]
        BY <3>1, <3>2, ConcatProperties
      <3> HIDE DEF q
      <3>4. Len(q) = 2 /\ q[1] = c /\ q[1 + 1] = d
        BY <3>1, <3>2, <3>3
      <3> DEFINE r == <<c, d>>
      <3>5. r \in Seq(S) /\ Len(r) = 2 /\ r[1] = c /\ r[2] = d
        BY DEF S
      <3> HIDE DEF r
      <3>6. \A i \in 1..Len(q) : q[i] = r[i]
        BY <3>4, <3>5
      <3>7. q = r
        BY <3>3, <3>4, <3>5, <3>6, SeqEqual
      <3> QED
        BY <3>7 DEF q, p, r
    <2> QED
      BY <2>1, <2>2, <2>3, <2>4
  <1>3. /\ ln = NoLine => cs = <<>>
        /\ ln # NoLine /\ key \in cur => cs = IF new THEN <<touch>> ELSE <<>>
        /\ ln # NoLine /\ key \in DOMAIN tab \ cur =>
             cs = IF broken THEN <<>> ELSE <<revive, touch>> \o ends
        /\ ln # NoLine /\ key \notin DOMAIN tab => cs = IF ~fit THEN <<>> ELSE <<put>> \o ends
    <2> HIDE DEF ends, fit
    <2>0. cs = CASE ln = NoLine -> <<>>
            [] ln # NoLine /\ key \in cur -> IF new THEN <<touch>> ELSE <<>>
            [] ln # NoLine /\ key \in DOMAIN tab \ cur ->
                 IF broken THEN <<>> ELSE <<revive, touch>> \o ends
            [] ln # NoLine /\ key \notin DOMAIN tab ->
                 IF ~fit THEN <<>> ELSE <<put>> \o ends
      BY DEF Changes, TouchOf, ReviveOf, PutOf, ends, fit
    <2> HIDE DEF touch, revive, put, end, new, broken, key
    <2>1. ln = NoLine => cs = <<>>
      BY <2>0
    <2>2. ln # NoLine /\ key \in cur => cs = IF new THEN <<touch>> ELSE <<>>
      BY <2>0
    <2>3. ln # NoLine /\ key \in DOMAIN tab \ cur =>
             cs = IF broken THEN <<>> ELSE <<revive, touch>> \o ends
      BY <2>0
    <2>4. ln # NoLine /\ key \notin DOMAIN tab => cs = IF ~fit THEN <<>> ELSE <<put>> \o ends
      BY <2>0
    <2> QED
      BY <2>1, <2>2, <2>3, <2>4
  <1>4. /\ NoChange(tab, s, bs, ln, cur) <=>
             \/ ln = NoLine
             \/ (key \in DOMAIN tab \ cur /\ broken)
             \/ (key \notin DOMAIN tab \cup cur /\ ~fit)
        /\ Stands(tab, s, ln, cur) <=> (ln # NoLine /\ key \in cur)
        /\ ComesBack(tab, s, ln, cur) <=> (ln # NoLine /\ key \in DOMAIN tab \ cur /\ ~broken)
        /\ IsNew(tab, s, bs, ln, cur) <=> (ln # NoLine /\ key \notin DOMAIN tab \cup cur /\ fit)
    BY DEF NoChange, Stands, ComesBack, IsNew
  <1> HIDE DEF touch, revive, put, end, new, broken, key, ends, fit
  <1>5. /\ NoChange(tab, s, bs, ln, cur) => cs = <<>>
        /\ Stands(tab, s, ln, cur) => cs = IF new THEN <<touch>> ELSE <<>>
        /\ ComesBack(tab, s, ln, cur) =>
             cs = IF cur = {} THEN <<revive, touch>> ELSE <<revive, touch, end>>
        /\ IsNew(tab, s, bs, ln, cur) => cs = IF cur = {} THEN <<put>> ELSE <<put, end>>
    BY <1>1, <1>2, <1>3, <1>4
  <1>6. ChangesList(cs, tab, s, bs, ln, at, cur, a)
    BY <1>5, Zenon DEF ChangesList, touch, revive, put, end, new, key
  <1>7. \/ NoChange(tab, s, bs, ln, cur) \/ Stands(tab, s, ln, cur)
        \/ ComesBack(tab, s, ln, cur) \/ IsNew(tab, s, bs, ln, cur)
    BY <1>4
  <1> QED
    BY <1>6, <1>7

\* Up to three commits, one after the other.
LEMMA FewAfter ==
  ASSUME NEW tab
  PROVE  /\ Len(<<>>) = 0 /\ After(tab, <<>>, 0) = tab
         /\ \A c : Len(<<c>>) = 1 /\ After(tab, <<c>>, 1) = Apply(tab, c)
         /\ \A c, d : /\ Len(<<c, d>>) = 2 /\ After(tab, <<c, d>>, 1) = Apply(tab, c)
                      /\ After(tab, <<c, d>>, 2) = Apply(Apply(tab, c), d)
         /\ \A c, d, e : /\ Len(<<c, d, e>>) = 3 /\ After(tab, <<c, d, e>>, 1) = Apply(tab, c)
                         /\ After(tab, <<c, d, e>>, 2) = Apply(Apply(tab, c), d)
                         /\ After(tab, <<c, d, e>>, 3) = Apply(Apply(Apply(tab, c), d), e)
  <1>1. ASSUME NEW cs PROVE After(tab, cs, 1) = Apply(tab, cs[1])
    <2>1. After(tab, cs, 0 + 1) = Apply(After(tab, cs, 0), cs[0 + 1])
      BY AfterSteps
    <2> QED
      BY <2>1, AfterSteps
  <1>2. ASSUME NEW cs PROVE After(tab, cs, 2) = Apply(Apply(tab, cs[1]), cs[2])
    <2>1. \A n \in Nat : After(tab, cs, n + 1) = Apply(After(tab, cs, n), cs[n + 1])
      BY AfterSteps
    <2>2. After(tab, cs, 1 + 1) = Apply(After(tab, cs, 1), cs[1 + 1])
      BY <2>1
    <2> QED
      BY <1>1, <2>2
  <1>3. ASSUME NEW cs PROVE After(tab, cs, 3) = Apply(Apply(Apply(tab, cs[1]), cs[2]), cs[3])
    <2>1. After(tab, cs, 2 + 1) = Apply(After(tab, cs, 2), cs[2 + 1])
      BY AfterSteps
    <2> QED
      BY <1>2, <2>1
  <1>4. After(tab, <<>>, 0) = tab
    BY AfterSteps
  <1>5. ASSUME NEW c PROVE After(tab, <<c>>, 1) = Apply(tab, c)
    <2>1. <<c>>[1] = c
      OBVIOUS
    <2> QED
      BY <1>1, <2>1
  <1>6. ASSUME NEW c, NEW d
        PROVE  /\ After(tab, <<c, d>>, 1) = Apply(tab, c)
               /\ After(tab, <<c, d>>, 2) = Apply(Apply(tab, c), d)
    <2>1. <<c, d>>[1] = c /\ <<c, d>>[2] = d
      OBVIOUS
    <2> QED
      BY <1>1, <1>2, <2>1
  <1>7. ASSUME NEW c, NEW d, NEW e
        PROVE  /\ After(tab, <<c, d, e>>, 1) = Apply(tab, c)
               /\ After(tab, <<c, d, e>>, 2) = Apply(Apply(tab, c), d)
               /\ After(tab, <<c, d, e>>, 3) = Apply(Apply(Apply(tab, c), d), e)
    <2>1. <<c, d, e>>[1] = c /\ <<c, d, e>>[2] = d /\ <<c, d, e>>[3] = e
      OBVIOUS
    <2> QED
      BY <1>1, <1>2, <1>3, <2>1
  <1>8. Len(<<>>) = 0 /\ (\A c : Len(<<c>>) = 1) /\ (\A c, d : Len(<<c, d>>) = 2)
        /\ \A c, d, e : Len(<<c, d, e>>) = 3
    OBVIOUS
  <1> QED
    BY <1>4, <1>5, <1>6, <1>7, <1>8

\* Of the active lines the current one is the oldest, and there is one.
LEMMA CurrentFew ==
  ASSUME NEW tab, Table(tab), Numbered(tab), NEW A, A \in SUBSET (DOMAIN tab)
  PROVE  /\ Current(tab, A) \subseteq A
         /\ A = {} => Current(tab, A) = {}
         /\ \A x : A = {x} => Current(tab, A) = {x}
         /\ \A x, y : A = {x, y} /\ tab[x].id < tab[y].id => Current(tab, A) = {x}
         /\ Current(tab, A) = {} \/ \E x \in A : Current(tab, A) = {x}
  <1>1. \A x \in A : tab[x].id \in Nat
    BY DEF Table
  <1>2. \A x, y \in A : tab[x].id = tab[y].id => x = y
    BY DEF Numbered
  <1>3. \A x : x \in Current(tab, A) <=> x \in A /\ \A y \in A : tab[x].id <= tab[y].id
    BY DEF Current
  <1>4. \A x, y \in Current(tab, A) : x = y
    <2> SUFFICES ASSUME NEW x \in Current(tab, A), NEW y \in Current(tab, A) PROVE x = y
      OBVIOUS
    <2>1. x \in A /\ y \in A /\ tab[x].id <= tab[y].id /\ tab[y].id <= tab[x].id
      BY <1>3
    <2>2. tab[x].id \in Nat /\ tab[y].id \in Nat
      BY <1>1, <2>1
    <2>3. tab[x].id = tab[y].id
      BY <2>1, <2>2
    <2> QED
      BY <1>2, <2>1, <2>3
  <1> DEFINE C == Current(tab, A)
  <1> HIDE DEF C
  <1>5. \A x : A = {x} => C = {x}
    <2> SUFFICES ASSUME NEW x, A = {x} PROVE C = {x}
      OBVIOUS
    <2>1. tab[x].id \in Nat
      BY <1>1
    <2>2. x \in C
      BY <1>3, <2>1 DEF C
    <2> QED
      BY <1>3, <2>2 DEF C
  <1>6. \A x, y : A = {x, y} /\ tab[x].id < tab[y].id => C = {x}
    <2> SUFFICES ASSUME NEW x, NEW y, A = {x, y}, tab[x].id < tab[y].id PROVE C = {x}
      OBVIOUS
    <2>1. x \in A /\ y \in A
      OBVIOUS
    <2>2. tab[x].id \in Nat /\ tab[y].id \in Nat
      BY <1>1, <2>1
    <2>3. tab[x].id <= tab[x].id /\ tab[x].id <= tab[y].id
      BY <2>2
    <2>4. x \in C
      BY <1>3, <2>1, <2>3 DEF C
    <2> QED
      BY <1>4, <2>4 DEF C
  <1> QED
    BY <1>3, <1>4, <1>5, <1>6 DEF C

\* Touching a line twice is touching it once, and one that is touched so already
\* stays as it is.
LEMMA TouchedIs ==
  ASSUME NEW r, Shape(r), NEW x
  PROVE  /\ Shape(Touched(r, x)) /\ SameLine(Touched(r, x), r)
         /\ Touched(r, x).status = r.status /\ Touched(r, x).touches = x
         /\ \A y : Touched(Touched(r, y), x) = Touched(r, x)
         /\ r.touches = x => Touched(r, x) = r
  <1> DEFINE F == {"t1", "p1", "t2", "p2", "kind", "touches", "found", "id", "status", "ended"}
  <1>1. ASSUME NEW o, Shape(o), NEW w
        PROVE  Touched(o, w) = [f \in F |-> IF f = "touches" THEN w ELSE o[f]]
    <2>1. DOMAIN o = F /\ o = [f \in F |-> o[f]]
      BY <1>1 DEF Shape
    <2> QED
      BY <2>1, Zenon DEF Touched
  <1>2. ASSUME NEW o, Shape(o), NEW w
        PROVE  Shape(Touched(o, w)) /\ SameLine(Touched(o, w), o) /\ Touched(o, w).status = o.status
    <2> DEFINE q == Touched(o, w)
    <2>1. q = [o EXCEPT !.touches = w]
      BY DEF Touched
    <2> HIDE DEF q
    <2>2. Shape(q) /\ SameLine(q, o) /\ q.status = o.status
      BY <1>2, <2>1, TouchesChanged
    <2> QED
      BY <2>2 DEF q
  <1>3. Touched(r, x).touches = x
    <2> DEFINE q == Touched(r, x)
    <2>1. q = [f \in F |-> IF f = "touches" THEN x ELSE r[f]]
      BY <1>1
    <2> HIDE DEF q
    <2>2. q.touches = x
      BY <2>1
    <2> QED
      BY <2>2 DEF q
  <1>4. ASSUME NEW y PROVE Touched(Touched(r, y), x) = Touched(r, x)
    <2> DEFINE q == Touched(r, y)
    <2>1. q = [f \in F |-> IF f = "touches" THEN y ELSE r[f]]
      BY <1>1
    <2>2. Shape(q)
      BY <1>2
    <2> HIDE DEF q
    <2>3. Touched(q, x) = [f \in F |-> IF f = "touches" THEN x ELSE q[f]]
      BY <1>1, <2>2
    <2>4. [f \in F |-> IF f = "touches" THEN x ELSE q[f]] = [f \in F |-> IF f = "touches" THEN x ELSE r[f]]
      BY <2>1
    <2>5. Touched(r, x) = [f \in F |-> IF f = "touches" THEN x ELSE r[f]]
      BY <1>1
    <2>6. Touched(q, x) = Touched(r, x)
      BY <2>3, <2>4, <2>5, Zenon
    <2> QED
      BY <2>6 DEF q
  <1>5. ASSUME r.touches = x PROVE Touched(r, x) = r
    <2>1. DOMAIN r = F /\ r = [f \in F |-> r[f]]
      BY DEF Shape
    <2>2. [f \in F |-> r[f]] = [f \in F |-> IF f = "touches" THEN x ELSE r[f]]
      BY <1>5
    <2> QED
      BY <1>1, <2>1, <2>2, Zenon
  <1> QED
    BY <1>2, <1>3, <1>4, <1>5

\* Only a replaced line is revived, and it is active then.
LEMMA RevivedIs ==
  ASSUME NEW r, Shape(r)
  PROVE  /\ Shape(Revived(r)) /\ SameLine(Revived(r), r)
         /\ r.status # "replaced" => Revived(r) = r
         /\ r.status = "replaced" => Revived(r).status = "active"
  <1>1. CASE r.status = "replaced"
    <2> DEFINE F == {"t1", "p1", "t2", "p2", "kind", "touches", "found", "id", "status", "ended"}
               q == Revived(r)
    <2>1. q = [r EXCEPT !.status = "active", !.ended = Never]
      BY <1>1 DEF Revived
    <2>2. DOMAIN r = F /\ r = [x \in F |-> r[x]]
      BY DEF Shape
    <2> HIDE DEF q
    <2>3. q = [x \in F |-> IF x = "ended" THEN Never ELSE IF x = "status" THEN "active" ELSE r[x]]
      BY <2>1, <2>2, Zenon
    <2>4. /\ DOMAIN q = F /\ q.status = "active" /\ q = [x \in F |-> q[x]]
          /\ \A x \in F \ {"status", "ended"} : q[x] = r[x]
      BY <2>3
    <2>5. Shape(q) /\ SameLine(q, r) /\ q.status = "active"
      BY <2>4 DEF Shape, SameLine
    <2> QED
      BY <1>1, <2>5 DEF q
  <1>2. CASE r.status # "replaced"
    BY <1>2 DEF Revived, SameLine
  <1> QED
    BY <1>1, <1>2

\* All rows but that under the key are as they were.
Leaves(new, q, key) == \A x : x # key => Agree(new, q, x)

\* One row is rewritten.
Rewrites(new, q, key, r) ==
  Table(new) /\ DOMAIN new = DOMAIN q /\ new[key] = r /\ Leaves(new, q, key)

\* One row is added.
Inserts(new, q, key, r) ==
  Table(new) /\ DOMAIN new = DOMAIN q \cup {key} /\ new[key] = r /\ Leaves(new, q, key)

\* The commits of a pass, one by one.
LEMMA CommitsDo ==
  ASSUME NEW q, Table(q), NEW s, NEW ln, NEW at, NEW a
  PROVE  LET key == KeyOf(s, ln)
         IN  /\ key \in DOMAIN q => Rewrites(Apply(q, TouchOf(s, ln)), q, key, Touched(q[key], ln.touches))
             /\ key \in DOMAIN q => Rewrites(Apply(q, ReviveOf(s, ln)), q, key, Revived(q[key]))
             /\ Inserts(Apply(q, PutOf(s, ln, at)), q, key, Row(ln, at, Cardinality(DOMAIN q) + 1))
             /\ a \in DOMAIN q =>
                  Rewrites(Apply(q, End(a, "replaced", at)), q, a, Ended(q[a], "replaced", at))
  <1> DEFINE key == KeyOf(s, ln)
             i == Cardinality(DOMAIN q) + 1
  <1>1. ASSUME key \in DOMAIN q
        PROVE  Rewrites(Apply(q, TouchOf(s, ln)), q, key, Touched(q[key], ln.touches))
    <2> DEFINE c == TouchOf(s, ln)
               new == Apply(q, c)
    <2>1. Commit(c) /\ c.op = "touch" /\ c.key = key /\ c.touches = ln.touches
      BY DEF TouchOf, Commit
    <2> HIDE DEF c, key
    <2>2. RowsOf(new, q, c)
      BY <2>1, ApplyRow
    <2> HIDE DEF new
    <2>3. new[key] = Changed(q[key], c)
      BY <1>1, <2>1, <2>2 DEF RowsOf
    <2>4. Changed(q[key], c) = Touched(q[key], ln.touches)
      BY <2>1 DEF Changed, Touched
    <2>5. Rewrites(new, q, key, Touched(q[key], ln.touches))
      BY <2>1, <2>2, <2>3, <2>4 DEF RowsOf, Rewrites, Leaves
    <2> QED
      BY <2>5 DEF new, c
  <1>2. ASSUME key \in DOMAIN q
        PROVE  Rewrites(Apply(q, ReviveOf(s, ln)), q, key, Revived(q[key]))
    <2> DEFINE c == ReviveOf(s, ln)
               new == Apply(q, c)
    <2>1. Commit(c) /\ c.op = "revive" /\ c.key = key
      BY DEF ReviveOf, Commit
    <2> HIDE DEF c, key
    <2>2. RowsOf(new, q, c)
      BY <2>1, ApplyRow
    <2> HIDE DEF new
    <2>3. new[key] = Changed(q[key], c)
      BY <1>2, <2>1, <2>2 DEF RowsOf
    <2>4. Changed(q[key], c) = Revived(q[key])
      BY <2>1 DEF Changed
    <2>5. Rewrites(new, q, key, Revived(q[key]))
      BY <2>1, <2>2, <2>3, <2>4 DEF RowsOf, Rewrites, Leaves
    <2> QED
      BY <2>5 DEF new, c
  <1>3. Inserts(Apply(q, PutOf(s, ln, at)), q, key, Row(ln, at, i))
    <2> DEFINE c == PutOf(s, ln, at)
               new == Apply(q, c)
    <2>1. Commit(c) /\ c.op = "put" /\ c.key = key /\ c.line = ln /\ c.at = at
      BY DEF PutOf, Commit
    <2> HIDE DEF c, key
    <2>2. RowsOf(new, q, c)
      BY <2>1, ApplyRow
    <2> HIDE DEF new
    <2>3. Inserts(new, q, key, Row(ln, at, i))
      BY <2>1, <2>2 DEF RowsOf, Inserts, Leaves
    <2> QED
      BY <2>3 DEF new, c
  <1>4. ASSUME a \in DOMAIN q
        PROVE  Rewrites(Apply(q, End(a, "replaced", at)), q, a, Ended(q[a], "replaced", at))
    <2> DEFINE c == End(a, "replaced", at)
               new == Apply(q, c)
    <2>1. Commit(c) /\ c.op = "end" /\ c.key = a /\ c.status = "replaced" /\ c.at = at
      BY DEF End, Commit
    <2> HIDE DEF c
    <2>2. RowsOf(new, q, c)
      BY <2>1, ApplyRow
    <2> HIDE DEF new
    <2>3. new[a] = Changed(q[a], c)
      BY <1>4, <2>1, <2>2 DEF RowsOf
    <2>4. Changed(q[a], c) = Ended(q[a], "replaced", at)
      BY <2>1 DEF Changed
    <2>5. Rewrites(new, q, a, Ended(q[a], "replaced", at))
      BY <2>1, <2>2, <2>3, <2>4 DEF RowsOf, Rewrites, Leaves
    <2> QED
      BY <2>5 DEF new, c
  <1> QED
    BY <1>1, <1>2, <1>3, <1>4

\* Beside the line under the key only the one that stood before is ended.
Succeeds(m, q, key, cur, at) ==
  \A x : x # key => IF x \in cur THEN m[x] = Ended(q[x], "replaced", at) ELSE Agree(m, q, x)

\* What the first p of the commits make of the table q, when the line stands,
StoodOn(m, q, key, ln, len, p) ==
  /\ DOMAIN m = DOMAIN q /\ Leaves(m, q, key)
  /\ p < len => m = q
  /\ p = len => m[key] = Touched(q[key], ln.touches)

\* when it comes back,
CameBack(m, q, key, ln, cur, at, len, p) ==
  /\ len # 0 /\ DOMAIN m = DOMAIN q
  /\ p = 0 => m = q
  /\ 0 < p /\ p < len => m[key] \in {Revived(q[key]), Returned(q[key], ln)} /\ Leaves(m, q, key)
  /\ p = len => m[key] = Returned(q[key], ln) /\ Succeeds(m, q, key, cur, at)

\* and when it is new.
WasNew(m, q, key, ln, cur, at, len, p) ==
  /\ len # 0
  /\ p = 0 => m = q
  /\ 0 < p => DOMAIN m = DOMAIN q \cup {key} /\ m[key] = Row(ln, at, Cardinality(DOMAIN q) + 1)
  /\ 0 < p /\ p < len => Leaves(m, q, key)
  /\ p = len => Succeeds(m, q, key, cur, at)

\* The commits of a short list, one by one.
LEMMA FirstThree ==
  ASSUME NEW tab, NEW cs
  PROVE  /\ After(tab, cs, 1) = Apply(tab, cs[1])
         /\ After(tab, cs, 2) = Apply(Apply(tab, cs[1]), cs[2])
         /\ After(tab, cs, 3) = Apply(Apply(Apply(tab, cs[1]), cs[2]), cs[3])
  <1>1. \A n \in Nat : After(tab, cs, n + 1) = Apply(After(tab, cs, n), cs[n + 1])
    BY AfterSteps
  <1>2. After(tab, cs, 0) = tab
    BY AfterSteps
  <1>3. After(tab, cs, 0 + 1) = Apply(After(tab, cs, 0), cs[0 + 1])
    BY <1>1
  <1>4. After(tab, cs, 1 + 1) = Apply(After(tab, cs, 1), cs[1 + 1])
    BY <1>1
  <1>5. After(tab, cs, 2 + 1) = Apply(After(tab, cs, 2), cs[2 + 1])
    BY <1>1
  <1> QED
    BY <1>2, <1>3, <1>4, <1>5

\* What a list of two commits leaves,
LEMMA TwoAfter ==
  ASSUME NEW tab, NEW c, NEW d, NEW cs, cs = <<c, d>>
  PROVE  /\ Len(cs) = 2 /\ After(tab, cs, 1) = Apply(tab, c)
         /\ After(tab, cs, 2) = Apply(Apply(tab, c), d)
  <1>1. Len(cs) = 2 /\ cs[1] = c /\ cs[2] = d
    OBVIOUS
  <1> QED
    BY <1>1, FirstThree, Zenon

\* and one of three.
LEMMA ThreeAfter ==
  ASSUME NEW tab, NEW c, NEW d, NEW e, NEW cs, cs = <<c, d, e>>
  PROVE  /\ Len(cs) = 3 /\ After(tab, cs, 1) = Apply(tab, c)
         /\ After(tab, cs, 2) = Apply(Apply(tab, c), d)
         /\ After(tab, cs, 3) = Apply(Apply(Apply(tab, c), d), e)
  <1>1. Len(cs) = 3 /\ cs[1] = c /\ cs[2] = d /\ cs[3] = e
    OBVIOUS
  <1> QED
    BY <1>1, FirstThree, Zenon

\* What the commits leave when the line found stands already,
LEMMA StandsDoes ==
  ASSUME NEW q, Table(q), NEW s, NEW ln, KeyOf(s, ln) \in DOMAIN q, NEW K,
         K = IF q[KeyOf(s, ln)].touches # ln.touches THEN <<TouchOf(s, ln)>> ELSE <<>>,
         NEW p \in 0..Len(K)
  PROVE  StoodOn(After(q, K, p), q, KeyOf(s, ln), ln, Len(K), p)
  <1> DEFINE key == KeyOf(s, ln)
             c == TouchOf(s, ln)
             r == Touched(q[key], ln.touches)
             M(n) == After(q, K, n)
  <1>1. /\ Len(<<>>) = 0 /\ After(q, <<>>, 0) = q
        /\ Len(<<c>>) = 1 /\ After(q, <<c>>, 1) = Apply(q, c)
    <2> HIDE DEF c
    <2> QED
      BY FewAfter
  <1>2. Rewrites(Apply(q, c), q, key, r)
    BY CommitsDo
  <1>3. After(q, K, 0) = q
    BY AfterSteps
  <1>4. q[key].touches = ln.touches => r = q[key]
    <2> DEFINE o == q[key]
               x == ln.touches
    <2>1. Shape(o)
      BY DEF Table
    <2> HIDE DEF o, x
    <2>2. o.touches = x => Touched(o, x) = o
      BY <2>1, TouchedIs
    <2> QED
      BY <2>2 DEF o, x
  <1>5. Leaves(q, q, key)
    BY DEF Leaves, Agree
  <1>6. K = IF q[key].touches # ln.touches THEN <<c>> ELSE <<>>
    OBVIOUS
  <1> HIDE DEF c, r, key
  <1>7. CASE q[key].touches # ln.touches
    <2>1. K = <<c>> /\ Len(K) = 1 /\ After(q, K, 1) = Apply(q, c)
      BY <1>1, <1>6, <1>7
    <2>2. p = 0 \/ p = 1
      BY <2>1
    <2>3. CASE p = 0
      BY <1>3, <1>5, <2>1, <2>3 DEF StoodOn, key
    <2>4. CASE p = 1
      BY <1>2, <2>1, <2>4 DEF StoodOn, Rewrites, r, key
    <2> QED
      BY <2>2, <2>3, <2>4
  <1>8. CASE q[key].touches = ln.touches
    <2>1. K = <<>> /\ Len(K) = 0
      BY <1>1, <1>6, <1>8
    <2>2. p = 0
      BY <2>1
    <2> QED
      BY <1>3, <1>4, <1>5, <1>8, <2>1, <2>2 DEF StoodOn, r, key
  <1> QED
    BY <1>7, <1>8

\* when it comes back,
LEMMA ReturnDoes ==
  ASSUME NEW q, Table(q), NEW s, NEW ln, KeyOf(s, ln) \in DOMAIN q, NEW at,
         NEW a, NEW cur, cur = {} \/ (cur = {a} /\ a \in DOMAIN q), KeyOf(s, ln) \notin cur,
         NEW K, K = IF cur = {} THEN <<ReviveOf(s, ln), TouchOf(s, ln)>>
                    ELSE <<ReviveOf(s, ln), TouchOf(s, ln), End(a, "replaced", at)>>,
         NEW p \in 0..Len(K)
  PROVE  CameBack(After(q, K, p), q, KeyOf(s, ln), ln, cur, at, Len(K), p)
  <1> DEFINE key == KeyOf(s, ln)
             c == ReviveOf(s, ln)
             d == TouchOf(s, ln)
             e == End(a, "replaced", at)
             q1 == Apply(q, c)
             q2 == Apply(q1, d)
             q3 == Apply(q2, e)
             r1 == Revived(q[key])
             r2 == Returned(q[key], ln)
             r3 == Ended(q[a], "replaced", at)
  <1>1. /\ Len(<<c, d>>) = 2 /\ After(q, <<c, d>>, 1) = q1 /\ After(q, <<c, d>>, 2) = q2
        /\ Len(<<c, d, e>>) = 3 /\ After(q, <<c, d, e>>, 1) = q1
        /\ After(q, <<c, d, e>>, 2) = q2 /\ After(q, <<c, d, e>>, 3) = q3
    <2> HIDE DEF c, d, e
    <2> DEFINE two == <<c, d>>
               three == <<c, d, e>>
    <2>1. two = <<c, d>> /\ three = <<c, d, e>>
      OBVIOUS
    <2> HIDE DEF two, three
    <2>2. /\ Len(two) = 2 /\ After(q, two, 1) = Apply(q, c)
          /\ After(q, two, 2) = Apply(Apply(q, c), d)
      BY <2>1, TwoAfter
    <2>3. /\ Len(three) = 3 /\ After(q, three, 1) = Apply(q, c)
          /\ After(q, three, 2) = Apply(Apply(q, c), d)
          /\ After(q, three, 3) = Apply(Apply(Apply(q, c), d), e)
      BY <2>1, ThreeAfter
    <2> QED
      BY <2>2, <2>3 DEF two, three
  <1>2. After(q, K, 0) = q
    BY AfterSteps
  <1>3. Rewrites(q1, q, key, r1)
    BY CommitsDo
  <1>4. Rewrites(q2, q1, key, r2)
    <2> DEFINE t == q1
    <2>1. Table(t) /\ key \in DOMAIN t /\ t[key] = r1
      BY <1>3 DEF Rewrites
    <2> HIDE DEF t, r1
    <2>2. Rewrites(Apply(t, TouchOf(s, ln)), t, key, Touched(t[key], ln.touches))
      BY <2>1, CommitsDo
    <2> QED
      BY <2>1, <2>2 DEF Returned, t, r1
  <1>5. a \in DOMAIN q2 => Rewrites(q3, q2, a, Ended(q2[a], "replaced", at))
    <2> DEFINE t == q2
    <2>1. Table(t)
      BY <1>4 DEF Rewrites
    <2> HIDE DEF t
    <2>2. a \in DOMAIN t => Rewrites(Apply(t, End(a, "replaced", at)), t, a, Ended(t[a], "replaced", at))
      BY <2>1, CommitsDo
    <2> QED
      BY <2>2 DEF t
  <1>6. K = IF cur = {} THEN <<c, d>> ELSE <<c, d, e>>
    OBVIOUS
  <1> DEFINE u == key
  <1> HIDE DEF c, d, e, q1, q2, q3, r1, r2
  <1>7. Leaves(q1, q, key) /\ Leaves(q2, q, key) /\ DOMAIN q1 = DOMAIN q /\ DOMAIN q2 = DOMAIN q
    BY <1>3, <1>4 DEF Rewrites, Leaves, Agree
  <1>8. CASE cur = {}
    <2>1. K = <<c, d>> /\ Len(K) = 2 /\ After(q, K, 1) = q1 /\ After(q, K, 2) = q2
      BY <1>1, <1>6, <1>8
    <2>2. p = 0 \/ p = 1 \/ p = 2
      BY <2>1
    <2>3. CASE p = 0
      BY <1>2, <2>1, <2>3 DEF CameBack
    <2>4. CASE p = 1
      BY <1>3, <1>7, <2>1, <2>4 DEF CameBack, Rewrites, r1
    <2>5. CASE p = 2
      BY <1>4, <1>7, <1>8, <2>1, <2>5 DEF CameBack, Rewrites, Succeeds, Leaves, r2
    <2> QED
      BY <2>2, <2>3, <2>4, <2>5
  <1>9. CASE cur = {a} /\ a \in DOMAIN q
    <2>1. K = <<c, d, e>> /\ Len(K) = 3
          /\ After(q, K, 1) = q1 /\ After(q, K, 2) = q2 /\ After(q, K, 3) = q3
      BY <1>1, <1>6, <1>9
    <2>2. p = 0 \/ p = 1 \/ p = 2 \/ p = 3
      BY <2>1
    <2>3. CASE p = 0
      BY <1>2, <2>1, <2>3 DEF CameBack
    <2>4. CASE p = 1
      BY <1>3, <1>7, <2>1, <2>4 DEF CameBack, Rewrites, r1
    <2>5. CASE p = 2
      BY <1>4, <1>7, <2>1, <2>5 DEF CameBack, Rewrites, r2
    <2>6. CASE p = 3
      <3>1. a # key /\ q2[a] = q[a] /\ a \in DOMAIN q2
        BY <1>7, <1>9 DEF Leaves, Agree
      <3>2. Rewrites(q3, q2, a, r3)
        BY <1>5, <3>1
      <3> HIDE DEF r3
      <3>3. DOMAIN q3 = DOMAIN q /\ q3[key] = r2
        BY <1>4, <1>7, <3>1, <3>2 DEF Rewrites, Leaves, Agree
      <3>4. q3[a] = r3 /\ \A x : x # key /\ x # a => Agree(q3, q, x)
        BY <1>7, <3>1, <3>2 DEF Rewrites, Leaves, Agree
      <3>5. Succeeds(q3, q, key, cur, at)
        BY <1>9, <3>4 DEF Succeeds, r3
      <3> QED
        BY <2>1, <2>6, <3>3, <3>5 DEF CameBack, r2
    <2> QED
      BY <2>2, <2>3, <2>4, <2>5, <2>6
  <1> QED
    BY <1>8, <1>9

\* and when it is new.
LEMMA NewDoes ==
  ASSUME NEW q, Table(q), NEW s, NEW ln, KeyOf(s, ln) \notin DOMAIN q, NEW at,
         NEW a, NEW cur, cur = {} \/ (cur = {a} /\ a \in DOMAIN q),
         NEW K, K = IF cur = {} THEN <<PutOf(s, ln, at)>>
                    ELSE <<PutOf(s, ln, at), End(a, "replaced", at)>>,
         NEW p \in 0..Len(K)
  PROVE  WasNew(After(q, K, p), q, KeyOf(s, ln), ln, cur, at, Len(K), p)
  <1> DEFINE key == KeyOf(s, ln)
             c == PutOf(s, ln, at)
             e == End(a, "replaced", at)
             q1 == Apply(q, c)
             q2 == Apply(q1, e)
             r1 == Row(ln, at, Cardinality(DOMAIN q) + 1)
             r2 == Ended(q[a], "replaced", at)
  <1>1. /\ Len(<<c>>) = 1 /\ After(q, <<c>>, 1) = q1
        /\ Len(<<c, e>>) = 2 /\ After(q, <<c, e>>, 1) = q1 /\ After(q, <<c, e>>, 2) = q2
    <2> HIDE DEF c, e
    <2> QED
      BY FewAfter
  <1>2. After(q, K, 0) = q
    BY AfterSteps
  <1>3. Inserts(q1, q, key, r1)
    BY CommitsDo
  <1>4. a \in DOMAIN q1 => Rewrites(q2, q1, a, Ended(q1[a], "replaced", at))
    <2> DEFINE t == q1
    <2>1. Table(t)
      BY <1>3 DEF Inserts
    <2> HIDE DEF t
    <2>2. a \in DOMAIN t => Rewrites(Apply(t, End(a, "replaced", at)), t, a, Ended(t[a], "replaced", at))
      BY <2>1, CommitsDo
    <2> QED
      BY <2>2 DEF t
  <1>5. K = IF cur = {} THEN <<c>> ELSE <<c, e>>
    OBVIOUS
  <1>6. key \notin DOMAIN q
    OBVIOUS
  <1> HIDE DEF c, e, q1, q2, r1
  <1>7. CASE cur = {}
    <2>1. K = <<c>> /\ Len(K) = 1 /\ After(q, K, 1) = q1
      BY <1>1, <1>5, <1>7
    <2>2. p = 0 \/ p = 1
      BY <2>1
    <2>3. CASE p = 0
      BY <1>2, <2>1, <2>3 DEF WasNew
    <2>4. CASE p = 1
      BY <1>3, <1>7, <2>1, <2>4 DEF WasNew, Inserts, Succeeds, Leaves, r1
    <2> QED
      BY <2>2, <2>3, <2>4
  <1>8. CASE cur = {a} /\ a \in DOMAIN q
    <2>1. K = <<c, e>> /\ Len(K) = 2 /\ After(q, K, 1) = q1 /\ After(q, K, 2) = q2
      BY <1>1, <1>5, <1>8
    <2>2. p = 0 \/ p = 1 \/ p = 2
      BY <2>1
    <2>3. CASE p = 0
      BY <1>2, <2>1, <2>3 DEF WasNew
    <2>4. CASE p = 1
      BY <1>3, <2>1, <2>4 DEF WasNew, Inserts, r1
    <2>5. CASE p = 2
      <3>1. a # key /\ q1[a] = q[a] /\ a \in DOMAIN q1
        BY <1>3, <1>6, <1>8 DEF Inserts, Leaves, Agree
      <3>2. Rewrites(q2, q1, a, r2)
        BY <1>4, <3>1
      <3> HIDE DEF r2
      <3>3. DOMAIN q2 = DOMAIN q \cup {key} /\ q2[key] = r1
        BY <1>3, <3>1, <3>2 DEF Inserts, Rewrites, Leaves, Agree
      <3>4. q2[a] = r2 /\ \A x : x # key /\ x # a => Agree(q2, q, x)
        BY <1>3, <3>1, <3>2 DEF Inserts, Rewrites, Leaves, Agree
      <3>5. Succeeds(q2, q, key, cur, at)
        BY <1>8, <3>4 DEF Succeeds, r2
      <3> QED
        BY <2>1, <2>5, <3>3, <3>5 DEF WasNew, r1
    <2> QED
      BY <2>2, <2>3, <2>4, <2>5
  <1> QED
    BY <1>7, <1>8

\* What the first p of the commits for a kind make of q, which holds under the
\* lines of that kind what L does.
KindRun(m, q, bs, L, s, kind, ln, cur, len, p) ==
  /\ Table(m)
  /\ \A x : ~InSlot(x, s, kind) => Agree(m, q, x)
  /\ NoChange(L, s, bs, ln, cur) => len = 0 /\ m = q
  /\ Stands(L, s, ln, cur) => StoodOn(m, q, KeyOf(s, ln), ln, len, p)
  /\ ComesBack(L, s, ln, cur) => CameBack(m, q, KeyOf(s, ln), ln, cur, Len(bs), len, p)
  /\ IsNew(L, s, bs, ln, cur) => WasNew(m, q, KeyOf(s, ln), ln, cur, Len(bs), len, p)

\* The line found of a kind, and the one that is current.
KindFound(bs, L, s, kind, ln, cur) ==
  /\ ln = Detect(bs, Scales[s], kind)
  /\ cur = Current(L, Actives(L, s, kind))

\* What the commits for a kind rest on.
LEMMA KindFacts ==
  ASSUME NEW bs \in Seq(BarShapes), NEW s \in DOMAIN Scales, NEW kind, NEW L, Table(L), Numbered(L),
         NEW ln, NEW cur, KindFound(bs, L, s, kind, ln, cur),
         NEW K, K = KindCommits(L, s, bs, kind)
  PROVE  /\ Listed(K, bs) /\ Len(K) \in Nat
         /\ K = Changes(L, s, bs, Len(bs), ln, cur)
         /\ cur \subseteq Actives(L, s, kind) /\ cur \subseteq DOMAIN L
         /\ \A x \in cur : InSlot(x, s, kind)
         /\ One(cur)
         /\ ln # NoLine => InSlot(KeyOf(s, ln), s, kind)
         /\ \/ NoChange(L, s, bs, ln, cur) \/ Stands(L, s, ln, cur)
            \/ ComesBack(L, s, ln, cur) \/ IsNew(L, s, bs, ln, cur)
  <1> DEFINE A == Actives(L, s, kind)
  <1>1. A \in SUBSET (DOMAIN L) /\ \A x \in A : InSlot(x, s, kind)
    BY DEF Actives, InSlot
  <1>2. Scales[s] \in Scale
    BY TrendAssumption
  <1>3. ln # NoLine => ln.kind = kind /\ OnBars(ln, bs)
    BY <1>2, DetectedOnBars DEF KindFound
  <1>4. K = Changes(L, s, bs, Len(bs), ln, cur)
    BY DEF KindCommits, KindFound
  <1>5. cur = Current(L, A)
    BY DEF KindFound
  <1> HIDE DEF A
  <1>6. cur \subseteq A /\ (cur = {} \/ \E x \in A : cur = {x})
    BY <1>1, <1>5, CurrentFew
  <1>7. Listed(K, bs)
    BY <1>3, <1>4, ChangesListed
  <1>8. Len(K) \in Nat
    BY <1>7, ListedLen
  <1>9. ln # NoLine => InSlot(KeyOf(s, ln), s, kind)
    BY <1>3 DEF KeyOf, InSlot
  <1>10. PICK a : cur = {} \/ cur = {a}
    BY <1>6
  <1>11. cur \subseteq DOMAIN L
    BY <1>1, <1>6
  <1>12. \/ NoChange(L, s, bs, ln, cur) \/ Stands(L, s, ln, cur)
         \/ ComesBack(L, s, ln, cur) \/ IsNew(L, s, bs, ln, cur)
    BY <1>4, <1>10, <1>11, ChangesAre
  <1>13. One(cur)
    BY <1>10 DEF One
  <1> QED
    BY <1>1, <1>4, <1>6, <1>7, <1>8, <1>9, <1>11, <1>12, <1>13 DEF A

\* What the first p commits for a kind leave, in each of the four cases.
LEMMA KindRuns ==
  ASSUME NEW bs \in Seq(BarShapes), NEW s \in DOMAIN Scales, NEW kind, NEW L, Table(L), Numbered(L),
         NEW ln, NEW cur, KindFound(bs, L, s, kind, ln, cur),
         NEW K, K = KindCommits(L, s, bs, kind),
         NEW q, Table(q), \A x : InSlot(x, s, kind) => Agree(q, L, x),
         NEW p \in 0..Len(K)
  PROVE  KindRun(After(q, K, p), q, bs, L, s, kind, ln, cur, Len(K), p)
  <1> DEFINE key == KeyOf(s, ln)
             at == Len(bs)
             len == Len(K)
             m == After(q, K, p)
             touch == TouchOf(s, ln)
             revive == ReviveOf(s, ln)
             put == PutOf(s, ln, at)
  <1>1. /\ Listed(K, bs) /\ len \in Nat
        /\ K = Changes(L, s, bs, at, ln, cur)
        /\ cur \subseteq DOMAIN L
        /\ \A x \in cur : InSlot(x, s, kind)
        /\ ln # NoLine => InSlot(key, s, kind)
    BY KindFacts
  <1>2. PICK a : cur = {} \/ cur = {a}
    <2>1. One(cur)
      BY KindFacts
    <2>2. CASE cur = {}
      BY <2>2
    <2>3. CASE cur # {}
      <3>1. PICK a \in cur : TRUE
        BY <2>3
      <3>2. cur = {a}
        BY <2>1 DEF One
      <3> QED
        BY <3>2
    <2> QED
      BY <2>2, <2>3
  <1> DEFINE end == End(a, "replaced", at)
  <1>3. ChangesList(K, L, s, bs, ln, at, cur, a)
    BY <1>1, <1>2, ChangesAre
  <1>4. Table(m)
    BY <1>1, Untouched
  <1>5. \A x \in cur : x \in DOMAIN q /\ q[x] = L[x]
    BY <1>1 DEF Agree
  <1>6. ASSUME NoChange(L, s, bs, ln, cur) PROVE len = 0 /\ m = q
    <2>1. len = 0
      BY <1>3, <1>6 DEF ChangesList
    <2>2. p = 0 /\ After(q, K, 0) = q
      BY <2>1, AfterSteps
    <2> QED
      BY <2>1, <2>2
  <1>7. ASSUME Stands(L, s, ln, cur) PROVE StoodOn(m, q, key, ln, len, p)
    <2>1. key \in cur
      BY <1>7 DEF Stands
    <2>2. key \in DOMAIN q /\ q[key] = L[key]
      BY <1>5, <2>1
    <2>3. K = IF q[key].touches # ln.touches THEN <<touch>> ELSE <<>>
      BY <1>3, <1>7, <2>2 DEF ChangesList
    <2> QED
      BY <2>2, <2>3, StandsDoes
  <1>8. ASSUME ComesBack(L, s, ln, cur) PROVE CameBack(m, q, key, ln, cur, at, len, p)
    <2>1. ln # NoLine /\ key \in DOMAIN L \ cur
      BY <1>8 DEF ComesBack
    <2>2. key \in DOMAIN q /\ key \notin cur
      BY <1>1, <2>1 DEF Agree
    <2>3. K = IF cur = {} THEN <<revive, touch>> ELSE <<revive, touch, end>>
      BY <1>3, <1>8 DEF ChangesList
    <2>4. cur = {} \/ (cur = {a} /\ a \in DOMAIN q)
      BY <1>2, <1>5
    <2> QED
      BY <2>2, <2>3, <2>4, ReturnDoes
  <1>9. ASSUME IsNew(L, s, bs, ln, cur) PROVE WasNew(m, q, key, ln, cur, at, len, p)
    <2>1. ln # NoLine /\ key \notin DOMAIN L
      BY <1>9 DEF IsNew
    <2>2. key \notin DOMAIN q
      BY <1>1, <2>1 DEF Agree
    <2>3. K = IF cur = {} THEN <<put>> ELSE <<put, end>>
      BY <1>3, <1>9 DEF ChangesList
    <2>4. cur = {} \/ (cur = {a} /\ a \in DOMAIN q)
      BY <1>2, <1>5
    <2> QED
      BY <2>2, <2>3, <2>4, NewDoes
  <1>10. ASSUME NEW x, ~InSlot(x, s, kind) PROVE Agree(m, q, x)
    <2>1. ln # NoLine => x # key
      BY <1>1, <1>10
    <2>2. x \notin cur
      BY <1>1, <1>10
    <2>3. \/ NoChange(L, s, bs, ln, cur) \/ Stands(L, s, ln, cur)
          \/ ComesBack(L, s, ln, cur) \/ IsNew(L, s, bs, ln, cur)
      BY KindFacts
    <2>4. p = 0 \/ (0 < p /\ p < len) \/ p = len
      BY <1>1
    <2> HIDE DEF m, key, len
    <2>5. CASE NoChange(L, s, bs, ln, cur)
      BY <1>6, <2>5 DEF Agree
    <2>6. CASE Stands(L, s, ln, cur)
      BY <1>7, <2>1, <2>6 DEF StoodOn, Leaves, Stands
    <2>7. CASE ComesBack(L, s, ln, cur)
      BY <1>8, <2>1, <2>2, <2>4, <2>7 DEF CameBack, Leaves, Succeeds, ComesBack, Agree
    <2>8. CASE IsNew(L, s, bs, ln, cur)
      BY <1>9, <2>1, <2>2, <2>4, <2>8 DEF WasNew, Leaves, Succeeds, IsNew, Agree
    <2> QED
      BY <2>3, <2>5, <2>6, <2>7, <2>8
  <1> QED
    BY <1>4, <1>6, <1>7, <1>8, <1>9, <1>10 DEF KindRun

\* The commits for a kind depend on the lines of that kind.
LEMMA KindAlike ==
  ASSUME NEW bs \in Seq(BarShapes), NEW s \in DOMAIN Scales, NEW kind,
         NEW a, NEW b, \A x : InSlot(x, s, kind) => Agree(a, b, x)
  PROVE  KindCommits(a, s, bs, kind) = KindCommits(b, s, bs, kind)
  <1> DEFINE ln == Detect(bs, Scales[s], kind)
             key == KeyOf(s, ln)
             A == Actives(a, s, kind)
             B == Actives(b, s, kind)
             cur == Current(a, A)
             put == [op |-> "put", key |-> key, line |-> ln, at |-> Len(bs)]
  <1>1. ln # NoLine => InSlot(key, s, kind)
    <2>1. Scales[s] \in Scale
      BY TrendAssumption
    <2>2. ln # NoLine => ln.kind = kind
      BY <2>1, DetectedOnBars
    <2> HIDE DEF ln
    <2> QED
      BY <2>2 DEF KeyOf, InSlot
  <1>2. A = B /\ \A x \in A : a[x] = b[x]
    BY DEF Actives, InSlot, Agree
  <1>3. cur = Current(b, B)
    <2> HIDE DEF A, B
    <2> QED
      BY <1>2 DEF Current
  <1>4. ln # NoLine => (key \in DOMAIN a <=> key \in DOMAIN b) /\ (key \in DOMAIN a => a[key] = b[key])
    BY <1>1 DEF Agree
  <1> HIDE DEF A, B
  <1>5. KindCommits(a, s, bs, kind) = Changes(a, s, bs, Len(bs), ln, cur)
    BY DEF KindCommits, A
  <1>6. KindCommits(b, s, bs, kind) = Changes(b, s, bs, Len(bs), ln, cur)
    <2>1. KindCommits(b, s, bs, kind) = Changes(b, s, bs, Len(bs), ln, Current(b, B))
      BY DEF KindCommits, B
    <2> HIDE DEF cur, ln
    <2> QED
      BY <1>3, <2>1
  <1>7. cur \subseteq A
    BY DEF Current
  <1>8. ln # NoLine /\ key \in cur => key \in DOMAIN a
    BY <1>7 DEF A, Actives
  <1> HIDE DEF cur, ln
  <1> QED
    BY <1>4, <1>5, <1>6, <1>8, Zenon DEF Changes

\* Ending sets the status of an active row.
LEMMA EndedSets ==
  ASSUME NEW r, Shape(r), NEW v, NEW w
  PROVE  /\ r.status = "active" => Ended(r, v, w).status = v
         /\ r.status # "active" => Ended(r, v, w) = r
  <1>1. CASE r.status = "active"
    <2> DEFINE F == {"t1", "p1", "t2", "p2", "kind", "touches", "found", "id", "status", "ended"}
               q == Ended(r, v, w)
    <2>1. q = [r EXCEPT !.status = v, !.ended = w]
      BY <1>1 DEF Ended
    <2>2. DOMAIN r = F /\ r = [x \in F |-> r[x]]
      BY DEF Shape
    <2> HIDE DEF q
    <2>3. q = [x \in F |-> IF x = "ended" THEN w ELSE IF x = "status" THEN v ELSE r[x]]
      BY <2>1, <2>2, Zenon
    <2>4. q.status = v
      BY <2>3
    <2> QED
      BY <1>1, <2>4 DEF q
  <1>2. CASE r.status # "active"
    BY <1>2 DEF Ended
  <1> QED
    BY <1>1, <1>2

\* What keeps the numbers.
Fresh(tab, cs) ==
  \A i \in 1..Len(cs) : cs[i].op = "put" => i = 1 /\ cs[i].key \notin DOMAIN tab

\* One commit leaves the rows numbered,
LEMMA ApplyNumbered ==
  ASSUME NEW tab, Table(tab), Numbered(tab), NEW c, Commit(c), c.op = "put" => c.key \notin DOMAIN tab
  PROVE  Numbered(Apply(tab, c))
  <1> DEFINE new == Apply(tab, c)
             T == DOMAIN tab
             n == Cardinality(T)
  <1>1. RowsOf(new, tab, c)
    BY ApplyRow
  <1>2. IsFiniteSet(T) /\ n \in Nat
    BY FS_CardinalityType DEF Table
  <1> HIDE DEF new
  <1>3. \A x, y \in T : tab[x].id = tab[y].id => x = y
    BY DEF Numbered
  <1>4. \A x \in T : tab[x].id \in 1..n /\ tab[x].status \in {"active", "broken", "replaced"} /\ Shape(tab[x])
    BY DEF Numbered, Table
  <1>5. CASE c.op = "put"
    <2> DEFINE r == Row(c.line, c.at, n + 1)
    <2>1. /\ DOMAIN new = T \cup {c.key} /\ new[c.key] = r
          /\ \A x \in T : x # c.key /\ new[x] = tab[x]
      BY <1>1, <1>5 DEF RowsOf, Agree
    <2>2. r.id = n + 1 /\ r.status = "active"
      BY DEF Row
    <2>3. Cardinality(T \cup {c.key}) = n + 1
      BY <1>2, <1>5, FS_AddElement
    <2> HIDE DEF r, T, n
    <2>4. \A x \in DOMAIN new : new[x].id \in 1..(n + 1) /\ new[x].status \in {"active", "broken", "replaced"}
      BY <1>2, <1>4, <2>1, <2>2
    <2>5. \A x, y \in DOMAIN new : new[x].id = new[y].id => x = y
      BY <1>2, <1>3, <1>4, <2>1, <2>2
    <2>6. Cardinality(DOMAIN new) = n + 1
      BY <2>1, <2>3, Zenon
    <2>7. Numbered(new)
      BY <2>4, <2>5, <2>6 DEF Numbered
    <2> QED
      BY <2>7 DEF new
  <1>6. CASE c.op # "put"
    <2>1. DOMAIN new = T /\ \A x \in T : x # c.key => new[x] = tab[x]
      BY <1>1, <1>6 DEF RowsOf, Agree
    <2>2. c.key \in T => SameLine(new[c.key], tab[c.key])
                         /\ new[c.key].status \in {"active", "broken", "replaced"}
      <3> SUFFICES ASSUME c.key \in T
                   PROVE  SameLine(new[c.key], tab[c.key]) /\ new[c.key].status \in {"active", "broken", "replaced"}
        OBVIOUS
      <3> DEFINE o == tab[c.key]
                 q == new[c.key]
      <3>1. Shape(o) /\ o.status \in {"active", "broken", "replaced"}
        BY <1>4
      <3>2. q = Changed(o, c)
        BY <1>1, <1>6 DEF RowsOf
      <3> HIDE DEF o, q
      <3>3. CASE c.op = "end"
        <4> DEFINE v == c.status
                   w == c.at
        <4>1. q = Ended(o, v, w) /\ v \in {"broken", "replaced"}
          BY <3>2, <3>3 DEF Changed, Commit
        <4> HIDE DEF v, w
        <4>2. SameLine(Ended(o, v, w), o)
          BY <3>1, EndedIs
        <4>3. /\ o.status = "active" => Ended(o, v, w).status = v
              /\ o.status # "active" => Ended(o, v, w) = o
          BY <3>1, EndedSets
        <4> QED
          BY <3>1, <4>1, <4>2, <4>3 DEF o, q
      <3>4. CASE c.op = "revive"
        <4>1. q = Revived(o)
          BY <3>2, <3>4 DEF Changed
        <4> QED
          BY <3>1, <4>1, RevivedIs DEF o, q
      <3>5. CASE c.op = "touch"
        <4> DEFINE x == c.touches
        <4>1. q = Touched(o, x)
          BY <3>2, <3>5 DEF Changed, Touched
        <4> HIDE DEF x
        <4> QED
          BY <3>1, <4>1, TouchedIs DEF o, q
      <3> QED
        BY <1>6, <3>3, <3>4, <3>5 DEF Commit
    <2> HIDE DEF T
    <2>3. \A x \in T : new[x].id = tab[x].id /\ new[x].status \in {"active", "broken", "replaced"}
      BY <1>4, <2>1, <2>2 DEF SameLine
    <2>4. Cardinality(DOMAIN new) = n
      BY <2>1 DEF T
    <2> HIDE DEF n
    <2>5. \A x \in DOMAIN new : new[x].id \in 1..n /\ new[x].status \in {"active", "broken", "replaced"}
      BY <1>4, <2>1, <2>3
    <2>6. \A x, y \in DOMAIN new : new[x].id = new[y].id => x = y
      BY <1>3, <2>1, <2>3
    <2>7. Numbered(new)
      BY <2>4, <2>5, <2>6 DEF Numbered
    <2> QED
      BY <2>7 DEF new
  <1> QED
    BY <1>5, <1>6 DEF new

\* and so do several.
LEMMA AfterNumbered ==
  ASSUME NEW bs, NEW cs, Listed(cs, bs), NEW tab, Table(tab), Numbered(tab), Fresh(tab, cs)
  PROVE  \A n \in 0..Len(cs) : Numbered(After(tab, cs, n))
  <1> DEFINE b == Len(cs)
             A(n) == After(tab, cs, n)
             good == {n \in 0..b : Numbered(A(n))}
  <1>1. b \in Nat
    BY ListedLen
  <1>2. A(0) = tab
    BY AfterSteps
  <1>3. 0 \in good
    BY <1>1, <1>2
  <1>4. ASSUME NEW n \in 1..b, n - 1 \in good PROVE n \in good
    <2>1. n - 1 \in Nat /\ n - 1 \in 0..b /\ n \in 0..b /\ (n - 1) + 1 = n
      BY <1>1
    <2>2. A(n) = Apply(A(n - 1), cs[n])
      <3>1. After(tab, cs, (n - 1) + 1) = Apply(After(tab, cs, n - 1), cs[(n - 1) + 1])
        BY <2>1, AfterSteps
      <3> QED
        BY <2>1, <3>1
    <2>3. Table(A(n - 1)) /\ Numbered(A(n - 1))
      BY <1>4, <2>1, Untouched
    <2>4. Commit(cs[n])
      BY DEF Listed, Rests
    <2>5. cs[n].op = "put" => cs[n].key \notin DOMAIN A(n - 1)
      <3>1. cs[n].op = "put" => n = 1 /\ cs[n].key \notin DOMAIN tab
        BY DEF Fresh
      <3>2. n = 1 => A(n - 1) = tab
        BY <1>2
      <3> HIDE DEF A
      <3> QED
        BY <3>1, <3>2
    <2> HIDE DEF A
    <2> QED
      BY <2>1, <2>2, <2>3, <2>4, <2>5, ApplyNumbered
  <1> HIDE DEF good
  <1>5. \A n \in 0..b : n \in good
    <2> HIDE DEF b
    <2> QED
      BY <1>1, <1>3, <1>4, CountingUp
  <1> QED
    BY <1>5 DEF good

\* B are the active lines of a kind.
AreActive(B, q, s, kind) ==
  \A x : x \in B <=> x \in DOMAIN q /\ InSlot(x, s, kind) /\ q[x].status = "active"

\* The current line among the active ones of a kind.
OldestOf(B, q, cur) ==
  /\ \A x : B = {x} => cur = {x}
  /\ \A x, y : B = {x, y} /\ q[x].id < q[y].id => cur = {x}

LEMMA SlotCurrent ==
  ASSUME NEW q, Table(q), Numbered(q), NEW s, NEW kind, NEW B, AreActive(B, q, s, kind)
  PROVE  OldestOf(B, q, Current(q, Actives(q, s, kind)))
  <1>1. Actives(q, s, kind) = B /\ B \in SUBSET (DOMAIN q)
    BY DEF Actives, InSlot, AreActive
  <1>2. /\ \A x : B = {x} => Current(q, B) = {x}
        /\ \A x, y : B = {x, y} /\ q[x].id < q[y].id => Current(q, B) = {x}
    BY <1>1, CurrentFew
  <1>3. OldestOf(B, q, Current(q, B))
    BY <1>2 DEF OldestOf
  <1> QED
    BY <1>1, <1>3

\* A pass goes on from Q, where one from V stopped at M.
Resumed(V, M, Q, s, kind, bs) ==
  /\ Table(V) /\ Numbered(V) /\ Table(Q) /\ Numbered(Q)
  /\ One(Actives(V, s, kind))
  /\ \A x \in DOMAIN V : InSlot(x, s, kind) => Cleared(V[x], s, bs) = V[x]
  /\ \A x : InSlot(x, s, kind) =>
       /\ x \in DOMAIN Q <=> x \in DOMAIN M
       /\ x \in DOMAIN Q => Q[x] = Cleared(M[x], s, bs)

\* The lines of a kind are healed, but for what a line in back excuses.
SlotHealed(Z, W, s, kind, back) ==
  \A x : InSlot(x, s, kind) =>
    /\ x \in DOMAIN Z <=> x \in DOMAIN W
    /\ x \in DOMAIN Z /\ Z[x] # W[x] =>
         \E old \in back : /\ InSlot(old, s, kind) /\ old \in DOMAIN Z
                           /\ Z[old].id < Z[x].id \/ Z[old].status = "broken"

\* A whole pass over one kind leads from Q to Z.
GoesOn(Z, Q, s, kind, bs, ln) ==
  \A cur : KindFound(bs, Q, s, kind, ln, cur) =>
    \E len \in Nat : KindRun(Z, Q, bs, Q, s, kind, ln, cur, len, len)

\* The passes over one kind: one stops after p of its len commits, leaving M
\* instead of W, the next one goes on to Z.
TwoPasses(V, M, W, Q, Z, s, kind, bs, ln, cur, len, p) ==
  /\ len \in Nat /\ p \in 0..len
  /\ p = len => M = W
  /\ KindFound(bs, V, s, kind, ln, cur)
  /\ KindRun(M, V, bs, V, s, kind, ln, cur, len, p)
  /\ KindRun(W, V, bs, V, s, kind, ln, cur, len, len)
  /\ GoesOn(Z, Q, s, kind, bs, ln)

\* A row is cleared by ending it, if its line is active and broken.
LEMMA ClearedSame ==
  ASSUME NEW r, NEW s, NEW bs
  PROVE  /\ r.status # "active" \/ BreakAt(r, s, bs) = Never => Cleared(r, s, bs) = r
         /\ r.status = "active" /\ BreakAt(r, s, bs) # Never =>
              Cleared(r, s, bs) = Ended(r, "broken", BreakAt(r, s, bs))
  BY DEF Cleared

\* The lines of the kind where a pass stood before.
LEMMA SlotBefore ==
  ASSUME NEW bs \in Seq(BarShapes), NEW s \in DOMAIN Scales, NEW kind, NEW V, NEW M, NEW Q,
         Resumed(V, M, Q, s, kind, bs),
         NEW ln, NEW cur, KindFound(bs, V, s, kind, ln, cur)
  PROVE  /\ cur \subseteq DOMAIN V /\ One(cur)
         /\ \A x \in cur : InSlot(x, s, kind)
         /\ AreActive(cur, V, s, kind)
         /\ ln # NoLine => InSlot(KeyOf(s, ln), s, kind)
         /\ \A x \in DOMAIN V : InSlot(x, s, kind) => Cleared(V[x], s, bs) = V[x]
  <1>1. Table(V) /\ Numbered(V) /\ One(Actives(V, s, kind))
        /\ \A x \in DOMAIN V : InSlot(x, s, kind) => Cleared(V[x], s, bs) = V[x]
    BY DEF Resumed
  <1>2. cur = Actives(V, s, kind)
    BY <1>1, CurrentIsActive DEF KindFound
  <1>3. AreActive(cur, V, s, kind)
    BY <1>2 DEF Actives, InSlot, AreActive
  <1>4. ln # NoLine => InSlot(KeyOf(s, ln), s, kind)
    BY <1>1, KindFacts
  <1> QED
    BY <1>1, <1>2, <1>3, <1>4 DEF AreActive

\* After a pass that only touched the line, or was about to.
LEMMA StandHeals ==
  ASSUME NEW bs \in Seq(BarShapes), NEW s \in DOMAIN Scales, NEW kind,
         NEW V, NEW M, NEW W, NEW Q, NEW Z, NEW ln, NEW cur, NEW len, NEW p,
         Resumed(V, M, Q, s, kind, bs), TwoPasses(V, M, W, Q, Z, s, kind, bs, ln, cur, len, p),
         Stands(V, s, ln, cur)
  PROVE  DOMAIN Z = DOMAIN Q /\ \A back : SlotHealed(Z, W, s, kind, back)
  <1> DEFINE key == KeyOf(s, ln)
             v == V[key]
             t == Touched(v, ln.touches)
  <1>1. /\ KindFound(bs, V, s, kind, ln, cur) /\ len \in Nat /\ p \in 0..len
        /\ StoodOn(M, V, key, ln, len, p) /\ StoodOn(W, V, key, ln, len, len)
    <2>1. /\ KindRun(M, V, bs, V, s, kind, ln, cur, len, p)
          /\ KindRun(W, V, bs, V, s, kind, ln, cur, len, len)
      BY DEF TwoPasses
    <2>2. StoodOn(M, V, key, ln, len, p)
      BY <2>1 DEF KindRun
    <2>3. StoodOn(W, V, key, ln, len, len)
      BY <2>1 DEF KindRun
    <2> QED
      BY <2>2, <2>3 DEF TwoPasses
  <1>2. /\ cur \subseteq DOMAIN V /\ One(cur)
        /\ \A x : x \in cur <=> x \in DOMAIN V /\ InSlot(x, s, kind) /\ V[x].status = "active"
        /\ \A x \in DOMAIN V : InSlot(x, s, kind) => Cleared(V[x], s, bs) = V[x]
    BY <1>1, SlotBefore DEF AreActive
  <1>3. key \in cur /\ ln # NoLine
    BY DEF Stands
  <1>4. cur = {key} /\ key \in DOMAIN V /\ InSlot(key, s, kind) /\ v.status = "active"
    BY <1>2, <1>3 DEF One
  <1>5. Shape(v)
    BY <1>4 DEF Resumed, Table
  <1>6. Shape(t) /\ SameLine(t, v) /\ t.status = "active" /\ Touched(t, ln.touches) = t
    <2> HIDE DEF v
    <2> QED
      BY <1>4, <1>5, TouchedIs
  <1>7. BreakAt(v, s, bs) = Never
    <2>1. Cleared(v, s, bs) = v
      BY <1>2, <1>4
    <2> HIDE DEF v
    <2>2. Cleared(v, s, bs).status = "active" => BreakAt(v, s, bs) = Never
      BY <1>5, ClearedTwice
    <2> QED
      BY <1>4, <2>1, <2>2
  <1>8. BreakAt(t, s, bs) = Never
    BY <1>6, <1>7, BrokenAlike DEF SameLine
  <1> HIDE DEF v, t, key
  <1>9. M[key] \in {v, t}
    BY <1>1 DEF StoodOn, v, t
  <1>10. key \in DOMAIN Q /\ Q[key] \in {v, t}
    <2>1. key \in DOMAIN M
      BY <1>1, <1>4 DEF StoodOn
    <2>2. key \in DOMAIN Q /\ Q[key] = Cleared(M[key], s, bs)
      BY <1>4, <2>1 DEF Resumed
    <2>3. Cleared(v, s, bs) = v /\ Cleared(t, s, bs) = t
      BY <1>7, <1>8, ClearedSame
    <2> QED
      BY <1>9, <2>2, <2>3
  <1>11. ASSUME NEW x, InSlot(x, s, kind), x # key PROVE Agree(Q, V, x)
    <2>1. Agree(M, V, x)
      BY <1>1, <1>11 DEF StoodOn, Leaves
    <2>2. x \in DOMAIN Q <=> x \in DOMAIN M
      BY <1>11 DEF Resumed
    <2>3. x \in DOMAIN Q => Q[x] = Cleared(M[x], s, bs)
      BY <1>11 DEF Resumed
    <2> QED
      BY <1>2, <1>11, <2>1, <2>2, <2>3 DEF Agree
  <1>12. PICK cur2 : cur2 = Current(Q, Actives(Q, s, kind))
    OBVIOUS
  <1>13. cur2 = {key}
    <2> DEFINE B == {key}
    <2>1. AreActive(B, Q, s, kind)
      BY <1>2, <1>4, <1>6, <1>10, <1>11 DEF Agree, AreActive
    <2>2. B = {key}
      OBVIOUS
    <2>3. Table(Q) /\ Numbered(Q)
      BY DEF Resumed
    <2> HIDE DEF B
    <2>4. \A x : B = {x} => Current(Q, Actives(Q, s, kind)) = {x}
      BY <2>1, <2>3, SlotCurrent DEF OldestOf
    <2> QED
      BY <1>12, <2>2, <2>4
  <1>14. PICK len2 \in Nat : KindRun(Z, Q, bs, Q, s, kind, ln, cur2, len2, len2)
    <2>1. KindFound(bs, Q, s, kind, ln, cur2)
      BY <1>1, <1>12 DEF KindFound
    <2> QED
      BY <2>1 DEF TwoPasses, GoesOn
  <1>15. StoodOn(Z, Q, key, ln, len2, len2)
    BY <1>3, <1>13, <1>14 DEF KindRun, Stands, key
  <1>16. DOMAIN Z = DOMAIN Q /\ Leaves(Z, Q, key) /\ Z[key] = Touched(Q[key], ln.touches)
    BY <1>15 DEF StoodOn
  <1>17. Z[key] = t
    BY <1>6, <1>10, <1>16 DEF t
  <1>18. W[key] = t /\ Leaves(W, V, key) /\ DOMAIN W = DOMAIN V
    BY <1>1 DEF StoodOn, t, v
  <1>19. ASSUME NEW x, InSlot(x, s, kind) PROVE Agree(Z, W, x)
    <2>1. CASE x = key
      BY <1>4, <1>10, <1>16, <1>17, <1>18, <2>1 DEF Agree
    <2>2. CASE x # key
      BY <1>11, <1>16, <1>18, <1>19, <2>2 DEF Agree, Leaves
    <2> QED
      BY <2>1, <2>2
  <1> QED
    BY <1>16, <1>19 DEF SlotHealed, Agree

\* A pass that finds a line active already only touches it,
TouchesOnly(Z, Q, key, ln) ==
  DOMAIN Z = DOMAIN Q /\ Z[key] = Touched(Q[key], ln.touches) /\ Leaves(Z, Q, key)

\* and ends the one that is older.
TakesOver(Z, Q, key, ln, a, at) ==
  /\ DOMAIN Z = DOMAIN Q /\ Z[key] = Touched(Q[key], ln.touches)
  /\ Succeeds(Z, Q, key, {a}, at)

\* The line found of a kind has its key.
FoundAs(ln, key, bs, s, kind) ==
  ln = Detect(bs, Scales[s], kind) /\ ln # NoLine /\ key = KeyOf(s, ln)

\* What a whole pass over a kind does when the line found is active already.
LEMMA GoesOnFrom ==
  ASSUME NEW bs \in Seq(BarShapes), NEW s \in DOMAIN Scales, NEW kind, NEW Q, Table(Q), Numbered(Q),
         NEW Z, NEW ln, GoesOn(Z, Q, s, kind, bs, ln),
         NEW key, FoundAs(ln, key, bs, s, kind), key \in DOMAIN Q, Q[key].status = "active"
  PROVE  /\ AreActive({key}, Q, s, kind) => TouchesOnly(Z, Q, key, ln)
         /\ \A a : AreActive({a, key}, Q, s, kind) /\ Q[key].id < Q[a].id => TouchesOnly(Z, Q, key, ln)
         /\ \A a : AreActive({a, key}, Q, s, kind) /\ Q[a].id < Q[key].id =>
              TakesOver(Z, Q, key, ln, a, Len(bs))
  <1>1. PICK cur : cur = Current(Q, Actives(Q, s, kind))
    OBVIOUS
  <1>2. PICK len \in Nat : KindRun(Z, Q, bs, Q, s, kind, ln, cur, len, len)
    <2>1. KindFound(bs, Q, s, kind, ln, cur)
      BY <1>1 DEF KindFound, FoundAs
    <2> QED
      BY <2>1 DEF GoesOn
  <1>3. cur = {key} => TouchesOnly(Z, Q, key, ln)
    <2> SUFFICES ASSUME cur = {key} PROVE TouchesOnly(Z, Q, key, ln)
      OBVIOUS
    <2>1. Stands(Q, s, ln, cur)
      BY DEF Stands, FoundAs
    <2>2. StoodOn(Z, Q, key, ln, len, len)
      BY <1>2, <2>1 DEF KindRun, FoundAs
    <2> QED
      BY <2>2 DEF StoodOn, TouchesOnly
  <1>4. ASSUME NEW a, cur = {a}, a # key PROVE TakesOver(Z, Q, key, ln, a, Len(bs))
    <2> DEFINE q == Q[key]
    <2>1. ComesBack(Q, s, ln, cur)
      BY <1>4 DEF ComesBack, FoundAs
    <2>2. CameBack(Z, Q, key, ln, cur, Len(bs), len, len)
      BY <1>2, <2>1 DEF KindRun, FoundAs
    <2>3. DOMAIN Z = DOMAIN Q /\ Z[key] = Returned(q, ln) /\ Succeeds(Z, Q, key, {a}, Len(bs))
      BY <1>4, <2>2 DEF CameBack
    <2>4. Shape(q) /\ q.status # "replaced"
      BY DEF Table
    <2> HIDE DEF q
    <2>5. Revived(q) = q
      BY <2>4, RevivedIs
    <2>6. Returned(q, ln) = Touched(q, ln.touches)
      BY <2>5 DEF Returned
    <2> QED
      BY <2>3, <2>6 DEF TakesOver, q
  <1>5. /\ \A B : AreActive(B, Q, s, kind) => \A x : B = {x} => cur = {x}
        /\ \A B : AreActive(B, Q, s, kind) =>
             \A x, y : B = {x, y} /\ Q[x].id < Q[y].id => cur = {x}
    <2> SUFFICES ASSUME NEW B, AreActive(B, Q, s, kind)
                 PROVE  /\ \A x : B = {x} => cur = {x}
                        /\ \A x, y : B = {x, y} /\ Q[x].id < Q[y].id => cur = {x}
      OBVIOUS
    <2>1. OldestOf(B, Q, Current(Q, Actives(Q, s, kind)))
      BY SlotCurrent
    <2>2. OldestOf(B, Q, cur)
      BY <1>1, <2>1
    <2> QED
      BY <2>2 DEF OldestOf
  <1>6. AreActive({key}, Q, s, kind) => cur = {key}
    BY <1>5
  <1>7. ASSUME NEW a, AreActive({a, key}, Q, s, kind)
        PROVE  /\ Q[key].id < Q[a].id => cur = {key}
               /\ Q[a].id < Q[key].id => cur = {a}
    <2>1. {a, key} = {key, a}
      OBVIOUS
    <2> QED
      BY <1>5, <1>7, <2>1
  <1>8. \A a : Q[a].id < Q[key].id => a # key
    <2>1. Q[key].id \in Nat
      BY DEF Table
    <2> QED
      BY <2>1
  <1> QED
    BY <1>3, <1>4, <1>6, <1>7, <1>8

\* The other lines of the kind, where a pass goes on.
LEMMA OthersThen ==
  ASSUME NEW bs, NEW s, NEW kind, NEW V, NEW M, NEW Q, Resumed(V, M, Q, s, kind, bs),
         NEW cur, AreActive(cur, V, s, kind), NEW key, InSlot(key, s, kind), NEW at,
         key \in DOMAIN Q, Q[key].status = "active"
  PROVE  /\ Leaves(M, V, key) =>
              /\ \A x : InSlot(x, s, kind) /\ x # key => Agree(Q, V, x)
              /\ AreActive(cur \cup {key}, Q, s, kind)
         /\ Succeeds(M, V, key, cur, at) =>
              /\ \A x : InSlot(x, s, kind) /\ x # key => Agree(Q, M, x)
              /\ AreActive({key}, Q, s, kind)
  <1>1. \A x : InSlot(x, s, kind) => /\ x \in DOMAIN Q <=> x \in DOMAIN M
                                     /\ x \in DOMAIN Q => Q[x] = Cleared(M[x], s, bs)
    BY DEF Resumed
  <1>2. \A x \in DOMAIN V : InSlot(x, s, kind) => Cleared(V[x], s, bs) = V[x]
    BY DEF Resumed
  <1>3. ASSUME Leaves(M, V, key)
        PROVE  /\ \A x : InSlot(x, s, kind) /\ x # key => Agree(Q, V, x)
               /\ AreActive(cur \cup {key}, Q, s, kind)
    <2>1. ASSUME NEW x, InSlot(x, s, kind), x # key PROVE Agree(Q, V, x)
      <3>1. Agree(M, V, x)
        BY <1>3, <2>1 DEF Leaves
      <3> QED
        BY <1>1, <1>2, <2>1, <3>1 DEF Agree
    <2>2. AreActive(cur \cup {key}, Q, s, kind)
      <3> SUFFICES ASSUME NEW x
                   PROVE  x \in cur \cup {key} <=> x \in DOMAIN Q /\ InSlot(x, s, kind) /\ Q[x].status = "active"
        BY DEF AreActive
      <3>1. x \in cur <=> x \in DOMAIN V /\ InSlot(x, s, kind) /\ V[x].status = "active"
        BY DEF AreActive
      <3> QED
        BY <2>1, <3>1 DEF Agree
    <2> QED
      BY <2>1, <2>2
  <1>4. ASSUME Succeeds(M, V, key, cur, at)
        PROVE  /\ \A x : InSlot(x, s, kind) /\ x # key => Agree(Q, M, x)
               /\ AreActive({key}, Q, s, kind)
    <2>1. ASSUME NEW x, InSlot(x, s, kind), x # key
          PROVE  Agree(Q, M, x) /\ (x \in DOMAIN Q => Q[x].status # "active")
      <3>1. x \in cur <=> x \in DOMAIN V /\ V[x].status = "active"
        BY <2>1 DEF AreActive
      <3>2. CASE x \in cur
        <4> DEFINE r == V[x]
                   e == Ended(r, "replaced", at)
        <4>1. Shape(r)
          BY <3>1, <3>2 DEF Resumed, Table
        <4>2. M[x] = e
          BY <1>4, <2>1, <3>2 DEF Succeeds
        <4> HIDE DEF r
        <4>3. e.status # "active"
          BY <4>1, EndedIs
        <4> HIDE DEF e
        <4>4. Cleared(e, s, bs) = e
          BY <4>3, ClearedSame
        <4> QED
          BY <1>1, <2>1, <4>2, <4>3, <4>4 DEF Agree
      <3>3. CASE x \notin cur
        <4>1. Agree(M, V, x)
          BY <1>4, <2>1, <3>3 DEF Succeeds
        <4> QED
          BY <1>1, <1>2, <2>1, <3>1, <3>3, <4>1 DEF Agree
      <3> QED
        BY <3>2, <3>3
    <2> QED
      BY <2>1 DEF AreActive
  <1> QED
    BY <1>3, <1>4

\* A pass heals the lines of a kind when it finds the new line active.
LEMMA HealsTo ==
  ASSUME NEW bs \in Seq(BarShapes), NEW s \in DOMAIN Scales, NEW kind,
         NEW V, NEW M, NEW W, NEW Q, NEW Z, NEW ln, NEW key, NEW cur, NEW back,
         Resumed(V, M, Q, s, kind, bs), GoesOn(Z, Q, s, kind, bs, ln), FoundAs(ln, key, bs, s, kind),
         InSlot(key, s, kind), AreActive(cur, V, s, kind), One(cur), key \notin cur,
         M = W \/ Leaves(M, V, key), Succeeds(W, V, key, cur, Len(bs)),
         key \in DOMAIN W, DOMAIN V \subseteq DOMAIN W,
         key \in DOMAIN Q, Q[key].status = "active", Touched(Q[key], ln.touches) = W[key],
         key \in back \/ \A a \in cur : V[a].id < Q[key].id
  PROVE  DOMAIN Z = DOMAIN Q /\ SlotHealed(Z, W, s, kind, back)
  <1>1. Table(Q) /\ Numbered(Q) /\ Table(V)
    BY DEF Resumed
  <1>2. /\ Leaves(M, V, key) =>
             /\ \A x : InSlot(x, s, kind) /\ x # key => Agree(Q, V, x)
             /\ AreActive(cur \cup {key}, Q, s, kind)
        /\ Succeeds(M, V, key, cur, Len(bs)) =>
             /\ \A x : InSlot(x, s, kind) /\ x # key => Agree(Q, M, x)
             /\ AreActive({key}, Q, s, kind)
    BY OthersThen
  <1>3. /\ AreActive({key}, Q, s, kind) => TouchesOnly(Z, Q, key, ln)
        /\ \A a : AreActive({a, key}, Q, s, kind) /\ Q[key].id < Q[a].id => TouchesOnly(Z, Q, key, ln)
        /\ \A a : AreActive({a, key}, Q, s, kind) /\ Q[a].id < Q[key].id =>
             TakesOver(Z, Q, key, ln, a, Len(bs))
    BY <1>1, GoesOnFrom
  <1>4. ASSUME TouchesOnly(Z, Q, key, ln), NEW x, InSlot(x, s, kind),
               x = key \/ Agree(Q, W, x)
        PROVE  Agree(Z, W, x)
    BY <1>4 DEF TouchesOnly, Leaves, Agree
  <1>5. CASE M = W
    <2>1. TouchesOnly(Z, Q, key, ln) /\ \A x : InSlot(x, s, kind) /\ x # key => Agree(Q, W, x)
      BY <1>2, <1>3, <1>5
    <2>2. \A x : InSlot(x, s, kind) => Agree(Z, W, x)
      BY <1>4, <2>1
    <2> QED
      BY <2>1, <2>2 DEF SlotHealed, Agree, TouchesOnly
  <1>6. CASE Leaves(M, V, key) /\ cur = {}
    <2>1. AreActive({key}, Q, s, kind) /\ \A x : InSlot(x, s, kind) /\ x # key => Agree(Q, V, x)
      <3>1. cur \cup {key} = {key}
        BY <1>6
      <3> QED
        BY <1>2, <1>6, <3>1
    <2>2. \A x : x # key => Agree(W, V, x)
      BY <1>6 DEF Succeeds
    <2>3. TouchesOnly(Z, Q, key, ln)
      BY <1>3, <2>1
    <2>4. \A x : InSlot(x, s, kind) => Agree(Z, W, x)
      BY <1>4, <2>1, <2>2, <2>3 DEF Agree
    <2> QED
      BY <2>3, <2>4 DEF SlotHealed, Agree, TouchesOnly
  <1>7. CASE Leaves(M, V, key) /\ cur # {}
    <2>1. PICK a \in cur : cur = {a}
      <3>1. PICK a \in cur : TRUE
        BY <1>7
      <3>2. cur = {a}
        BY DEF One
      <3> QED
        BY <3>2
    <2>2. a # key /\ InSlot(a, s, kind) /\ a \in DOMAIN V
      BY <2>1 DEF AreActive
    <2>3. AreActive({a, key}, Q, s, kind)
      <3>1. cur \cup {key} = {a, key}
        BY <2>1
      <3> QED
        BY <1>2, <1>7, <3>1
    <2>4. \A x : InSlot(x, s, kind) /\ x # key => Agree(Q, V, x)
      BY <1>2, <1>7
    <2>5. a \in DOMAIN Q /\ Q[a] = V[a] /\ a \in DOMAIN W
      BY <2>2, <2>4 DEF Agree
    <2>6. Q[a].id < Q[key].id \/ Q[key].id < Q[a].id
      <3>1. Q[a].id \in Nat /\ Q[key].id \in Nat
        BY <1>1, <2>5 DEF Table
      <3>2. Q[a].id # Q[key].id
        BY <1>1, <2>2, <2>5 DEF Numbered
      <3> QED
        BY <3>1, <3>2
    <2>7. /\ W[a] = Ended(V[a], "replaced", Len(bs))
          /\ \A x : x # key /\ x # a => Agree(W, V, x)
      BY <2>1, <2>2 DEF Succeeds
    <2>8. CASE Q[a].id < Q[key].id
      <3>1. TakesOver(Z, Q, key, ln, a, Len(bs))
        BY <1>3, <2>3, <2>8
      <3>2. /\ DOMAIN Z = DOMAIN Q /\ Z[key] = W[key]
            /\ Z[a] = Ended(Q[a], "replaced", Len(bs))
            /\ \A x : x # key /\ x # a => Agree(Z, Q, x)
        BY <2>2, <3>1 DEF TakesOver, Succeeds
      <3>3. ASSUME NEW x, InSlot(x, s, kind) PROVE Agree(Z, W, x)
        <4>1. CASE x = key
          BY <3>2, <4>1 DEF Agree
        <4>2. CASE x = a
          BY <2>5, <2>7, <3>2, <4>2 DEF Agree
        <4>3. CASE x # key /\ x # a
          BY <2>4, <2>7, <3>2, <3>3, <4>3 DEF Agree
        <4> QED
          BY <4>1, <4>2, <4>3
      <3> QED
        BY <3>2, <3>3 DEF SlotHealed, Agree
    <2>9. CASE Q[key].id < Q[a].id
      <3>1. TouchesOnly(Z, Q, key, ln)
        BY <1>3, <2>3, <2>9
      <3>2. DOMAIN Z = DOMAIN Q /\ Z[a] = Q[a] /\ Z[key] = Touched(Q[key], ln.touches)
        BY <2>2, <2>5, <3>1 DEF TouchesOnly, Leaves, Agree
      <3>3. Z[key].id = Q[key].id
        <4> DEFINE q == Q[key]
        <4>1. Shape(q)
          BY <1>1 DEF Table
        <4> HIDE DEF q
        <4>2. SameLine(Touched(q, ln.touches), q)
          BY <4>1, TouchedIs
        <4> QED
          BY <3>2, <4>2 DEF SameLine, q
      <3>4. ASSUME NEW x, InSlot(x, s, kind), x # a PROVE Agree(Z, W, x)
        BY <1>4, <2>4, <2>7, <3>1, <3>4 DEF Agree
      <3>5. key \in back
        <4>1. Q[a].id \in Nat /\ Q[key].id \in Nat
          BY <1>1, <2>5 DEF Table
        <4> QED
          BY <2>5, <2>9, <4>1
      <3>6. Z[key].id < Z[a].id /\ key \in DOMAIN Z
        BY <2>9, <3>2, <3>3
      <3> QED
        BY <2>5, <3>2, <3>4, <3>5, <3>6 DEF SlotHealed, Agree
    <2> QED
      BY <2>6, <2>8, <2>9
  <1> QED
    BY <1>5, <1>6, <1>7

\* After a pass that stopped with a new line stored.
LEMMA NewHeals ==
  ASSUME NEW bs \in Seq(BarShapes), NEW s \in DOMAIN Scales, NEW kind,
         NEW V, NEW M, NEW W, NEW Q, NEW Z, NEW ln, NEW cur, NEW len, NEW p,
         Resumed(V, M, Q, s, kind, bs), TwoPasses(V, M, W, Q, Z, s, kind, bs, ln, cur, len, p),
         IsNew(V, s, bs, ln, cur), 0 < p
  PROVE  DOMAIN Z = DOMAIN Q /\ \A back : SlotHealed(Z, W, s, kind, back)
  <1> DEFINE key == KeyOf(s, ln)
             at == Len(bs)
             i == Cardinality(DOMAIN V) + 1
             row == Row(ln, at, i)
  <1>1. /\ KindFound(bs, V, s, kind, ln, cur) /\ len \in Nat /\ p \in 0..len
        /\ p = len => M = W
        /\ GoesOn(Z, Q, s, kind, bs, ln)
        /\ KindRun(M, V, bs, V, s, kind, ln, cur, len, p)
        /\ KindRun(W, V, bs, V, s, kind, ln, cur, len, len)
    BY DEF TwoPasses
  <1>2. WasNew(M, V, key, ln, cur, at, len, p)
    BY <1>1 DEF KindRun
  <1>3. WasNew(W, V, key, ln, cur, at, len, len)
    BY <1>1 DEF KindRun
  <1>4. ln # NoLine /\ key \notin DOMAIN V \cup cur /\ FitToStore(ln, bs, Scales[s])
    BY DEF IsNew
  <1>5. AreActive(cur, V, s, kind) /\ One(cur) /\ InSlot(key, s, kind)
    BY <1>1, <1>4, SlotBefore
  <1>6. FoundAs(ln, key, bs, s, kind)
    BY <1>1, <1>4 DEF FoundAs, KindFound
  <1>7. /\ Shape(row) /\ row.status = "active" /\ row.touches = ln.touches /\ row.id = i
        /\ BreakAt(row, s, bs) = BreakAt(ln, s, bs)
    <2> HIDE DEF at, i
    <2>1. Shape(row) /\ row.status = "active" /\ row.touches = ln.touches /\ row.id = i
      BY DEF Row, Shape
    <2>2. row.t1 = ln.t1 /\ row.p1 = ln.p1 /\ row.t2 = ln.t2 /\ row.p2 = ln.p2 /\ row.kind = ln.kind
      BY DEF Row
    <2> HIDE DEF row
    <2> QED
      BY <2>1, <2>2, BrokenAlike
  <1>8. BreakAt(ln, s, bs) = Never
    BY <1>4 DEF FitToStore, BreakAt
  <1> HIDE DEF key, row
  <1>9. Touched(row, ln.touches) = row
    BY <1>7, TouchedIs
  <1>10. /\ DOMAIN M = DOMAIN V \cup {key} /\ M[key] = row
         /\ p < len => Leaves(M, V, key)
    BY <1>2 DEF WasNew, row
  <1>11. /\ DOMAIN W = DOMAIN V \cup {key} /\ W[key] = row
         /\ Succeeds(W, V, key, cur, at)
    BY <1>1, <1>3 DEF WasNew, row
  <1>12. key \in DOMAIN Q /\ Q[key] = row
    <2>1. key \in DOMAIN Q /\ Q[key] = Cleared(row, s, bs)
      BY <1>5, <1>10 DEF Resumed
    <2> QED
      BY <1>7, <1>8, <2>1, ClearedSame
  <1>13. M = W \/ Leaves(M, V, key)
    BY <1>1, <1>10
  <1>14. \A a \in cur : V[a].id < Q[key].id
    <2> SUFFICES ASSUME NEW a \in cur PROVE V[a].id < Q[key].id
      OBVIOUS
    <2> DEFINE n == Cardinality(DOMAIN V)
    <2>1. a \in DOMAIN V
      BY <1>5 DEF AreActive
    <2>2. V[a].id \in 1..n
      BY <2>1 DEF Resumed, Numbered
    <2>3. n \in Nat
      BY FS_CardinalityType DEF Resumed, Table
    <2>4. Q[key].id = n + 1
      BY <1>7, <1>12
    <2> HIDE DEF n
    <2> QED
      BY <2>2, <2>3, <2>4
  <1>15. /\ Touched(Q[key], ln.touches) = W[key] /\ Q[key].status = "active"
         /\ key \notin cur /\ key \in DOMAIN W /\ DOMAIN V \subseteq DOMAIN W
    BY <1>4, <1>7, <1>9, <1>11, <1>12 DEF key
  <1> HIDE DEF at, i
  <1>16. Succeeds(W, V, key, cur, Len(bs))
    BY <1>11 DEF at
  <1>17. GoesOn(Z, Q, s, kind, bs, ln)
    BY <1>1
  <1>18. ASSUME NEW back PROVE DOMAIN Z = DOMAIN Q /\ SlotHealed(Z, W, s, kind, back)
    BY <1>5, <1>6, <1>12, <1>13, <1>14, <1>15, <1>16, <1>17, HealsTo
  <1> QED
    BY <1>18

\* After one that stopped with an old line revived.
LEMMA ReturnHeals ==
  ASSUME NEW bs \in Seq(BarShapes), NEW s \in DOMAIN Scales, NEW kind,
         NEW V, NEW M, NEW W, NEW Q, NEW Z, NEW ln, NEW cur, NEW len, NEW p, NEW back,
         Resumed(V, M, Q, s, kind, bs), TwoPasses(V, M, W, Q, Z, s, kind, bs, ln, cur, len, p),
         ComesBack(V, s, ln, cur), 0 < p, KeyOf(s, ln) \in back
  PROVE  DOMAIN Z = DOMAIN Q /\ SlotHealed(Z, W, s, kind, back)
  <1> DEFINE key == KeyOf(s, ln)
             at == Len(bs)
             v == V[key]
             revived == Revived(v)
             ret == Returned(v, ln)
  <1>1. /\ KindFound(bs, V, s, kind, ln, cur) /\ len \in Nat /\ p \in 0..len
        /\ p = len => M = W
        /\ GoesOn(Z, Q, s, kind, bs, ln)
        /\ KindRun(M, V, bs, V, s, kind, ln, cur, len, p)
        /\ KindRun(W, V, bs, V, s, kind, ln, cur, len, len)
    BY DEF TwoPasses
  <1>2. CameBack(M, V, key, ln, cur, at, len, p)
    BY <1>1 DEF KindRun
  <1>3. CameBack(W, V, key, ln, cur, at, len, len)
    BY <1>1 DEF KindRun
  <1>4. ln # NoLine /\ key \in DOMAIN V /\ key \notin cur /\ v.status # "broken"
    BY DEF ComesBack
  <1>5. AreActive(cur, V, s, kind) /\ One(cur) /\ InSlot(key, s, kind)
    BY <1>1, <1>4, SlotBefore
  <1>6. FoundAs(ln, key, bs, s, kind)
    BY <1>1, <1>4 DEF FoundAs, KindFound
  <1>7. Shape(v) /\ v.status = "replaced"
    <2>1. v.status # "active"
      BY <1>4, <1>5 DEF AreActive
    <2>2. v.status \in {"active", "broken", "replaced"} /\ Shape(v)
      BY <1>4 DEF Resumed, Numbered, Table
    <2> QED
      BY <1>4, <2>1, <2>2
  <1> HIDE DEF v
  <1>8. Shape(revived) /\ SameLine(revived, v) /\ revived.status = "active"
    BY <1>7, RevivedIs
  <1> HIDE DEF revived
  <1>9. ret = Touched(revived, ln.touches)
    BY DEF Returned, revived
  <1> HIDE DEF ret
  <1>10. /\ Shape(ret) /\ ret.status = "active" /\ Touched(ret, ln.touches) = ret
    <2> DEFINE x == ln.touches
    <2> HIDE DEF x
    <2>1. /\ Shape(Touched(revived, x)) /\ Touched(revived, x).status = "active"
          /\ Touched(Touched(revived, x), x) = Touched(revived, x)
      BY <1>8, TouchedIs
    <2> QED
      BY <1>9, <2>1 DEF x
  <1> HIDE DEF key
  <1>11. /\ DOMAIN M = DOMAIN V
         /\ p < len => M[key] \in {revived, ret} /\ Leaves(M, V, key)
         /\ p = len => M[key] = ret
    BY <1>2 DEF CameBack, revived, ret, v
  <1>12. DOMAIN W = DOMAIN V /\ W[key] = ret /\ Succeeds(W, V, key, cur, at)
    BY <1>3 DEF CameBack, ret, v
  <1>13. PICK m : m = M[key]
    OBVIOUS
  <1>14. m \in {revived, ret}
    BY <1>1, <1>11, <1>13
  <1>15. Shape(m) /\ m.status = "active" /\ Touched(m, ln.touches) = ret
    BY <1>8, <1>9, <1>10, <1>14
  <1>16. key \in DOMAIN Q /\ Q[key] = Cleared(m, s, bs)
    BY <1>4, <1>5, <1>11, <1>13 DEF Resumed, key
  <1>17. CASE BreakAt(m, s, bs) = Never
    <2>1. Q[key] = m
      BY <1>16, <1>17, ClearedSame
    <2>2. /\ Touched(Q[key], ln.touches) = W[key] /\ Q[key].status = "active" /\ key \in back
          /\ key \notin cur /\ key \in DOMAIN W /\ DOMAIN V \subseteq DOMAIN W
      BY <1>4, <1>12, <1>15, <2>1 DEF key
    <2>3. M = W \/ Leaves(M, V, key)
      BY <1>1, <1>11
    <2> HIDE DEF at
    <2>4. Succeeds(W, V, key, cur, Len(bs))
      BY <1>12 DEF at
    <2> QED
      BY <1>1, <1>5, <1>6, <1>16, <2>2, <2>3, <2>4, HealsTo
  <1>18. CASE BreakAt(m, s, bs) # Never
    <2>1. Q[key].status = "broken"
      <3> DEFINE w == BreakAt(m, s, bs)
                 b == "broken"
      <3>1. Q[key] = Ended(m, b, w)
        BY <1>15, <1>16, <1>18, ClearedSame
      <3> HIDE DEF w, b
      <3>2. Ended(m, b, w).status = b
        BY <1>15, EndedSets
      <3> QED
        BY <3>1, <3>2 DEF b
    <2>2. PICK cur2 : KindFound(bs, Q, s, kind, ln, cur2)
      BY <1>1 DEF KindFound
    <2>3. PICK len2 \in Nat : KindRun(Z, Q, bs, Q, s, kind, ln, cur2, len2, len2)
      BY <1>1, <2>2 DEF GoesOn
    <2>4. key \notin cur2
      <3>1. cur2 \subseteq Actives(Q, s, kind)
        BY <2>2 DEF KindFound, Current
      <3> QED
        BY <2>1, <3>1 DEF Actives
    <2>5. NoChange(Q, s, bs, ln, cur2)
      BY <1>16, <2>1, <2>4 DEF NoChange, key
    <2>6. Z = Q
      BY <2>3, <2>5 DEF KindRun
    <2>7. \A x : InSlot(x, s, kind) => (x \in DOMAIN Q <=> x \in DOMAIN W)
      BY <1>11, <1>12 DEF Resumed
    <2>8. key \in back
      BY DEF key
    <2> QED
      BY <1>5, <1>16, <2>1, <2>6, <2>7, <2>8 DEF SlotHealed
  <1> QED
    BY <1>17, <1>18

\* The archive forgets no line,
LEMMA DomainsGrow ==
  ASSUME NEW bs, NEW cs, Listed(cs, bs), NEW tab, Table(tab)
  PROVE  \A n \in 0..Len(cs) : \A m \in 0..n : DOMAIN After(tab, cs, m) \subseteq DOMAIN After(tab, cs, n)
  <1> DEFINE b == Len(cs)
             D(n) == DOMAIN After(tab, cs, n)
             good == {n \in 0..b : \A m \in 0..n : D(m) \subseteq D(n)}
  <1>1. b \in Nat
    BY ListedLen
  <1>2. \A n \in 0..b : Table(After(tab, cs, n))
    BY Untouched
  <1>3. ASSUME NEW n \in 1..b PROVE D(n - 1) \subseteq D(n)
    <2>1. n - 1 \in 0..b
      BY <1>1
    <2>2. RowsOf(After(tab, cs, n), After(tab, cs, n - 1), cs[n])
      BY <1>2, <2>1, NextRows
    <2> QED
      BY <2>2 DEF RowsOf
  <1> HIDE DEF D
  <1>4. 0 \in good
    BY <1>1
  <1>5. ASSUME NEW n \in 1..b, n - 1 \in good PROVE n \in good
    <2>1. n \in 0..b /\ \A m \in 0..n : m \in 0..(n - 1) \/ m = n
      BY <1>1
    <2> QED
      BY <1>3, <1>5, <2>1
  <1> HIDE DEF good
  <1>6. \A n \in 0..b : n \in good
    <2> HIDE DEF b
    <2> QED
      BY <1>1, <1>4, <1>5, CountingUp
  <1> QED
    BY <1>6 DEF good, D

\* and what a commit does not name is not changed.
LEMMA AgreeAlong ==
  ASSUME NEW bs, NEW cs, Listed(cs, bs), NEW tab, Table(tab), NEW lo \in 0..Len(cs), NEW x
  PROVE  \A n \in 0..Len(cs) :
           lo <= n /\ (\A i \in (lo + 1)..n : cs[i].key # x) =>
             Agree(After(tab, cs, n), After(tab, cs, lo), x)
  <1> DEFINE b == Len(cs)
             A(n) == After(tab, cs, n)
             off(n) == \A i \in (lo + 1)..n : cs[i].key # x
             good == {n \in 0..b : lo <= n /\ off(n) => Agree(A(n), A(lo), x)}
  <1>1. b \in Nat /\ lo \in Nat
    BY ListedLen
  <1>2. \A n \in 0..b : Table(A(n))
    BY Untouched
  <1>3. 0 \in good
    <2>1. lo <= 0 => lo = 0
      BY <1>1
    <2>2. Agree(A(0), A(0), x)
      BY DEF Agree
    <2> HIDE DEF A
    <2> QED
      BY <1>1, <2>1, <2>2
  <1>4. ASSUME NEW n \in 1..b, n - 1 \in good PROVE n \in good
    <2>1. n - 1 \in 0..b /\ n \in 0..b /\ n - 1 \in Int /\ n \in Int
      BY <1>1
    <2>2. RowsOf(A(n), A(n - 1), cs[n])
      BY <1>2, <2>1, NextRows
    <2> HIDE DEF A
    <2>3. SUFFICES ASSUME lo <= n, off(n) PROVE Agree(A(n), A(lo), x)
      BY <2>1
    <2>4. CASE lo = n
      BY <2>4 DEF Agree
    <2>5. CASE lo # n
      <3>1. lo <= n - 1 /\ n \in (lo + 1)..n /\ \A i \in (lo + 1)..(n - 1) : i \in (lo + 1)..n
        BY <1>1, <2>1, <2>3, <2>5
      <3>2. Agree(A(n - 1), A(lo), x)
        BY <1>4, <2>3, <3>1
      <3>3. Agree(A(n), A(n - 1), x)
        BY <2>2, <2>3, <3>1 DEF RowsOf
      <3> QED
        BY <3>2, <3>3 DEF Agree
    <2> QED
      BY <2>4, <2>5
  <1> HIDE DEF good
  <1>5. \A n \in 0..b : n \in good
    <2> HIDE DEF b
    <2> QED
      BY <1>1, <1>3, <1>4, CountingUp
  <1> QED
    BY <1>5 DEF good

\* The lines brought back.
Back(cs) == {cs[i].key : i \in {j \in 1..Len(cs) : cs[j].op = "revive"}}

\* A line that comes back is among those brought back.
LEMMA ReturnsBack ==
  ASSUME NEW bs \in Seq(BarShapes), NEW s \in DOMAIN Scales, NEW kind, NEW L, Table(L), Numbered(L),
         NEW ln, NEW cur, KindFound(bs, L, s, kind, ln, cur), ComesBack(L, s, ln, cur),
         NEW K, K = KindCommits(L, s, bs, kind)
  PROVE  KeyOf(s, ln) \in Back(K)
  <1> DEFINE key == KeyOf(s, ln)
             c == ReviveOf(s, ln)
             d == TouchOf(s, ln)
             at == Len(bs)
  <1>1. K = Changes(L, s, bs, at, ln, cur) /\ cur \subseteq DOMAIN L /\ One(cur)
    BY KindFacts
  <1>2. PICK a : cur = {} \/ cur = {a}
    <2>1. CASE cur = {}
      BY <2>1
    <2>2. CASE cur # {}
      <3>1. PICK a \in cur : TRUE
        BY <2>2
      <3>2. cur = {a}
        BY <1>1 DEF One
      <3> QED
        BY <3>2
    <2> QED
      BY <2>1, <2>2
  <1> DEFINE e == End(a, "replaced", at)
  <1>3. ChangesList(K, L, s, bs, ln, at, cur, a)
    BY <1>1, <1>2, ChangesAre
  <1>4. K = <<c, d>> \/ K = <<c, d, e>>
    BY <1>3 DEF ChangesList
  <1>5. c.op = "revive" /\ c.key = key
    BY DEF ReviveOf
  <1> HIDE DEF c, d, e, key
  <1>6. Len(K) >= 1 /\ Len(K) \in Nat /\ K[1] = c
    <2>1. K = <<c, d>> => Len(K) = 2 /\ K[1] = c
      OBVIOUS
    <2>2. K = <<c, d, e>> => Len(K) = 3 /\ K[1] = c
      OBVIOUS
    <2>3. Len(K) \in {2, 3} /\ K[1] = c
      BY <1>4, <2>1, <2>2
    <2> HIDE DEF c, d, e
    <2> QED
      BY <2>3
  <1>7. 1 \in {j \in 1..Len(K) : K[j].op = "revive"}
    BY <1>5, <1>6
  <1> QED
    BY <1>5, <1>6, <1>7 DEF Back, key

\* A pass stopped after p of the commits K for a kind, and the next one meets it.
Meets(V, M, W, Q, Z, K, J, p, s, kind, bs, back) ==
  /\ Resumed(V, M, Q, s, kind, bs) /\ p \in 0..Len(K)
  /\ K = KindCommits(V, s, bs, kind) /\ M = After(V, K, p) /\ W = After(V, K, Len(K))
  /\ J = KindCommits(Q, s, bs, kind) /\ Z = After(Q, J, Len(J))
  /\ DOMAIN V \subseteq DOMAIN Q
  /\ p = 0 /\ Len(K) # 0 => DOMAIN Q = DOMAIN V
  /\ p # 0 => DOMAIN W \subseteq DOMAIN Q
  /\ Back(K) \subseteq back

\* The pass over one kind is healed, wherever it stopped.
LEMMA KindHeals ==
  ASSUME NEW bs \in Seq(BarShapes), NEW s \in DOMAIN Scales, NEW kind,
         NEW V, NEW M, NEW W, NEW Q, NEW Z, NEW K, NEW N, NEW p, NEW back,
         Meets(V, M, W, Q, Z, K, N, p, s, kind, bs, back)
  PROVE  DOMAIN Z = DOMAIN Q \cup DOMAIN W /\ SlotHealed(Z, W, s, kind, back)
  <1>0. /\ Resumed(V, M, Q, s, kind, bs) /\ p \in 0..Len(K)
        /\ K = KindCommits(V, s, bs, kind) /\ M = After(V, K, p) /\ W = After(V, K, Len(K))
        /\ N = KindCommits(Q, s, bs, kind) /\ Z = After(Q, N, Len(N))
        /\ DOMAIN V \subseteq DOMAIN Q
        /\ (p = 0 /\ Len(K) # 0 => DOMAIN Q = DOMAIN V)
        /\ (p # 0 => DOMAIN W \subseteq DOMAIN Q)
        /\ Back(K) \subseteq back
    BY DEF Meets
  <1> USE <1>0
  <1> DEFINE len == Len(K)
  <1>1. /\ Table(V) /\ Numbered(V) /\ Table(Q) /\ Numbered(Q)
        /\ \A x \in DOMAIN V : InSlot(x, s, kind) => Cleared(V[x], s, bs) = V[x]
        /\ \A x : InSlot(x, s, kind) => /\ x \in DOMAIN Q <=> x \in DOMAIN M
                                        /\ x \in DOMAIN Q => Q[x] = Cleared(M[x], s, bs)
    BY DEF Resumed
  <1>2. PICK ln : ln = Detect(bs, Scales[s], kind)
    OBVIOUS
  <1>3. PICK cur : cur = Current(V, Actives(V, s, kind))
    OBVIOUS
  <1>4. KindFound(bs, V, s, kind, ln, cur)
    BY <1>2, <1>3 DEF KindFound
  <1>5. /\ Listed(K, bs) /\ len \in Nat
        /\ \/ NoChange(V, s, bs, ln, cur) \/ Stands(V, s, ln, cur)
           \/ ComesBack(V, s, ln, cur) \/ IsNew(V, s, bs, ln, cur)
    BY <1>1, <1>4, KindFacts
  <1>6. p \in 0..len /\ len \in 0..len
    BY <1>5
  <1>7. \A x : Agree(V, V, x) /\ Agree(Q, Q, x)
    BY DEF Agree
  <1>8. KindRun(M, V, bs, V, s, kind, ln, cur, len, p)
    BY <1>1, <1>4, <1>6, <1>7, KindRuns
  <1>9. KindRun(W, V, bs, V, s, kind, ln, cur, len, len)
    BY <1>1, <1>4, <1>6, <1>7, KindRuns
  <1>10. GoesOn(Z, Q, s, kind, bs, ln)
    <2> SUFFICES ASSUME NEW c, KindFound(bs, Q, s, kind, ln, c)
                 PROVE  \E l \in Nat : KindRun(Z, Q, bs, Q, s, kind, ln, c, l, l)
      BY DEF GoesOn
    <2>1. Len(N) \in Nat
      BY <1>1, KindFacts
    <2>2. Len(N) \in 0..Len(N)
      BY <2>1
    <2>3. KindRun(Z, Q, bs, Q, s, kind, ln, c, Len(N), Len(N))
      BY <1>1, <1>7, <2>2, KindRuns
    <2> QED
      BY <2>1, <2>3
  <1>11. TwoPasses(V, M, W, Q, Z, s, kind, bs, ln, cur, len, p)
    <2>1. p = len => M = W
      OBVIOUS
    <2> HIDE DEF len
    <2> QED
      BY <1>4, <1>5, <1>6, <1>8, <1>9, <1>10, <2>1 DEF TwoPasses
  <1>12. DOMAIN V \subseteq DOMAIN W
    <2>1. 0 \in 0..len /\ After(V, K, 0) = V
      BY <1>5, AfterSteps
    <2>2. \A n \in 0..len : \A m \in 0..n : DOMAIN After(V, K, m) \subseteq DOMAIN After(V, K, n)
      BY <1>1, <1>5, DomainsGrow
    <2>3. DOMAIN After(V, K, 0) \subseteq DOMAIN After(V, K, len)
      BY <1>6, <2>1, <2>2
    <2> QED
      BY <2>1, <2>3
  <1>13. CASE p = 0
    <2>1. M = V
      BY <1>13, AfterSteps
    <2>2. \A x : InSlot(x, s, kind) => Agree(Q, V, x)
      BY <1>1, <2>1 DEF Agree
    <2>3. N = K
      BY <2>2, KindAlike
    <2>4. Puts(K) => len # 0
      BY DEF Puts
    <2>5. Puts(K) => DOMAIN Q = DOMAIN V
      BY <1>13, <2>4
    <2>6. /\ \A x : Agree(Q, V, x) => Agree(After(Q, K, len), After(V, K, len), x)
          /\ DOMAIN Q = DOMAIN V => DOMAIN After(Q, K, len) = DOMAIN After(V, K, len)
      BY <1>1, <1>5, <1>6, <2>5, AfterAlike
    <2>7. Z = After(Q, K, len)
      BY <2>3
    <2>8. /\ \A x : Agree(Q, V, x) => Agree(Z, W, x)
          /\ DOMAIN Q = DOMAIN V => DOMAIN Z = DOMAIN W
      BY <2>6, <2>7
    <2>9. len = 0 => Z = Q /\ W = V
      <3> SUFFICES ASSUME len = 0 PROVE Z = Q /\ W = V
        OBVIOUS
      <3>1. After(Q, K, 0) = Q /\ After(V, K, 0) = V
        BY AfterSteps
      <3> QED
        BY <2>7, <3>1
    <2>10. DOMAIN Z = DOMAIN Q \cup DOMAIN W
      <3>1. CASE len = 0
        BY <2>9, <3>1
      <3>2. CASE len # 0
        <4>1. DOMAIN Q = DOMAIN V /\ DOMAIN Z = DOMAIN W
          BY <1>13, <2>8, <3>2
        <4> QED
          BY <1>12, <4>1
      <3> QED
        BY <3>1, <3>2
    <2> QED
      BY <2>2, <2>8, <2>10 DEF SlotHealed, Agree
  <1>14. CASE p # 0
    <2>1. 0 < p /\ DOMAIN W \subseteq DOMAIN Q
      BY <1>5, <1>14
    <2>2. ASSUME DOMAIN Z = DOMAIN Q, SlotHealed(Z, W, s, kind, back)
          PROVE  DOMAIN Z = DOMAIN Q \cup DOMAIN W /\ SlotHealed(Z, W, s, kind, back)
      BY <2>1, <2>2
    <2>3. CASE NoChange(V, s, bs, ln, cur)
      <3>1. len = 0
        BY <1>8, <2>3 DEF KindRun
      <3> QED
        BY <1>14, <3>1
    <2>4. CASE Stands(V, s, ln, cur)
      BY <1>11, <2>2, <2>4, StandHeals
    <2>5. CASE IsNew(V, s, bs, ln, cur)
      BY <1>11, <2>1, <2>2, <2>5, NewHeals
    <2>6. CASE ComesBack(V, s, ln, cur)
      <3>1. KeyOf(s, ln) \in back
        BY <1>1, <1>4, <2>6, ReturnsBack
      <3> QED
        BY <1>11, <2>1, <2>2, <2>6, <3>1, ReturnHeals
    <2> QED
      BY <1>5, <2>3, <2>4, <2>5, <2>6
  <1> QED
    BY <1>13, <1>14

\* The commits for a kind change lines of that kind, and store at most a new one.
OfKind(K, L, s, kind) ==
  \A i \in 1..Len(K) : /\ InSlot(K[i].key, s, kind)
                       /\ K[i].op = "put" => i = 1 /\ K[i].key \notin DOMAIN L

\* Short lists of commits for a kind.
LEMMA FewOfKind ==
  ASSUME NEW L, NEW s, NEW kind
  PROVE  /\ OfKind(<<>>, L, s, kind)
         /\ \A c : InSlot(c.key, s, kind) /\ (c.op = "put" => c.key \notin DOMAIN L) =>
              OfKind(<<c>>, L, s, kind)
         /\ \A c, d : /\ InSlot(c.key, s, kind) /\ (c.op = "put" => c.key \notin DOMAIN L)
                      /\ InSlot(d.key, s, kind) /\ d.op # "put"
                      => OfKind(<<c, d>>, L, s, kind)
         /\ \A c, d, e : /\ InSlot(c.key, s, kind) /\ c.op # "put"
                         /\ InSlot(d.key, s, kind) /\ d.op # "put"
                         /\ InSlot(e.key, s, kind) /\ e.op # "put"
                         => OfKind(<<c, d, e>>, L, s, kind)
  <1>1. OfKind(<<>>, L, s, kind)
    BY DEF OfKind
  <1>2. ASSUME NEW c, InSlot(c.key, s, kind), c.op = "put" => c.key \notin DOMAIN L
        PROVE  OfKind(<<c>>, L, s, kind)
    <2> DEFINE K == <<c>>
    <2>1. \A i \in 1..Len(K) : i = 1 /\ K[i] = c
      OBVIOUS
    <2> HIDE DEF K
    <2>2. OfKind(K, L, s, kind)
      BY <1>2, <2>1 DEF OfKind
    <2> QED
      BY <2>2 DEF K
  <1>3. ASSUME NEW c, NEW d, InSlot(c.key, s, kind), c.op = "put" => c.key \notin DOMAIN L,
               InSlot(d.key, s, kind), d.op # "put"
        PROVE  OfKind(<<c, d>>, L, s, kind)
    <2> DEFINE K == <<c, d>>
    <2>1. \A i \in 1..Len(K) : (i = 1 /\ K[i] = c) \/ K[i] = d
      OBVIOUS
    <2> HIDE DEF K
    <2>2. OfKind(K, L, s, kind)
      BY <1>3, <2>1 DEF OfKind
    <2> QED
      BY <2>2 DEF K
  <1>4. ASSUME NEW c, NEW d, NEW e, InSlot(c.key, s, kind), c.op # "put",
               InSlot(d.key, s, kind), d.op # "put", InSlot(e.key, s, kind), e.op # "put"
        PROVE  OfKind(<<c, d, e>>, L, s, kind)
    <2> DEFINE K == <<c, d, e>>
    <2>1. \A i \in 1..Len(K) : K[i] = c \/ K[i] = d \/ K[i] = e
      OBVIOUS
    <2> HIDE DEF K
    <2>2. OfKind(K, L, s, kind)
      BY <1>4, <2>1 DEF OfKind
    <2> QED
      BY <2>2 DEF K
  <1> QED
    BY <1>1, <1>2, <1>3, <1>4

\* So are the commits the code writes for a kind.
LEMMA KindKeys ==
  ASSUME NEW bs \in Seq(BarShapes), NEW s \in DOMAIN Scales, NEW kind, NEW L, Table(L), Numbered(L),
         NEW K, K = KindCommits(L, s, bs, kind)
  PROVE  Listed(K, bs) /\ OfKind(K, L, s, kind)
  <1>1. PICK ln : ln = Detect(bs, Scales[s], kind)
    OBVIOUS
  <1>2. PICK cur : cur = Current(L, Actives(L, s, kind))
    OBVIOUS
  <1>3. KindFound(bs, L, s, kind, ln, cur)
    BY <1>1, <1>2 DEF KindFound
  <1> DEFINE key == KeyOf(s, ln)
             t == TouchOf(s, ln)
             r == ReviveOf(s, ln)
             at == Len(bs)
             n == PutOf(s, ln, at)
  <1>4. /\ Listed(K, bs) /\ K = Changes(L, s, bs, at, ln, cur)
        /\ cur \subseteq DOMAIN L /\ One(cur) /\ \A x \in cur : InSlot(x, s, kind)
        /\ ln # NoLine => InSlot(key, s, kind)
        /\ \/ NoChange(L, s, bs, ln, cur) \/ Stands(L, s, ln, cur)
           \/ ComesBack(L, s, ln, cur) \/ IsNew(L, s, bs, ln, cur)
    BY <1>3, KindFacts
  <1>5. PICK a : cur = {} \/ cur = {a}
    <2>1. CASE cur = {}
      BY <2>1
    <2>2. CASE cur # {}
      <3>1. PICK a \in cur : TRUE
        BY <2>2
      <3>2. cur = {a}
        BY <1>4 DEF One
      <3> QED
        BY <3>2
    <2> QED
      BY <2>1, <2>2
  <1> DEFINE e == End(a, "replaced", at)
  <1>6. ChangesList(K, L, s, bs, ln, at, cur, a)
    BY <1>4, <1>5, ChangesAre
  <1>7. /\ t.key = key /\ t.op = "touch" /\ r.key = key /\ r.op = "revive"
        /\ n.key = key /\ n.op = "put" /\ e.key = a /\ e.op = "end"
    <2> HIDE DEF key, at
    <2> QED
      BY DEF TouchOf, ReviveOf, PutOf, End, key
  <1>8. cur # {} => InSlot(a, s, kind)
    BY <1>4, <1>5
  <1>9. /\ NoChange(L, s, bs, ln, cur) => K = <<>>
        /\ Stands(L, s, ln, cur) => ln # NoLine /\ (K = <<t>> \/ K = <<>>)
        /\ ComesBack(L, s, ln, cur) =>
             ln # NoLine /\ ((cur = {} /\ K = <<r, t>>) \/ (cur # {} /\ K = <<r, t, e>>))
        /\ IsNew(L, s, bs, ln, cur) =>
             ln # NoLine /\ key \notin DOMAIN L /\ ((cur = {} /\ K = <<n>>) \/ (cur # {} /\ K = <<n, e>>))
    <2> HIDE DEF t, r, n, e
    <2> QED
      BY <1>6 DEF ChangesList, Stands, ComesBack, IsNew, t, r, n, e
  <1> HIDE DEF key, t, r, n, e
  <1>10. OfKind(<<>>, L, s, kind)
    BY FewOfKind
  <1>11. InSlot(key, s, kind) => OfKind(<<t>>, L, s, kind) /\ OfKind(<<r, t>>, L, s, kind)
    BY <1>7, FewOfKind
  <1>12. InSlot(key, s, kind) /\ InSlot(a, s, kind) => OfKind(<<r, t, e>>, L, s, kind)
    BY <1>7, FewOfKind
  <1>13. InSlot(key, s, kind) /\ key \notin DOMAIN L => OfKind(<<n>>, L, s, kind)
    BY <1>7, FewOfKind
  <1>14. InSlot(key, s, kind) /\ key \notin DOMAIN L /\ InSlot(a, s, kind) => OfKind(<<n, e>>, L, s, kind)
    BY <1>7, FewOfKind
  <1>15. OfKind(K, L, s, kind)
    BY <1>4, <1>8, <1>9, <1>10, <1>11, <1>12, <1>13, <1>14, Zenon
  <1> QED
    BY <1>4, <1>15

\* Each commit of two lists one after the other is one of them.
Joined(c, a, b) ==
  /\ Len(a) \in Nat /\ Len(b) \in Nat /\ Len(c) = Len(a) + Len(b)
  /\ \A i \in 1..Len(a) : c[i] = a[i]
  /\ \A i \in (Len(a) + 1)..Len(c) : i - Len(a) \in 1..Len(b) /\ c[i] = b[i - Len(a)]

\* Two lists one after the other.
LEMMA BothHave ==
  ASSUME NEW bs, NEW a, Listed(a, bs), NEW b, Listed(b, bs)
  PROVE  Listed(a \o b, bs) /\ Joined(a \o b, a, b)
  <1> DEFINE la == Len(a)
             lb == Len(b)
             c  == a \o b
  <1>1. la \in Nat /\ lb \in Nat
    BY ListedLen
  <1>2. /\ Listed(c, bs) /\ Len(c) = la + lb
        /\ \A i \in 1..la : c[i] = a[i]
        /\ \A i \in 1..lb : c[la + i] = b[i]
    BY ListedBoth
  <1> HIDE DEF la, lb, c
  <1>3. ASSUME NEW i \in (la + 1)..Len(c) PROVE i - la \in 1..lb /\ c[i] = b[i - la]
    <2>1. i - la \in 1..lb /\ la + (i - la) = i
      BY <1>1, <1>2
    <2>2. c[la + (i - la)] = b[i - la]
      BY <1>2, <2>1
    <2> QED
      BY <2>1, <2>2
  <1> QED
    BY <1>1, <1>2, <1>3 DEF la, lb, c, Joined

\* The commits of a scale: the ends of broken lines, then those of each kind.
EndsOf(tab, s, bs) == Breaks(tab, s, bs)
LeftOf(tab, s, bs) == After(tab, EndsOf(tab, s, bs), Len(EndsOf(tab, s, bs)))
FoundOf(tab, s, bs, kind) == KindCommits(LeftOf(tab, s, bs), s, bs, kind)

\* A scale's commits are the ends of its broken lines and those for either kind,
LEMMA ScaleParts ==
  ASSUME NEW bs \in Seq(BarShapes), NEW tab, Table(tab), Numbered(tab), NEW s \in DOMAIN Scales
  PROVE  /\ LinesOf(tab, bs, s) =
              EndsOf(tab, s, bs) \o FoundOf(tab, s, bs, "resistance") \o FoundOf(tab, s, bs, "support")
         /\ Listed(EndsOf(tab, s, bs), bs) /\ ~Puts(EndsOf(tab, s, bs))
         /\ Table(LeftOf(tab, s, bs)) /\ Numbered(LeftOf(tab, s, bs))
         /\ \A kind : /\ Listed(FoundOf(tab, s, bs, kind), bs)
                      /\ OfKind(FoundOf(tab, s, bs, kind), LeftOf(tab, s, bs), s, kind)
         /\ \A i \in 1..Len(EndsOf(tab, s, bs)) : OfScale(EndsOf(tab, s, bs)[i].key, s)
  <1> DEFINE E == EndsOf(tab, s, bs)
             L == LeftOf(tab, s, bs)
  <1>1. Listed(E, bs) /\ ~Puts(E)
    <2>1. \A key : OfScale(key, s) => Agree(tab, tab, key)
      BY DEF Agree
    <2> QED
      BY <2>1, BreaksClear DEF EndsOf
  <1>2. L = After(tab, E, Len(E))
    BY DEF LeftOf
  <1>3. ASSUME NEW i \in 1..Len(E) PROVE OfScale(E[i].key, s)
    <2> DEFINE k == BreakOf(tab, s, bs, i)
               at == BreakAt(tab[k], s, bs)
    <2>1. E[i] = End(k, "broken", at) /\ k \in BrokenOf(tab, s, bs)
      BY BreaksAre DEF EndsOf
    <2> HIDE DEF k, at
    <2>2. E[i].key = k
      BY <2>1 DEF End
    <2>3. OfScale(k, s)
      BY <2>1 DEF BrokenOf, Actives, OfScale
    <2> QED
      BY <2>2, <2>3
  <1> HIDE DEF E, L
  <1>4. Len(E) \in 0..Len(E)
    BY <1>1, ListedLen
  <1>5. Table(L) /\ Numbered(L)
    <2>1. Fresh(tab, E)
      BY <1>1 DEF Fresh, Puts
    <2> QED
      BY <1>1, <1>2, <1>4, <2>1, Untouched, AfterNumbered
  <1>6. ASSUME NEW kind PROVE Listed(FoundOf(tab, s, bs, kind), bs) /\ OfKind(FoundOf(tab, s, bs, kind), L, s, kind)
    <2>1. FoundOf(tab, s, bs, kind) = KindCommits(L, s, bs, kind)
      BY DEF FoundOf, L
    <2> QED
      BY <1>5, <2>1, KindKeys
  <1>7. LinesOf(tab, bs, s) = E \o FoundOf(tab, s, bs, "resistance") \o FoundOf(tab, s, bs, "support")
    BY DEF LinesOf, LinesCommits, FoundOf, LeftOf, EndsOf, E
  <1> QED
    BY <1>1, <1>3, <1>5, <1>6, <1>7 DEF E, L

\* and they change lines of that scale.
LEMMA ScaleKeys ==
  ASSUME NEW bs \in Seq(BarShapes), NEW tab, Table(tab), Numbered(tab), NEW s \in DOMAIN Scales
  PROVE  /\ Listed(LinesOf(tab, bs, s), bs)
         /\ \A i \in 1..Len(LinesOf(tab, bs, s)) : OfScale(LinesOf(tab, bs, s)[i].key, s)
  <1> DEFINE E == EndsOf(tab, s, bs)
             R == FoundOf(tab, s, bs, "resistance")
             P == FoundOf(tab, s, bs, "support")
             C == LinesOf(tab, bs, s)
             er == E \o R
  <1>1. /\ C = er \o P /\ Listed(E, bs) /\ Listed(R, bs) /\ Listed(P, bs)
        /\ OfKind(R, LeftOf(tab, s, bs), s, "resistance") /\ OfKind(P, LeftOf(tab, s, bs), s, "support")
        /\ \A i \in 1..Len(E) : OfScale(E[i].key, s)
    BY ScaleParts
  <1>2. /\ \A i \in 1..Len(R) : OfScale(R[i].key, s)
        /\ \A i \in 1..Len(P) : OfScale(P[i].key, s)
    BY <1>1 DEF OfKind, InSlot, OfScale, Kinds
  <1> HIDE DEF E, R, P, C
  <1>3. Listed(er, bs) /\ Joined(er, E, R)
    BY <1>1, BothHave
  <1> HIDE DEF er
  <1>4. /\ Len(E) \in Nat /\ Len(R) \in Nat /\ Len(er) = Len(E) + Len(R)
        /\ \A i \in 1..Len(E) : er[i] = E[i]
        /\ \A i \in (Len(E) + 1)..Len(er) : i - Len(E) \in 1..Len(R) /\ er[i] = R[i - Len(E)]
    BY <1>3 DEF Joined
  <1>5. Listed(C, bs) /\ Joined(C, er, P)
    <2>1. Listed(er \o P, bs) /\ Joined(er \o P, er, P)
      BY <1>1, <1>3, BothHave
    <2> QED
      BY <1>1, <2>1
  <1>6. \A i \in 1..Len(er) : OfScale(er[i].key, s)
    <2> SUFFICES ASSUME NEW i \in 1..Len(er) PROVE OfScale(er[i].key, s)
      OBVIOUS
    <2>1. i \in 1..Len(E) \/ i \in (Len(E) + 1)..Len(er)
      BY <1>4
    <2>2. CASE i \in 1..Len(E)
      BY <1>1, <1>4, <2>2
    <2>3. CASE i \in (Len(E) + 1)..Len(er)
      BY <1>2, <1>4, <2>3
    <2> QED
      BY <2>1, <2>2, <2>3
  <1>7. \A i \in 1..Len(C) : OfScale(C[i].key, s)
    <2> SUFFICES ASSUME NEW i \in 1..Len(C) PROVE OfScale(C[i].key, s)
      OBVIOUS
    <2>1. /\ Len(er) \in Nat /\ Len(P) \in Nat /\ Len(C) = Len(er) + Len(P)
          /\ \A k \in 1..Len(er) : C[k] = er[k]
          /\ \A k \in (Len(er) + 1)..Len(C) : k - Len(er) \in 1..Len(P) /\ C[k] = P[k - Len(er)]
      BY <1>5 DEF Joined
    <2>2. i \in 1..Len(er) \/ i \in (Len(er) + 1)..Len(C)
      BY <2>1
    <2>3. CASE i \in 1..Len(er)
      BY <1>6, <2>1, <2>3
    <2>4. CASE i \in (Len(er) + 1)..Len(C)
      BY <1>2, <2>1, <2>4
    <2> QED
      BY <2>2, <2>3, <2>4
  <1> QED
    BY <1>5, <1>7 DEF C

\* Where the commits of a scale stand among those of the first n scales.
PlacedIn(tab, bs, s, n) ==
  LET G(i) == Gathered(tab, bs, i)
  IN  /\ Len(G(s)) <= Len(G(n))
      /\ \A i \in 1..Len(G(s)) : G(n)[i] = G(s)[i]
      /\ \A i \in (Len(G(s)) + 1)..Len(G(n)) : G(n)[i].key[1] # s

\* The commits of a scale stand in those of the whole pass, and no others change
\* its lines.
LEMMA ScalesStand ==
  ASSUME NEW bs \in Seq(BarShapes), NEW tab, Table(tab), Numbered(tab)
  PROVE  /\ \A n \in 0..Len(Scales) : \A i \in 1..Len(Gathered(tab, bs, n)) :
              /\ Gathered(tab, bs, n)[i].key[1] \in 1..n
              /\ Gathered(tab, bs, n)[i].key[2] \in Kinds
         /\ \A n \in 0..Len(Scales) : \A s \in 0..n : PlacedIn(tab, bs, s, n)
  <1> DEFINE b == Len(Scales)
             G(n) == Gathered(tab, bs, n)
             Low(n) == \A i \in 1..Len(G(n)) : G(n)[i].key[1] \in 1..n /\ G(n)[i].key[2] \in Kinds
             good == {n \in 0..b : Low(n) /\ \A s \in 0..n : PlacedIn(tab, bs, s, n)}
  <1>1. b \in Nat /\ DOMAIN Scales = 1..b
    BY TrendAssumption
  <1>2. \A n \in 0..b : Listed(G(n), bs) /\ Len(G(n)) \in Nat
    BY GatheredListed, ListedLen
  <1>3. ASSUME NEW n \in 0..b PROVE PlacedIn(tab, bs, n, n)
    <2>1. Len(G(n)) \in Nat
      BY <1>2
    <2> DEFINE g == G(n)
    <2> HIDE DEF g
    <2>2. \A i \in (Len(g) + 1)..Len(g) : FALSE
      BY <2>1 DEF g
    <2>3. Len(g) <= Len(g)
      BY <2>1 DEF g
    <2> QED
      BY <2>2, <2>3 DEF PlacedIn, g
  <1>4. 0 \in good
    <2>1. G(0) = <<>> /\ Len(<<>>) = 0
      BY GatheredSteps
    <2>2. Low(0)
      BY <2>1
    <2>3. \A s \in 0..0 : s = 0
      OBVIOUS
    <2> HIDE DEF G, Low
    <2> QED
      BY <1>1, <1>3, <2>2, <2>3
  <1>5. ASSUME NEW n \in 1..b, n - 1 \in good PROVE n \in good
    <2> DEFINE m == n - 1
               g == G(m)
               h == G(n)
               C == LinesOf(tab, bs, n)
    <2>1. m \in Nat /\ m \in 0..b /\ n \in 0..b /\ m + 1 = n /\ n \in DOMAIN Scales
      BY <1>1
    <2>2. Low(m) /\ \A s \in 0..m : PlacedIn(tab, bs, s, m)
      BY <1>5
    <2> HIDE DEF m
    <2>3. h = g \o C
      BY <2>1, GatheredSteps
    <2>4. Listed(g, bs) /\ Listed(C, bs) /\ \A i \in 1..Len(C) : OfScale(C[i].key, n)
      BY <1>2, <2>1, ScaleKeys
    <2> HIDE DEF g, h, C
    <2>5. /\ Len(g) \in Nat /\ Len(C) \in Nat /\ Len(h) = Len(g) + Len(C)
          /\ \A i \in 1..Len(g) : h[i] = g[i]
          /\ \A i \in (Len(g) + 1)..Len(h) : i - Len(g) \in 1..Len(C) /\ h[i] = C[i - Len(g)]
      <3>1. Joined(g \o C, g, C)
        BY <2>4, BothHave
      <3> QED
        BY <2>3, <3>1 DEF Joined
    <2>6. \A i \in (Len(g) + 1)..Len(h) : h[i].key[1] = n /\ h[i].key[2] \in Kinds
      BY <2>4, <2>5 DEF OfScale
    <2>7. Low(n)
      <3> SUFFICES ASSUME NEW i \in 1..Len(h) PROVE h[i].key[1] \in 1..n /\ h[i].key[2] \in Kinds
        BY DEF h
      <3>1. i \in 1..Len(g) \/ i \in (Len(g) + 1)..Len(h)
        BY <2>5
      <3>2. CASE i \in 1..Len(g)
        <4>1. g[i].key[1] \in 1..m /\ g[i].key[2] \in Kinds
          BY <2>2, <3>2 DEF g
        <4> QED
          BY <2>1, <2>5, <3>2, <4>1
      <3>3. CASE i \in (Len(g) + 1)..Len(h)
        BY <2>1, <2>6, <3>3
      <3> QED
        BY <3>1, <3>2, <3>3
    <2>8. ASSUME NEW s \in 0..n PROVE PlacedIn(tab, bs, s, n)
      <3>1. CASE s = n
        BY <1>3, <2>1, <3>1
      <3>2. CASE s # n
        <4> DEFINE f == G(s)
        <4>1. s \in 0..m /\ s \in 0..b
          BY <2>1, <3>2
        <4>2. PlacedIn(tab, bs, s, m)
          BY <2>2, <4>1
        <4>3. Len(f) \in Nat
          BY <1>2, <4>1
        <4> HIDE DEF f
        <4>4. /\ Len(f) <= Len(g)
              /\ \A i \in 1..Len(f) : g[i] = f[i]
              /\ \A i \in (Len(f) + 1)..Len(g) : g[i].key[1] # s
          BY <4>2 DEF PlacedIn, f, g
        <4>5. ASSUME NEW i \in (Len(f) + 1)..Len(h) PROVE h[i].key[1] # s
          <5>1. i \in (Len(f) + 1)..Len(g) \/ i \in (Len(g) + 1)..Len(h)
            BY <2>5, <4>3
          <5>2. i \in (Len(f) + 1)..Len(g) => i \in 1..Len(g)
            BY <4>3
          <5> QED
            BY <2>5, <2>6, <3>2, <4>4, <5>1, <5>2
        <4>6. \A i \in 1..Len(f) : h[i] = f[i]
          <5>1. \A i \in 1..Len(f) : i \in 1..Len(g)
            BY <2>5, <4>3, <4>4
          <5> QED
            BY <2>5, <4>4, <5>1
        <4>7. Len(f) <= Len(h)
          BY <2>5, <4>3, <4>4
        <4> QED
          BY <4>5, <4>6, <4>7 DEF PlacedIn, f, h
      <3> QED
        BY <3>1, <3>2
    <2> HIDE DEF Low
    <2> QED
      BY <2>1, <2>7, <2>8
  <1> HIDE DEF good
  <1>6. \A n \in 0..b : n \in good
    <2> HIDE DEF b
    <2> QED
      BY <1>1, <1>4, <1>5, CountingUp
  <1> QED
    BY <1>6 DEF good

\* The first commits decide what the table is after them.
LEMMA PrefixAfter ==
  ASSUME NEW tab, NEW a, NEW c, NEW b \in Nat, \A i \in 1..b : c[i] = a[i]
  PROVE  \A n \in 0..b : After(tab, c, n) = After(tab, a, n)
  <1> DEFINE good == {n \in 0..b : After(tab, c, n) = After(tab, a, n)}
  <1>1. 0 \in good
    BY AfterSteps
  <1>2. ASSUME NEW n \in 1..b, n - 1 \in good PROVE n \in good
    <2>1. n - 1 \in Nat /\ n \in 0..b /\ (n - 1) + 1 = n
      OBVIOUS
    <2>2. /\ After(tab, c, (n - 1) + 1) = Apply(After(tab, c, n - 1), c[(n - 1) + 1])
          /\ After(tab, a, (n - 1) + 1) = Apply(After(tab, a, n - 1), a[(n - 1) + 1])
      BY <2>1, AfterSteps
    <2> QED
      BY <1>2, <2>1, <2>2
  <1> HIDE DEF good
  <1>3. \A n \in 0..b : n \in good
    BY <1>1, <1>2, CountingUp
  <1> QED
    BY <1>3 DEF good

\* All commits of a pass, and the table after the first i.
All(tab, bs)      == Gathered(tab, bs, Len(Scales))
TabAt(tab, bs, i) == After(tab, All(tab, bs), i)

\* The commits C of scale s follow the first u ones of the pass, and no others
\* change its lines.
Span(tab, bs, s, u, C) ==
  LET T(i) == TabAt(tab, bs, i)
      N    == Len(All(tab, bs))
  IN  /\ u \in Nat /\ Len(C) \in Nat /\ N \in Nat /\ u + Len(C) <= N
      /\ u + Len(C) = Len(Gathered(tab, bs, s))
      /\ \A i \in 0..Len(C) : T(u + i) = After(T(u), C, i)
      /\ \A x : x[1] = s =>
           /\ \A i \in 0..u : Agree(T(i), tab, x)
           /\ \A i \in (u + Len(C))..N : Agree(T(i), T(u + Len(C)), x)

StartOf(tab, bs, s) == Len(Gathered(tab, bs, s - 1))

\* So it is for every scale.
LEMMA ScaleSpan ==
  ASSUME NEW bs \in Seq(BarShapes), NEW tab, Table(tab), Numbered(tab), NEW s \in 1..Len(Scales)
  PROVE  Span(tab, bs, s, StartOf(tab, bs, s), LinesOf(tab, bs, s))
  <1> DEFINE b == Len(Scales)
             m == s - 1
             f == Gathered(tab, bs, m)
             g == Gathered(tab, bs, s)
             h == Gathered(tab, bs, b)
             u == StartOf(tab, bs, s)
             C == LinesOf(tab, bs, s)
             len == Len(C)
  <1>1. b \in Nat /\ DOMAIN Scales = 1..b
    BY TrendAssumption
  <1>2. m \in Nat /\ m \in 0..b /\ s \in 0..b /\ b \in 0..b /\ m + 1 = s /\ s \in DOMAIN Scales
        /\ m \in 0..b /\ s \in 0..b
    BY <1>1
  <1> HIDE DEF b, m
  <1>3. Listed(f, bs) /\ Listed(g, bs) /\ Listed(h, bs) /\ Listed(C, bs)
    BY <1>2, GatheredListed, ScaleKeys DEF b
  <1>4. g = f \o C
    BY <1>2, GatheredSteps
  <1>5. u = Len(f)
    BY DEF StartOf, f, m
  <1>6. PlacedIn(tab, bs, m, b) /\ PlacedIn(tab, bs, s, b)
        /\ \A i \in 1..Len(f) : f[i].key[1] \in 1..m
    BY <1>2, ScalesStand DEF b
  <1>7. /\ Len(f) <= Len(h) /\ \A i \in 1..Len(f) : h[i] = f[i]
        /\ Len(g) <= Len(h) /\ \A i \in 1..Len(g) : h[i] = g[i]
        /\ \A i \in (Len(g) + 1)..Len(h) : h[i].key[1] # s
    BY <1>6 DEF PlacedIn
  <1> HIDE DEF f, g, h, u, C
  <1>8. u \in Nat /\ len \in Nat /\ Len(h) \in Nat /\ Len(g) = u + len
    BY <1>3, <1>4, <1>5, ListedBoth, ListedLen
  <1>9. All(tab, bs) = h
    BY DEF All, h, b
  <1>10. ASSUME NEW i \in 0..len PROVE After(tab, h, u + i) = After(After(tab, h, u), C, i)
    <2>1. u + i \in 0..Len(g) /\ u \in 0..u
      BY <1>8
    <2>2. After(tab, h, u + i) = After(tab, g, u + i)
      <3> DEFINE l == Len(g)
      <3>1. l \in Nat /\ \A k \in 1..l : h[k] = g[k]
        BY <1>7, <1>8
      <3> HIDE DEF l
      <3>2. \A n \in 0..l : After(tab, h, n) = After(tab, g, n)
        BY <3>1, PrefixAfter
      <3> QED
        BY <2>1, <3>2 DEF l
    <2>3. After(tab, h, u) = After(tab, f, u)
      <3>1. u \in Nat /\ \A k \in 1..u : h[k] = f[k]
        BY <1>5, <1>7, <1>8
      <3>2. \A n \in 0..u : After(tab, h, n) = After(tab, f, n)
        BY <3>1, PrefixAfter
      <3> QED
        BY <2>1, <3>2
    <2>4. After(tab, f \o C, Len(f) + i) = After(After(tab, f, Len(f)), C, i)
      <3> DEFINE fc == f \o C
      <3>1. Parted(tab, fc, f, C)
        BY <1>3, AfterPart
      <3> HIDE DEF fc
      <3>2. After(tab, fc, Len(f) + i) = After(After(tab, f, Len(f)), C, i)
        BY <3>1 DEF Parted
      <3> QED
        BY <3>2 DEF fc
    <2> QED
      BY <1>4, <1>5, <2>2, <2>3, <2>4
  <1>11. ASSUME NEW x, x[1] = s, NEW i \in 0..u PROVE Agree(After(tab, h, i), tab, x)
    <2>1. 0 \in 0..Len(h) /\ i \in 0..Len(h) /\ 0 <= i
      BY <1>5, <1>7, <1>8
    <2>2. \A k \in (0 + 1)..i : h[k].key # x
      <3> SUFFICES ASSUME NEW k \in (0 + 1)..i PROVE h[k].key # x
        OBVIOUS
      <3>1. k \in 1..Len(f)
        BY <1>5, <1>8
      <3>2. h[k].key[1] \in 1..m
        BY <1>6, <1>7, <3>1
      <3>3. s \notin 1..m
        BY <1>2
      <3> QED
        BY <1>11, <3>2, <3>3
    <2>3. Agree(After(tab, h, i), After(tab, h, 0), x)
      BY <1>3, <2>1, <2>2, AgreeAlong
    <2>4. After(tab, h, 0) = tab
      BY AfterSteps
    <2> QED
      BY <2>3, <2>4
  <1>12. ASSUME NEW x, x[1] = s, NEW i \in (u + len)..Len(h)
         PROVE  Agree(After(tab, h, i), After(tab, h, u + len), x)
    <2> DEFINE lo == u + len
    <2>1. lo \in 0..Len(h) /\ i \in 0..Len(h) /\ lo <= i
      BY <1>7, <1>8
    <2>2. \A k \in (lo + 1)..i : h[k].key # x
      <3> SUFFICES ASSUME NEW k \in (lo + 1)..i PROVE h[k].key # x
        OBVIOUS
      <3>1. k \in (Len(g) + 1)..Len(h)
        BY <1>8
      <3> QED
        BY <1>7, <1>12, <3>1
    <2> HIDE DEF lo
    <2>3. Agree(After(tab, h, i), After(tab, h, lo), x)
      BY <1>3, <2>1, <2>2, AgreeAlong
    <2> QED
      BY <2>3 DEF lo
  <1>13. u + len <= Len(h) /\ u + len = Len(Gathered(tab, bs, s))
    BY <1>7, <1>8 DEF g
  <1>14. Span(tab, bs, s, u, C)
    <2>1. After(tab, h, u) = TabAt(tab, bs, u)
      BY <1>9 DEF TabAt
    <2> QED
      BY <1>8, <1>9, <1>10, <1>11, <1>12, <1>13, <2>1 DEF Span, TabAt
  <1> QED
    BY <1>14 DEF u, C

\* A row of the pass's first table, perhaps with its break written.
SlotRow(m, tab, s, bs, x) ==
  /\ x \in DOMAIN m <=> x \in DOMAIN tab
  /\ x \in DOMAIN tab => m[x] \in {tab[x], Cleared(tab[x], s, bs)}

\* The commits K for a kind follow the first w ones of the pass; only they change
\* its lines, once the broken ones are ended.
Block(tab, bs, s, kind, w, K) ==
  LET T(i) == TabAt(tab, bs, i)
      N    == Len(All(tab, bs))
  IN  /\ w \in Nat /\ Len(K) \in Nat /\ w + Len(K) <= N /\ N \in Nat
      /\ K = KindCommits(T(w), s, bs, kind) /\ Listed(K, bs)
      /\ \A i \in 0..Len(K) : T(w + i) = After(T(w), K, i)
      /\ \A x : InSlot(x, s, kind) =>
           /\ \A i \in 0..w : SlotRow(T(i), tab, s, bs, x)
           /\ x \in DOMAIN tab => T(w)[x] = Cleared(tab[x], s, bs)
           /\ \A i \in (w + Len(K))..N : Agree(T(i), T(w + Len(K)), x)

\* The archive along a pass is a table.
LEMMA TabAtIs ==
  ASSUME NEW bs \in Seq(BarShapes), NEW tab, Table(tab)
  PROVE  /\ Listed(All(tab, bs), bs) /\ Len(All(tab, bs)) \in Nat /\ TabAt(tab, bs, 0) = tab
         /\ \A i \in 0..Len(All(tab, bs)) : Table(TabAt(tab, bs, i))
  <1>1. Len(Scales) \in 0..Len(Scales)
    BY TrendAssumption
  <1>2. Listed(All(tab, bs), bs)
    BY <1>1, GatheredListed DEF All
  <1>3. TabAt(tab, bs, 0) = tab
    BY AfterSteps DEF TabAt
  <1> QED
    BY <1>2, <1>3, ListedLen, Untouched DEF TabAt


\* Ending the broken lines clears them.
LEMMA EndsClear ==
  ASSUME NEW bs, NEW tab, Table(tab), Numbered(tab), NEW s,
         NEW v, Table(v), \A x : OfScale(x, s) => Agree(v, tab, x)
  PROVE  Clearing(v, s, bs, EndsOf(tab, s, bs))
  BY BreaksClear DEF EndsOf

\* The commits of a scale in three parts.
Thirds(tab, bs, u, E, R, P) ==
  LET T(i) == TabAt(tab, bs, i)
      e == Len(E)
      r == Len(R)
      p == Len(P)
  IN  /\ u \in Nat /\ e \in Nat /\ r \in Nat /\ p \in Nat /\ u + e + r + p <= Len(All(tab, bs))
      /\ \A i \in 0..e : T(u + i) = After(T(u), E, i)
      /\ \A i \in 0..r : T(u + e + i) = After(T(u + e), R, i)
      /\ \A i \in 0..p : T(u + e + r + i) = After(T(u + e + r), P, i)

\* The parts of a span.
LEMMA SpanThirds ==
  ASSUME NEW bs, NEW tab, NEW s, NEW u, NEW E, NEW R, NEW P, Listed(E, bs), Listed(R, bs), Listed(P, bs),
         Span(tab, bs, s, u, (E \o R) \o P)
  PROVE  /\ Thirds(tab, bs, u, E, R, P)
         /\ Len((E \o R) \o P) = Len(E) + Len(R) + Len(P)
  <1> DEFINE T(i) == TabAt(tab, bs, i)
             N == Len(All(tab, bs))
             er == E \o R
             C == er \o P
             e == Len(E)
             r == Len(R)
             p == Len(P)
             l == Len(er)
  <1>1. Listed(er, bs) /\ Joined(er, E, R) /\ Parted(T(u), er, E, R)
    BY BothHave, AfterPart
  <1>2. Joined(C, er, P) /\ Parted(T(u), C, er, P)
    <2> HIDE DEF er
    <2> QED
      BY <1>1, BothHave, AfterPart
  <1>3. /\ u \in Nat /\ Len(C) \in Nat /\ N \in Nat /\ u + Len(C) <= N
        /\ \A i \in 0..Len(C) : T(u + i) = After(T(u), C, i)
    BY DEF Span
  <1> HIDE DEF C, er, N
  <1>4. e \in Nat /\ r \in Nat /\ p \in Nat /\ l = e + r /\ Len(C) = l + p
    BY <1>1, <1>2 DEF Joined
  <1>5. u + e + r + p <= N
    BY <1>3, <1>4
  <1> DEFINE t == T(u)
  <1>6. /\ \A n \in 0..e : After(t, er, n) = After(t, E, n)
        /\ \A n \in 0..r : After(t, er, e + n) = After(After(t, E, e), R, n)
    BY <1>1 DEF Parted
  <1>7. /\ \A n \in 0..l : After(t, C, n) = After(t, er, n)
        /\ \A n \in 0..p : After(t, C, l + n) = After(After(t, er, l), P, n)
    BY <1>2 DEF Parted
  <1> HIDE DEF T, e, r, p, l
  <1>8. ASSUME NEW i \in 0..e PROVE T(u + i) = After(t, E, i)
    <2>1. i \in 0..Len(C) /\ i \in 0..l
      BY <1>4
    <2> QED
      BY <1>3, <1>6, <1>7, <2>1 DEF t
  <1>9. After(t, E, e) = T(u + e)
    <2>1. e \in 0..e
      BY <1>4
    <2> QED
      BY <1>8, <2>1
  <1>10. ASSUME NEW i \in 0..r PROVE T(u + (e + i)) = After(T(u + e), R, i)
    <2>1. e + i \in 0..Len(C) /\ e + i \in 0..l
      BY <1>4
    <2> QED
      BY <1>3, <1>6, <1>7, <1>9, <2>1 DEF t
  <1>11. After(t, er, l) = T(u + l)
    <2>1. l \in 0..Len(C) /\ l \in 0..l
      BY <1>4
    <2> QED
      BY <1>3, <1>7, <2>1 DEF t
  <1>12. ASSUME NEW i \in 0..p PROVE T(u + (l + i)) = After(T(u + l), P, i)
    <2>1. l + i \in 0..Len(C)
      BY <1>4
    <2> QED
      BY <1>3, <1>7, <1>11, <2>1 DEF t
  <1>13. \A i \in 0..r : T(u + e + i) = After(T(u + e), R, i)
    <2>1. \A i \in 0..r : u + e + i = u + (e + i)
      BY <1>3, <1>4
    <2> QED
      BY <1>10, <2>1
  <1>14. \A i \in 0..p : T(u + e + r + i) = After(T(u + e + r), P, i)
    <2>1. u + e + r = u + l /\ \A i \in 0..p : u + e + r + i = u + (l + i)
      BY <1>3, <1>4
    <2> QED
      BY <1>12, <2>1
  <1>15. Thirds(tab, bs, u, E, R, P)
    <2>1. \A i \in 0..e : T(u + i) = After(T(u), E, i)
      BY <1>8 DEF t
    <2> QED
      BY <1>3, <1>4, <1>5, <1>13, <1>14, <2>1 DEF Thirds, T, e, r, p, N
  <1> QED
    BY <1>4, <1>15 DEF C, er, e, r, p, l

\* A scale's commits: the broken lines are ended, then each kind has its block.
ScaleBlocks(tab, bs, s, u, E, R, P) ==
  LET T(i) == TabAt(tab, bs, i)
  IN  /\ Thirds(tab, bs, u, E, R, P)
      /\ u + Len(E) + Len(R) + Len(P) = Len(Gathered(tab, bs, s))
      /\ \A i \in 0..Len(E) : DOMAIN T(u + i) = DOMAIN T(u)
      /\ Block(tab, bs, s, "resistance", u + Len(E), R)
      /\ Block(tab, bs, s, "support", u + Len(E) + Len(R), P)

\* So it is for every scale.
LEMMA BlocksAre ==
  ASSUME NEW bs \in Seq(BarShapes), NEW tab, Table(tab), Numbered(tab), NEW s \in 1..Len(Scales)
  PROVE  ScaleBlocks(tab, bs, s, StartOf(tab, bs, s), EndsOf(tab, s, bs),
                     FoundOf(tab, s, bs, "resistance"), FoundOf(tab, s, bs, "support"))
  <1> DEFINE T(i) == TabAt(tab, bs, i)
             N == Len(All(tab, bs))
             u == StartOf(tab, bs, s)
             E == EndsOf(tab, s, bs)
             R == FoundOf(tab, s, bs, "resistance")
             P == FoundOf(tab, s, bs, "support")
             C == LinesOf(tab, bs, s)
             L == LeftOf(tab, s, bs)
             e == Len(E)
             r == Len(R)
             p == Len(P)
             T0 == T(u)
             T1 == T(u + e)
             T2 == T(u + e + r)
             Cl(x) == Cleared(tab[x], s, bs)
  <1>1. s \in DOMAIN Scales
    BY TrendAssumption
  <1>2. /\ C = (E \o R) \o P /\ Listed(E, bs) /\ ~Puts(E) /\ Listed(R, bs) /\ Listed(P, bs)
        /\ OfKind(R, L, s, "resistance") /\ OfKind(P, L, s, "support")
        /\ L = After(tab, E, e)
    BY <1>1, ScaleParts DEF LeftOf
  <1>3. N \in Nat /\ T(0) = tab /\ \A i \in 0..N : Table(T(i))
    BY TabAtIs
  <1>5. R = KindCommits(L, s, bs, "resistance") /\ P = KindCommits(L, s, bs, "support")
    BY DEF FoundOf
  <1>41. Span(tab, bs, s, u, C)
    BY ScaleSpan
  <1>42. Clearing(tab, s, bs, E)
    <2>1. \A x : OfScale(x, s) => Agree(tab, tab, x)
      BY DEF Agree
    <2> QED
      BY <2>1, EndsClear
  <1>43. ASSUME NEW v, Table(v), \A x : OfScale(x, s) => Agree(v, tab, x) PROVE Clearing(v, s, bs, E)
    BY <1>43, EndsClear
  <1> HIDE DEF u, E, R, P, C, L
  <1>4. /\ u \in Nat /\ Len(C) \in Nat /\ u + Len(C) = Len(Gathered(tab, bs, s)) /\ u + Len(C) <= N
        /\ \A x : x[1] = s =>
             /\ \A i \in 0..u : Agree(T(i), tab, x)
             /\ \A i \in (u + Len(C))..N : Agree(T(i), T(u + Len(C)), x)
    BY <1>41 DEF Span
  <1>61. Thirds(tab, bs, u, E, R, P) /\ Len(C) = e + r + p
    <2>1. Span(tab, bs, s, u, (E \o R) \o P)
      BY <1>2, <1>41
    <2>2. Thirds(tab, bs, u, E, R, P) /\ Len((E \o R) \o P) = Len(E) + Len(R) + Len(P)
      BY <1>2, <2>1, SpanThirds
    <2> QED
      BY <1>2, <2>2
  <1>6. e \in Nat /\ r \in Nat /\ p \in Nat /\ Len(C) = e + r + p
    BY <1>61 DEF Thirds
  <1>7. /\ \A i \in 0..e : T(u + i) = After(T0, E, i)
        /\ \A i \in 0..r : T(u + e + i) = After(T1, R, i)
        /\ \A i \in 0..p : T(u + e + r + i) = After(T2, P, i)
    BY <1>61 DEF Thirds
  <1> HIDE DEF T, N
  <1>8. Table(T0) /\ Table(T1) /\ Table(T2)
    <2>1. u \in 0..N /\ u + e \in 0..N /\ u + e + r \in 0..N
      BY <1>3, <1>4, <1>6
    <2> QED
      BY <1>3, <2>1
  <1>9. \A x : x[1] = s => Agree(T0, tab, x)
    <2>1. u \in 0..u
      BY <1>4
    <2> QED
      BY <1>4, <2>1
  <1>10. \A i \in 0..e : /\ DOMAIN T(u + i) = DOMAIN T0
                         /\ \A x : OfScale(x, s) => SlotRow(T(u + i), tab, s, bs, x)
    <2>1. \A x : OfScale(x, s) => Agree(T0, tab, x)
      BY <1>9 DEF OfScale
    <2> DEFINE v == T0
    <2> HIDE DEF v
    <2>2. \A n \in 0..e : /\ DOMAIN After(v, E, n) = DOMAIN v
                          /\ \A x \in DOMAIN v : After(v, E, n)[x] \in {v[x], Cleared(v[x], s, bs)}
      BY <1>8, <1>43, <2>1 DEF Clearing, v
    <2> SUFFICES ASSUME NEW i \in 0..e
                 PROVE  /\ DOMAIN T(u + i) = DOMAIN T0
                        /\ \A x : OfScale(x, s) => SlotRow(T(u + i), tab, s, bs, x)
      OBVIOUS
    <2> DEFINE m == T(u + i)
    <2>3. m = After(v, E, i)
      BY <1>7 DEF v
    <2> HIDE DEF m
    <2>4. DOMAIN m = DOMAIN v /\ \A x \in DOMAIN v : m[x] \in {v[x], Cleared(v[x], s, bs)}
      BY <2>2, <2>3
    <2>5. ASSUME NEW x, OfScale(x, s) PROVE SlotRow(m, tab, s, bs, x)
      BY <2>1, <2>4, <2>5 DEF SlotRow, Agree, v
    <2> QED
      BY <2>4, <2>5 DEF m, v
  <1>11. \A x : OfScale(x, s) => /\ x \in DOMAIN T1 <=> x \in DOMAIN tab
                                 /\ x \in DOMAIN tab => T1[x] = Cl(x)
    <2>1. \A x : OfScale(x, s) => Agree(T0, tab, x)
      BY <1>9 DEF OfScale
    <2>2. e \in 0..e
      BY <1>6
    <2> DEFINE v == T0
    <2> HIDE DEF v
    <2>3. /\ DOMAIN After(v, E, e) = DOMAIN v
          /\ \A x \in DOMAIN v : OfScale(x, s) => After(v, E, e)[x] = Cleared(v[x], s, bs)
      BY <1>8, <1>43, <2>1, <2>2 DEF Clearing, v
    <2>4. T1 = After(v, E, e)
      BY <1>7, <2>2 DEF v
    <2> DEFINE m == T1
    <2> HIDE DEF m
    <2>5. DOMAIN m = DOMAIN v /\ \A x \in DOMAIN v : OfScale(x, s) => m[x] = Cleared(v[x], s, bs)
      BY <2>2, <2>3, <2>4 DEF m
    <2> QED
      BY <2>1, <2>5 DEF Agree, m, v
  <1>12. \A x : OfScale(x, s) => /\ x \in DOMAIN L <=> x \in DOMAIN tab
                                 /\ x \in DOMAIN tab => L[x] = Cl(x)
    <2>1. e \in 0..e
      BY <1>6
    <2>2. /\ DOMAIN After(tab, E, e) = DOMAIN tab
          /\ \A x \in DOMAIN tab : OfScale(x, s) => After(tab, E, e)[x] = Cleared(tab[x], s, bs)
      BY <1>42, <2>1 DEF Clearing
    <2> DEFINE m == After(tab, E, e)
    <2>3. L = m
      BY <1>2
    <2> HIDE DEF m
    <2>4. \A x : OfScale(x, s) => (x \in DOMAIN m <=> x \in DOMAIN tab) /\ (x \in DOMAIN tab => m[x] = Cl(x))
      BY <2>2 DEF m
    <2> QED
      BY <2>3, <2>4
  <1>13. \A x : OfScale(x, s) => Agree(T1, L, x)
    BY <1>11, <1>12 DEF Agree
  <1>14. \A x, kind : InSlot(x, s, kind) /\ kind \in Kinds => OfScale(x, s) /\ x[1] = s
    BY DEF InSlot, OfScale
  <1>15. {"resistance", "support"} \subseteq Kinds
    BY DEF Kinds
  <1>16. R = KindCommits(T1, s, bs, "resistance")
    <2>1. \A x : InSlot(x, s, "resistance") => Agree(T1, L, x)
      BY <1>13, <1>14, <1>15
    <2> HIDE DEF T1
    <2>2. KindCommits(T1, s, bs, "resistance") = KindCommits(L, s, bs, "resistance")
      BY <1>1, <2>1, KindAlike
    <2> QED
      BY <1>5, <2>2
  <1> HIDE DEF T0, T1, T2, e, r, p
  <1>17. \A i \in 0..r : \A x : ~InSlot(x, s, "resistance") => Agree(T(u + e + i), T1, x)
    <2> SUFFICES ASSUME NEW i \in 0..r, NEW x, ~InSlot(x, s, "resistance")
                 PROVE  Agree(T(u + e + i), T1, x)
      OBVIOUS
    <2>1. \A k \in 1..Len(R) : R[k].key # x
      BY <1>2 DEF OfKind
    <2>2. \A n \in 0..Len(R) : Agree(After(T1, R, n), T1, x)
      BY <1>2, <1>8, <2>1, Untouched
    <2> QED
      BY <1>7, <2>2 DEF r
  <1>18. \A i \in 0..p : \A x : ~InSlot(x, s, "support") => Agree(T(u + e + r + i), T2, x)
    <2> SUFFICES ASSUME NEW i \in 0..p, NEW x, ~InSlot(x, s, "support")
                 PROVE  Agree(T(u + e + r + i), T2, x)
      OBVIOUS
    <2>1. \A k \in 1..Len(P) : P[k].key # x
      BY <1>2 DEF OfKind
    <2>2. \A n \in 0..Len(P) : Agree(After(T2, P, n), T2, x)
      BY <1>2, <1>8, <2>1, Untouched
    <2> QED
      BY <1>7, <2>2 DEF p
  <1>19. \A x : ~(InSlot(x, s, "resistance") /\ InSlot(x, s, "support"))
    BY DEF InSlot
  <1>20. T2 = T(u + e + r) /\ T1 = T(u + e)
    BY DEF T1, T2
  <1>21. \A x : InSlot(x, s, "support") => Agree(T2, T1, x)
    <2>1. r \in 0..r
      BY <1>6
    <2> QED
      BY <1>17, <1>19, <1>20, <2>1
  <1>22. P = KindCommits(T2, s, bs, "support")
    <2>1. \A x : InSlot(x, s, "support") => Agree(T2, L, x)
      BY <1>13, <1>14, <1>15, <1>21 DEF Agree
    <2>2. KindCommits(T2, s, bs, "support") = KindCommits(L, s, bs, "support")
      BY <1>1, <2>1, KindAlike
    <2> QED
      BY <1>5, <2>2
  <1>23. ASSUME NEW x, OfScale(x, s), NEW i \in 0..(u + e) PROVE SlotRow(T(i), tab, s, bs, x)
    <2>1. CASE i \in 0..u
      <3>1. Agree(T(i), tab, x)
        BY <1>4, <1>23, <2>1 DEF OfScale
      <3> QED
        BY <3>1 DEF SlotRow, Agree
    <2>2. CASE i \notin 0..u
      <3>1. i - u \in 0..e /\ u + (i - u) = i
        BY <1>4, <1>6, <2>2
      <3> QED
        BY <1>10, <1>23, <3>1
    <2> QED
      BY <2>1, <2>2
  <1>24. Block(tab, bs, s, "resistance", u + e, R)
    <2> DEFINE w == u + e
    <2>1. w \in Nat /\ r \in Nat /\ w + r <= N
      <3>1. N \in Nat /\ u \in Nat /\ u + (e + r + p) <= N
        BY <1>3, <1>4, <1>6
      <3> QED
        BY <1>6, <3>1
    <2>2. ASSUME NEW x, InSlot(x, s, "resistance"), NEW i \in (w + r)..N PROVE Agree(T(i), T(w + r), x)
      <3>1. CASE i <= u + Len(C)
        <4>1. i - (u + e + r) \in 0..p /\ u + e + r + (i - (u + e + r)) = i
          BY <1>4, <1>6, <3>1
        <4> QED
          BY <1>18, <1>19, <1>20, <2>2, <4>1
      <3>2. CASE ~(i <= u + Len(C))
        <4>1. i \in (u + Len(C))..N
          BY <1>4, <3>2
        <4>2. Agree(T(i), T(u + Len(C)), x)
          BY <1>4, <1>14, <1>15, <2>2, <4>1
        <4>3. p \in 0..p /\ u + e + r + p = u + Len(C)
          BY <1>4, <1>6
        <4>4. Agree(T(u + Len(C)), T2, x)
          BY <1>18, <1>19, <2>2, <4>3
        <4> QED
          BY <1>20, <4>2, <4>4 DEF Agree
      <3> QED
        BY <3>1, <3>2
    <2>3. ASSUME NEW x, InSlot(x, s, "resistance")
          PROVE  /\ \A i \in 0..w : SlotRow(T(i), tab, s, bs, x)
                 /\ x \in DOMAIN tab => T(w)[x] = Cleared(tab[x], s, bs)
      BY <1>11, <1>14, <1>15, <1>20, <1>23, <2>3
    <2>4. R = KindCommits(T(w), s, bs, "resistance") /\ \A i \in 0..r : T(w + i) = After(T(w), R, i)
      BY <1>7, <1>16, <1>20
    <2> HIDE DEF w
    <2>5. Block(tab, bs, s, "resistance", w, R)
      BY <1>2, <1>3, <2>1, <2>2, <2>3, <2>4 DEF Block, T, N, r
    <2> QED
      BY <2>5 DEF w
  <1>25. Block(tab, bs, s, "support", u + e + r, P)
    <2> DEFINE w == u + e + r
    <2>1. w \in Nat /\ p \in Nat /\ w + p <= N /\ w + p = u + Len(C)
      BY <1>4, <1>6
    <2>2. ASSUME NEW x, InSlot(x, s, "support"), NEW i \in (w + p)..N PROVE Agree(T(i), T(w + p), x)
      BY <1>4, <1>14, <1>15, <2>1, <2>2
    <2>3. ASSUME NEW x, InSlot(x, s, "support")
          PROVE  /\ \A i \in 0..w : SlotRow(T(i), tab, s, bs, x)
                 /\ x \in DOMAIN tab => T(w)[x] = Cleared(tab[x], s, bs)
      <3>1. OfScale(x, s) /\ ~InSlot(x, s, "resistance")
        BY <1>14, <1>15, <1>19, <2>3
      <3>2. SlotRow(T1, tab, s, bs, x)
        BY <1>11, <3>1 DEF SlotRow
      <3>3. ASSUME NEW i \in 0..w PROVE SlotRow(T(i), tab, s, bs, x)
        <4>1. CASE i \in 0..(u + e)
          BY <1>23, <3>1, <4>1
        <4>2. CASE i \notin 0..(u + e)
          <5>1. i - (u + e) \in 0..r /\ u + e + (i - (u + e)) = i
            BY <1>4, <1>6, <4>2
          <5>2. Agree(T(i), T1, x)
            BY <1>17, <3>1, <5>1
          <5> QED
            BY <3>2, <5>2 DEF SlotRow, Agree
        <4> QED
          BY <4>1, <4>2
      <3>4. x \in DOMAIN tab => T(w)[x] = Cleared(tab[x], s, bs)
        BY <1>11, <1>20, <1>21, <2>3, <3>1 DEF Agree
      <3> QED
        BY <3>3, <3>4
    <2>4. P = KindCommits(T(w), s, bs, "support") /\ \A i \in 0..p : T(w + i) = After(T(w), P, i)
      BY <1>7, <1>20, <1>22
    <2> HIDE DEF w
    <2>5. Block(tab, bs, s, "support", w, P)
      BY <1>2, <1>3, <2>1, <2>2, <2>3, <2>4 DEF Block, T, N, p
    <2> QED
      BY <2>5 DEF w
  <1>26. \A i \in 0..e : DOMAIN T(u + i) = DOMAIN T(u)
    BY <1>10 DEF T0
  <1>27. u + e + r + p = Len(Gathered(tab, bs, s))
    BY <1>4, <1>6
  <1>28. ScaleBlocks(tab, bs, s, u, E, R, P)
    BY <1>24, <1>25, <1>26, <1>27, <1>61 DEF ScaleBlocks, T, e, r, p
  <1> QED
    BY <1>28 DEF u, E, R, P

\* The rows stay numbered through a block,
LEMMA BlockNumbered ==
  ASSUME NEW bs \in Seq(BarShapes), NEW tab, Table(tab), NEW s \in DOMAIN Scales, NEW kind,
         NEW w, NEW K, Block(tab, bs, s, kind, w, K), Numbered(TabAt(tab, bs, w))
  PROVE  \A i \in w..(w + Len(K)) : Numbered(TabAt(tab, bs, i))
  <1> DEFINE T(i) == TabAt(tab, bs, i)
             N == Len(All(tab, bs))
             v == T(w)
             k == Len(K)
  <1>1. /\ w \in Nat /\ k \in Nat /\ w + k <= N /\ N \in Nat
        /\ K = KindCommits(v, s, bs, kind) /\ Listed(K, bs)
        /\ \A i \in 0..k : T(w + i) = After(v, K, i)
    BY DEF Block
  <1>2. Table(v)
    <2>1. w \in 0..N
      BY <1>1
    <2> QED
      BY <2>1, TabAtIs
  <1>3. Numbered(v)
    OBVIOUS
  <1> HIDE DEF T, N, v
  <1>4. OfKind(K, v, s, kind)
    <2> DEFINE C == KindCommits(v, s, bs, kind)
    <2>1. C = KindCommits(v, s, bs, kind)
      OBVIOUS
    <2> HIDE DEF C
    <2>2. OfKind(C, v, s, kind)
      BY <1>2, <1>3, <2>1, KindKeys
    <2>3. K = C
      BY <1>1, <2>1
    <2> QED
      BY <2>2, <2>3
  <1>5. Fresh(v, K)
    BY <1>4 DEF OfKind, Fresh
  <1>6. \A n \in 0..k : Numbered(After(v, K, n))
    BY <1>1, <1>2, <1>3, <1>5, AfterNumbered
  <1> HIDE DEF k
  <1>7. ASSUME NEW i \in w..(w + k) PROVE Numbered(T(i))
    <2>1. i - w \in 0..k /\ w + (i - w) = i
      BY <1>1
    <2> QED
      BY <1>1, <1>6, <2>1
  <1> QED
    BY <1>7 DEF T, k

\* and through a whole pass.
LEMMA PassNumbered ==
  ASSUME NEW bs \in Seq(BarShapes), NEW tab, Table(tab), Numbered(tab)
  PROVE  \A i \in 0..Len(All(tab, bs)) : Numbered(TabAt(tab, bs, i))
  <1> DEFINE b == Len(Scales)
             T(i) == TabAt(tab, bs, i)
             N == Len(All(tab, bs))
             top(n) == Len(Gathered(tab, bs, n))
             good == {n \in 0..b : \A i \in 0..top(n) : Numbered(T(i))}
  <1>1. b \in Nat /\ DOMAIN Scales = 1..b /\ N = top(b)
    BY TrendAssumption DEF All
  <1>2. T(0) = tab /\ N \in Nat /\ \A i \in 0..N : Table(T(i))
    BY TabAtIs
  <1>3. 0 \in good
    <2>1. top(0) = 0
      BY GatheredSteps
    <2> HIDE DEF top, T
    <2> QED
      BY <1>1, <1>2, <2>1
  <1>4. ASSUME NEW n \in 1..b, n - 1 \in good PROVE n \in good
    <2> DEFINE u == StartOf(tab, bs, n)
               E == EndsOf(tab, n, bs)
               R == FoundOf(tab, n, bs, "resistance")
               P == FoundOf(tab, n, bs, "support")
               e == Len(E)
               r == Len(R)
               p == Len(P)
    <2>1. ScaleBlocks(tab, bs, n, u, E, R, P)
      BY <1>1, BlocksAre
    <2>2. n \in DOMAIN Scales /\ n \in 0..b
      BY <1>1
    <2>3. Listed(E, bs) /\ ~Puts(E)
      BY <2>2, ScaleParts
    <2>4. top(n - 1) = u /\ \A i \in 0..u : Numbered(T(i))
      BY <1>4 DEF StartOf
    <2> HIDE DEF u, E, R, P, T, N
    <2>5. /\ u \in Nat /\ e \in Nat /\ r \in Nat /\ p \in Nat /\ u + e + r + p <= N
          /\ \A i \in 0..e : T(u + i) = After(T(u), E, i)
      BY <2>1 DEF ScaleBlocks, Thirds, T, N
    <2>6. Block(tab, bs, n, "resistance", u + e, R) /\ Block(tab, bs, n, "support", u + e + r, P)
      BY <2>1 DEF ScaleBlocks
    <2>7. u + e + r + p = top(n)
      BY <2>1 DEF ScaleBlocks
    <2> HIDE DEF e, r, p, top
    <2>8. \A i \in 0..e : Numbered(T(u + i))
      <3> DEFINE v == T(u)
      <3>1. Table(v) /\ Numbered(v)
        <4>1. u \in 0..u /\ u \in 0..N
          BY <1>2, <2>5
        <4> QED
          BY <1>2, <2>4, <4>1
      <3> HIDE DEF v
      <3>2. Fresh(v, E)
        BY <2>3 DEF Fresh, Puts
      <3>3. \A i \in 0..Len(E) : Numbered(After(v, E, i))
        BY <2>3, <3>1, <3>2, AfterNumbered
      <3> QED
        BY <2>5, <3>3 DEF e, v
    <2>9. \A i \in (u + e)..(u + e + r) : Numbered(T(i))
      <3>1. e \in 0..e
        BY <2>5
      <3>2. Numbered(T(u + e))
        BY <2>8, <3>1
      <3> DEFINE w == u + e
      <3>3. Block(tab, bs, n, "resistance", w, R) /\ Numbered(TabAt(tab, bs, w))
        BY <2>6, <3>2 DEF T
      <3> HIDE DEF w
      <3>4. \A i \in w..(w + Len(R)) : Numbered(TabAt(tab, bs, i))
        BY <2>2, <3>3, BlockNumbered
      <3> QED
        BY <3>4 DEF w, r, T
    <2>10. \A i \in (u + e + r)..(u + e + r + p) : Numbered(T(i))
      <3>1. u + e + r \in (u + e)..(u + e + r)
        BY <2>5
      <3>2. Numbered(T(u + e + r))
        BY <2>9, <3>1
      <3> DEFINE w == u + e + r
      <3>3. Block(tab, bs, n, "support", w, P) /\ Numbered(TabAt(tab, bs, w))
        BY <2>6, <3>2 DEF T
      <3> HIDE DEF w
      <3>4. \A i \in w..(w + Len(P)) : Numbered(TabAt(tab, bs, i))
        BY <2>2, <3>3, BlockNumbered
      <3> QED
        BY <3>4 DEF w, p, T
    <2>11. ASSUME NEW i \in 0..top(n) PROVE Numbered(T(i))
      <3>1. CASE i <= u
        BY <2>4, <2>5, <2>7, <3>1
      <3>2. CASE i > u /\ i <= u + e
        <4>1. i - u \in 0..e /\ u + (i - u) = i
          BY <2>5, <2>7, <3>2
        <4> QED
          BY <2>8, <4>1
      <3>3. CASE i > u + e /\ i <= u + e + r
        <4>1. i \in (u + e)..(u + e + r)
          BY <2>5, <2>7, <3>3
        <4> QED
          BY <2>9, <4>1
      <3>4. CASE i > u + e + r
        <4>1. i \in (u + e + r)..(u + e + r + p)
          BY <2>5, <2>7, <3>4
        <4> QED
          BY <2>10, <4>1
      <3> QED
        BY <2>5, <2>7, <3>1, <3>2, <3>3, <3>4
    <2> QED
      BY <2>2, <2>11
  <1> HIDE DEF good, b
  <1>5. \A n \in 0..b : n \in good
    BY <1>1, <1>3, <1>4, CountingUp
  <1>6. b \in good
    BY <1>1, <1>5
  <1> QED
    BY <1>1, <1>6 DEF good

\* A line that is stored is stored first.
LEMMA PutsFirst ==
  ASSUME NEW bs, NEW K, Listed(K, bs), NEW V, Table(V), NEW s, NEW kind, OfKind(K, V, s, kind),
         NEW p \in 1..Len(K)
  PROVE  DOMAIN After(V, K, p) = DOMAIN After(V, K, Len(K))
  <1> DEFINE b == Len(K)
             D(n) == DOMAIN After(V, K, n)
             good == {n \in 0..b : n >= 1 => D(n) = D(1)}
  <1>1. b \in Nat /\ p \in 1..b
    BY ListedLen
  <1>2. \A n \in 0..b : Table(After(V, K, n))
    BY Untouched
  <1>3. ASSUME NEW n \in 1..b, n # 1 PROVE D(n) = D(n - 1)
    <2>1. n - 1 \in 0..b
      BY <1>1
    <2>2. RowsOf(After(V, K, n), After(V, K, n - 1), K[n])
      BY <1>2, <2>1, NextRows
    <2>3. K[n].op # "put"
      BY <1>3 DEF OfKind
    <2> QED
      BY <2>2, <2>3 DEF RowsOf
  <1> HIDE DEF D, b
  <1>4. 0 \in good
    BY <1>1
  <1>5. ASSUME NEW n \in 1..b, n - 1 \in good PROVE n \in good
    <2>1. n \in 0..b /\ (n = 1 \/ n - 1 >= 1)
      BY <1>1
    <2> QED
      BY <1>3, <1>5, <2>1
  <1> HIDE DEF good
  <1>6. \A n \in 0..b : n \in good
    BY <1>1, <1>4, <1>5, CountingUp
  <1>7. p \in good /\ b \in good /\ b >= 1 /\ p >= 1
    BY <1>1, <1>6
  <1>8. D(p) = D(b)
    BY <1>7 DEF good
  <1> QED
    BY <1>8 DEF D, b

\* How many of a block's commits are among the first n.
Among(n, w, len) == IF n <= w THEN 0 ELSE IF n >= w + len THEN len ELSE n - w

\* What that number says of n.
LEMMA AmongIs ==
  ASSUME NEW n \in Nat, NEW w \in Nat, NEW len \in Nat
  PROVE  /\ Among(n, w, len) \in 0..len
         /\ Among(n, w, len) = 0 /\ len # 0 => n <= w
         /\ Among(n, w, len) # 0 => n >= w + Among(n, w, len)
         /\ n <= w \/ n >= w + len \/ n = w + Among(n, w, len)
         /\ n <= w => Among(n, w, len) = 0
         /\ ~(n <= w) /\ n >= w + len => Among(n, w, len) = len
  BY DEF Among

\* What a pass finds of a kind after another stopped.
LEMMA SlotsMeet ==
  ASSUME NEW bs \in Seq(BarShapes), NEW s \in DOMAIN Scales, NEW kind \in Kinds,
         NEW tab, Table(tab), Numbered(tab), One(Actives(tab, s, kind)),
         NEW n \in 0..Len(All(tab, bs)), NEW w, NEW K, Block(tab, bs, s, kind, w, K),
         NEW v, NEW J, Block(TabAt(tab, bs, n), bs, s, kind, v, J)
  PROVE  Resumed(TabAt(tab, bs, w), TabAt(tab, bs, w + Among(n, w, Len(K))),
                 TabAt(TabAt(tab, bs, n), bs, v), s, kind, bs)
  <1> DEFINE T(i) == TabAt(tab, bs, i)
             N == Len(All(tab, bs))
             H == T(n)
             len == Len(K)
             p == Among(n, w, len)
             V == T(w)
             M == T(w + p)
             Q == TabAt(H, bs, v)
             Cl(r) == Cleared(r, s, bs)
  <1>1. N \in Nat /\ n \in 0..N /\ \A i \in 0..N : Table(T(i)) /\ Numbered(T(i))
    BY TabAtIs, PassNumbered
  <1>2. Table(H) /\ Numbered(H)
    BY <1>1
  <1>3. /\ w \in Nat /\ len \in Nat /\ w + len <= N
        /\ \A x : InSlot(x, s, kind) =>
             /\ \A i \in 0..w : SlotRow(T(i), tab, s, bs, x)
             /\ x \in DOMAIN tab => V[x] = Cl(tab[x])
             /\ \A i \in (w + len)..N : Agree(T(i), T(w + len), x)
    BY DEF Block
  <1> HIDE DEF H
  <1>4. v \in Nat /\ v <= Len(All(H, bs)) /\ Len(All(H, bs)) \in Nat
    <2>1. /\ v \in Nat /\ Len(J) \in Nat /\ v + Len(J) <= Len(All(H, bs)) /\ Len(All(H, bs)) \in Nat
      BY DEF Block, H
    <2> QED
      BY <2>1
  <1>5. Table(Q) /\ Numbered(Q)
    <2>1. v \in 0..Len(All(H, bs))
      BY <1>4
    <2> QED
      BY <1>2, <2>1, TabAtIs, PassNumbered
  <1>6. \A x : InSlot(x, s, kind) =>
          /\ SlotRow(Q, H, s, bs, x)
          /\ x \in DOMAIN H => Q[x] = Cl(H[x])
    <2>1. v \in 0..v
      BY <1>4
    <2> QED
      BY <2>1 DEF Block, H
  <1> HIDE DEF T, N, len, Q
  <1>7. Table(V) /\ Numbered(V) /\ w \in 0..w
    <2>1. w \in 0..N
      BY <1>1, <1>3
    <2> QED
      BY <1>1, <1>3, <2>1
  <1>8. \A x : InSlot(x, s, kind) =>
          /\ x \in DOMAIN V <=> x \in DOMAIN tab
          /\ x \in DOMAIN tab => V[x] = Cl(tab[x])
    BY <1>3, <1>7 DEF SlotRow
  <1>9. \A x \in DOMAIN tab : /\ Cl(Cl(tab[x])) = Cl(tab[x])
                              /\ Cl(tab[x]).status = "active" => Cl(tab[x]) = tab[x]
    <2> SUFFICES ASSUME NEW x \in DOMAIN tab
                 PROVE  /\ Cl(Cl(tab[x])) = Cl(tab[x])
                        /\ Cl(tab[x]).status = "active" => Cl(tab[x]) = tab[x]
      OBVIOUS
    <2>1. Shape(tab[x])
      BY DEF Table
    <2> QED
      BY <2>1, ClearedTwice
  <1> HIDE DEF V
  <1>10. One(Actives(V, s, kind))
    <2>1. Actives(V, s, kind) \subseteq Actives(tab, s, kind)
      BY <1>8, <1>9 DEF Actives, InSlot
    <2> QED
      BY <2>1 DEF One
  <1>11. \A x \in DOMAIN V : InSlot(x, s, kind) => Cl(V[x]) = V[x]
    BY <1>8, <1>9
  <1> HIDE DEF Cl
  <1>12. \A x : InSlot(x, s, kind) => /\ x \in DOMAIN H <=> x \in DOMAIN M
                                      /\ x \in DOMAIN H => Cl(H[x]) = Cl(M[x])
    <2>1. n \in Nat /\ w \in Nat /\ len \in Nat
      BY <1>1, <1>3
    <2>2. CASE n <= w
      <3>1. p = 0
        BY <2>1, <2>2, AmongIs
      <3>2. M = V
        <4>1. w + p = w
          BY <2>1, <3>1
        <4> QED
          BY <4>1 DEF V
      <3>3. n \in 0..w
        BY <2>1, <2>2
      <3>4. \A x : InSlot(x, s, kind) => SlotRow(H, tab, s, bs, x)
        BY <1>3, <3>3 DEF H
      <3>5. \A x : InSlot(x, s, kind) => /\ x \in DOMAIN H <=> x \in DOMAIN tab
                                         /\ x \in DOMAIN tab => H[x] = tab[x] \/ H[x] = Cl(tab[x])
        BY <3>4 DEF SlotRow, Cl
      <3> DEFINE m == M
      <3>6. m = V
        BY <3>2
      <3> HIDE DEF m
      <3> SUFFICES \A x : InSlot(x, s, kind) => /\ x \in DOMAIN H <=> x \in DOMAIN m
                                                /\ x \in DOMAIN H => Cl(H[x]) = Cl(m[x])
        BY DEF m
      <3> QED
        BY <1>8, <1>9, <3>5, <3>6
    <2>3. CASE ~(n <= w) /\ n >= w + len
      <3>1. p = len
        BY <2>1, <2>3, AmongIs
      <3>2. n \in (w + len)..N
        BY <1>1, <2>1, <2>3
      <3>3. \A x : InSlot(x, s, kind) => Agree(H, T(w + len), x)
        BY <1>3, <3>2 DEF H
      <3> DEFINE m == T(w + len)
      <3>4. m = M
        BY <3>1
      <3> HIDE DEF m
      <3>5. \A x : InSlot(x, s, kind) => /\ x \in DOMAIN H <=> x \in DOMAIN m
                                         /\ x \in DOMAIN H => Cl(H[x]) = Cl(m[x])
        BY <3>3 DEF Agree, m
      <3> QED
        BY <3>4, <3>5
    <2>4. CASE n = w + p
      BY <2>4 DEF H
    <2>5. n <= w \/ n >= w + len \/ n = w + p
      BY <2>1, AmongIs
    <2> QED
      BY <2>2, <2>3, <2>4, <2>5
  <1> DEFINE m == M
  <1>13. \A x : InSlot(x, s, kind) => /\ x \in DOMAIN Q <=> x \in DOMAIN m
                                      /\ x \in DOMAIN Q => Q[x] = Cl(m[x])
    <2>1. \A x : InSlot(x, s, kind) => x \in DOMAIN Q <=> x \in DOMAIN H
      BY <1>6 DEF SlotRow
    <2>2. \A x : InSlot(x, s, kind) => /\ x \in DOMAIN H <=> x \in DOMAIN m
                                       /\ x \in DOMAIN H => Cl(H[x]) = Cl(m[x])
      BY <1>12
    <2>3. \A x : InSlot(x, s, kind) => (x \in DOMAIN H => Q[x] = Cl(H[x]))
      BY <1>6
    <2> HIDE DEF m
    <2> QED
      BY <2>1, <2>2, <2>3
  <1> HIDE DEF m
  <1>14. Resumed(V, m, Q, s, kind, bs)
    BY <1>5, <1>7, <1>10, <1>11, <1>13 DEF Resumed, Cl
  <1> QED
    BY <1>14 DEF V, m, p, len, Q, H, T

\* A kind is healed once the later pass is through with it.
LEMMA BlockHeals ==
  ASSUME NEW bs \in Seq(BarShapes), NEW s \in DOMAIN Scales, NEW kind \in Kinds,
         NEW tab, Table(tab), Numbered(tab), One(Actives(tab, s, kind)),
         NEW n \in 0..Len(All(tab, bs)), NEW w, NEW K, Block(tab, bs, s, kind, w, K),
         NEW v, NEW J, Block(TabAt(tab, bs, n), bs, s, kind, v, J),
         NEW back, Back(K) \subseteq back,
         DOMAIN TabAt(TabAt(tab, bs, n), bs, v) = DOMAIN TabAt(tab, bs, n) \cup DOMAIN TabAt(tab, bs, w)
  PROVE  /\ DOMAIN TabAt(TabAt(tab, bs, n), bs, v + Len(J)) =
              DOMAIN TabAt(tab, bs, n) \cup DOMAIN TabAt(tab, bs, w + Len(K))
         /\ SlotHealed(TabAt(TabAt(tab, bs, n), bs, v + Len(J)), TabAt(tab, bs, w + Len(K)), s, kind, back)
  <1> DEFINE T(i) == TabAt(tab, bs, i)
             N == Len(All(tab, bs))
             H == T(n)
             len == Len(K)
             p == Among(n, w, len)
             V == T(w)
             M == T(w + p)
             W == T(w + len)
             Q == TabAt(H, bs, v)
             Z == TabAt(H, bs, v + Len(J))
  <1>1. /\ N \in Nat /\ n \in 0..N /\ \A i \in 0..N : Table(T(i)) /\ Numbered(T(i))
        /\ \A i \in 0..N : \A j \in 0..i : DOMAIN T(j) \subseteq DOMAIN T(i)
    <2>1. Listed(All(tab, bs), bs) /\ N \in Nat
      BY TabAtIs
    <2>2. \A i \in 0..N : \A j \in 0..i : DOMAIN T(j) \subseteq DOMAIN T(i)
      BY <2>1, DomainsGrow DEF TabAt
    <2> QED
      BY <2>1, <2>2, TabAtIs, PassNumbered
  <1>2. Resumed(V, M, Q, s, kind, bs)
    BY SlotsMeet
  <1>3. /\ w \in Nat /\ len \in Nat /\ w + len <= N
        /\ K = KindCommits(V, s, bs, kind) /\ Listed(K, bs)
        /\ \A i \in 0..len : T(w + i) = After(V, K, i)
    BY DEF Block
  <1>4. /\ J = KindCommits(Q, s, bs, kind) /\ Len(J) \in Nat
        /\ Z = After(Q, J, Len(J))
    <2>1. /\ J = KindCommits(Q, s, bs, kind) /\ Len(J) \in Nat
          /\ \A i \in 0..Len(J) : TabAt(H, bs, v + i) = After(Q, J, i)
      BY DEF Block
    <2>2. Len(J) \in 0..Len(J)
      BY <2>1
    <2> QED
      BY <2>1, <2>2
  <1>5. DOMAIN Q = DOMAIN H \cup DOMAIN V
    OBVIOUS
  <1> HIDE DEF Q, Z, H, N
  <1>6. n \in Nat /\ w \in Nat /\ len \in Nat
    BY <1>1, <1>3
  <1>7. /\ p \in 0..len
        /\ p = 0 /\ len # 0 => n <= w
        /\ p # 0 => n >= w + p
    BY <1>6, AmongIs
  <1> HIDE DEF p
  <1>8. M = After(V, K, p) /\ W = After(V, K, len)
    BY <1>3, <1>7
  <1>9. w \in 0..N /\ w + len \in 0..N /\ w \in 0..(w + len) /\ w + p \in 0..N
    BY <1>1, <1>3, <1>7
  <1>10. DOMAIN V \subseteq DOMAIN W /\ Table(V) /\ Numbered(V)
    BY <1>1, <1>9
  <1>11. p = 0 /\ len # 0 => DOMAIN Q = DOMAIN V
    <2> SUFFICES ASSUME p = 0, len # 0 PROVE DOMAIN Q = DOMAIN V
      OBVIOUS
    <2>1. n \in 0..w
      BY <1>6, <1>7
    <2>2. DOMAIN H \subseteq DOMAIN V
      BY <1>1, <1>9, <2>1 DEF H
    <2> QED
      BY <1>5, <2>2
  <1>12. p # 0 => DOMAIN W \subseteq DOMAIN Q
    <2> SUFFICES ASSUME p # 0 PROVE DOMAIN W \subseteq DOMAIN Q
      OBVIOUS
    <2>1. w + p \in 0..n
      BY <1>6, <1>7
    <2>2. DOMAIN M \subseteq DOMAIN H
      BY <1>1, <2>1 DEF H
    <2>3. OfKind(K, V, s, kind)
      <3> DEFINE C == KindCommits(V, s, bs, kind)
                 v0 == V
      <3>1. C = KindCommits(v0, s, bs, kind) /\ K = C
        BY <1>3
      <3>2. Table(v0) /\ Numbered(v0)
        BY <1>10
      <3> HIDE DEF C, v0
      <3>3. OfKind(C, v0, s, kind)
        BY <3>1, <3>2, KindKeys
      <3> QED
        BY <3>1, <3>3 DEF v0
    <2>4. p \in 1..len
      BY <1>6, <1>7
    <2>5. DOMAIN After(V, K, p) = DOMAIN After(V, K, len)
      <3> DEFINE v0 == V
      <3>1. OfKind(K, v0, s, kind) /\ Table(v0)
        BY <1>10, <2>3
      <3> HIDE DEF v0
      <3>2. DOMAIN After(v0, K, p) = DOMAIN After(v0, K, Len(K))
        BY <1>3, <2>4, <3>1, PutsFirst
      <3> QED
        BY <3>2 DEF v0
    <2> QED
      BY <1>5, <1>8, <2>2, <2>5
  <1>13. DOMAIN V \subseteq DOMAIN Q
    BY <1>5
  <1>14. DOMAIN Z = DOMAIN Q \cup DOMAIN W /\ SlotHealed(Z, W, s, kind, back)
    <2> DEFINE v0 == V
               m0 == M
               w0 == W
    <2>1. /\ Resumed(v0, m0, Q, s, kind, bs) /\ K = KindCommits(v0, s, bs, kind)
          /\ m0 = After(v0, K, p) /\ w0 = After(v0, K, Len(K))
          /\ J = KindCommits(Q, s, bs, kind) /\ Z = After(Q, J, Len(J))
      BY <1>2, <1>3, <1>4, <1>8
    <2>2. /\ DOMAIN v0 \subseteq DOMAIN Q /\ (p = 0 /\ Len(K) # 0 => DOMAIN Q = DOMAIN v0)
          /\ (p # 0 => DOMAIN w0 \subseteq DOMAIN Q) /\ Back(K) \subseteq back /\ p \in 0..Len(K)
      BY <1>7, <1>11, <1>12, <1>13
    <2> HIDE DEF v0, m0, w0, T
    <2>3. Meets(v0, m0, w0, Q, Z, K, J, p, s, kind, bs, back)
      BY <2>1, <2>2 DEF Meets
    <2>4. DOMAIN Z = DOMAIN Q \cup DOMAIN w0 /\ SlotHealed(Z, w0, s, kind, back)
      BY <2>3, KindHeals
    <2> QED
      BY <2>4 DEF w0
  <1>15. DOMAIN Z = DOMAIN H \cup DOMAIN W
    BY <1>5, <1>10, <1>14
  <1> QED
    BY <1>14, <1>15 DEF Z, H

\* What is healed after the blocks is so in the end.
LEMMA HealedOn ==
  ASSUME NEW bs \in Seq(BarShapes), NEW s, NEW kind, NEW back,
         NEW tab, NEW w, NEW K, Block(tab, bs, s, kind, w, K),
         NEW H, NEW v, NEW J, Block(H, bs, s, kind, v, J),
         SlotHealed(TabAt(H, bs, v + Len(J)), TabAt(tab, bs, w + Len(K)), s, kind, back)
  PROVE  SlotHealed(TabAt(H, bs, Len(All(H, bs))), TabAt(tab, bs, Len(All(tab, bs))), s, kind, back)
  <1> DEFINE N == Len(All(tab, bs))
             A == Len(All(H, bs))
             W == TabAt(tab, bs, w + Len(K))
             Z == TabAt(H, bs, v + Len(J))
             FW == TabAt(tab, bs, N)
             FZ == TabAt(H, bs, A)
  <1>1. \A x : InSlot(x, s, kind) => Agree(FW, W, x)
    <2>1. /\ w \in Nat /\ Len(K) \in Nat /\ w + Len(K) <= N /\ N \in Nat
          /\ \A x : InSlot(x, s, kind) => \A i \in (w + Len(K))..N : Agree(TabAt(tab, bs, i), W, x)
      BY DEF Block
    <2>2. N \in (w + Len(K))..N
      BY <2>1
    <2> QED
      BY <2>1, <2>2
  <1>2. \A x : InSlot(x, s, kind) => Agree(FZ, Z, x)
    <2>1. /\ v \in Nat /\ Len(J) \in Nat /\ v + Len(J) <= A /\ A \in Nat
          /\ \A x : InSlot(x, s, kind) => \A i \in (v + Len(J))..A : Agree(TabAt(H, bs, i), Z, x)
      BY DEF Block
    <2>2. A \in (v + Len(J))..A
      BY <2>1
    <2> QED
      BY <2>1, <2>2
  <1>3. SlotHealed(Z, W, s, kind, back)
    OBVIOUS
  <1> HIDE DEF W, Z, FW, FZ
  <1>4. SlotHealed(FZ, FW, s, kind, back)
    <2> SUFFICES ASSUME NEW x, InSlot(x, s, kind)
                 PROVE  /\ x \in DOMAIN FZ <=> x \in DOMAIN FW
                        /\ x \in DOMAIN FZ /\ FZ[x] # FW[x] =>
                             \E old \in back : /\ InSlot(old, s, kind) /\ old \in DOMAIN FZ
                                               /\ FZ[old].id < FZ[x].id \/ FZ[old].status = "broken"
      BY DEF SlotHealed
    <2>1. /\ x \in DOMAIN Z <=> x \in DOMAIN W
          /\ x \in DOMAIN Z /\ Z[x] # W[x] =>
               \E old \in back : /\ InSlot(old, s, kind) /\ old \in DOMAIN Z
                                 /\ Z[old].id < Z[x].id \/ Z[old].status = "broken"
      BY <1>3 DEF SlotHealed
    <2>2. Agree(FZ, Z, x) /\ Agree(FW, W, x)
      BY <1>1, <1>2
    <2>3. x \in DOMAIN FZ <=> x \in DOMAIN FW
      BY <2>1, <2>2 DEF Agree
    <2>4. ASSUME x \in DOMAIN FZ, FZ[x] # FW[x]
          PROVE  \E old \in back : /\ InSlot(old, s, kind) /\ old \in DOMAIN FZ
                                   /\ FZ[old].id < FZ[x].id \/ FZ[old].status = "broken"
      <3>1. x \in DOMAIN Z /\ Z[x] # W[x] /\ FZ[x] = Z[x]
        BY <2>1, <2>2, <2>4 DEF Agree
      <3>2. PICK old \in back : /\ InSlot(old, s, kind) /\ old \in DOMAIN Z
                                /\ Z[old].id < Z[x].id \/ Z[old].status = "broken"
        BY <2>1, <3>1
      <3>3. old \in DOMAIN FZ /\ FZ[old] = Z[old]
        BY <1>2, <3>2 DEF Agree
      <3> QED
        BY <3>1, <3>2, <3>3
    <2> QED
      BY <2>3, <2>4
  <1> QED
    BY <1>4 DEF FZ, FW

\* The lines a kind brings back are among those the pass does.
LEMMA BackJoined ==
  ASSUME NEW c, NEW a, NEW b, Joined(c, a, b)
  PROVE  Back(a) \subseteq Back(c) /\ Back(b) \subseteq Back(c)
  <1>1. /\ Len(a) \in Nat /\ Len(b) \in Nat /\ Len(c) = Len(a) + Len(b)
        /\ \A i \in 1..Len(a) : c[i] = a[i]
        /\ \A i \in (Len(a) + 1)..Len(c) : i - Len(a) \in 1..Len(b) /\ c[i] = b[i - Len(a)]
    BY DEF Joined
  <1>2. ASSUME NEW x \in Back(a) PROVE x \in Back(c)
    <2>1. PICK i \in 1..Len(a) : a[i].op = "revive" /\ x = a[i].key
      BY DEF Back
    <2>2. i \in 1..Len(c) /\ c[i] = a[i]
      BY <1>1
    <2> QED
      BY <2>1, <2>2 DEF Back
  <1>3. ASSUME NEW x \in Back(b) PROVE x \in Back(c)
    <2>1. PICK i \in 1..Len(b) : b[i].op = "revive" /\ x = b[i].key
      BY DEF Back
    <2> DEFINE j == Len(a) + i
    <2>2. j \in (Len(a) + 1)..Len(c) /\ j \in 1..Len(c) /\ j - Len(a) = i
      BY <1>1
    <2>3. c[j] = b[i]
      BY <1>1, <2>2
    <2> HIDE DEF j
    <2> QED
      BY <2>1, <2>2, <2>3 DEF Back
  <1> QED
    BY <1>2, <1>3

\* So it is for the lines the kinds of a scale bring back.
LEMMA BackOfKind ==
  ASSUME NEW bs \in Seq(BarShapes), NEW tab, Table(tab), Numbered(tab), NEW s \in 1..Len(Scales)
  PROVE  /\ Back(FoundOf(tab, s, bs, "resistance")) \subseteq Back(All(tab, bs))
         /\ Back(FoundOf(tab, s, bs, "support")) \subseteq Back(All(tab, bs))
  <1> DEFINE E == EndsOf(tab, s, bs)
             R == FoundOf(tab, s, bs, "resistance")
             P == FoundOf(tab, s, bs, "support")
             C == LinesOf(tab, bs, s)
             f == Gathered(tab, bs, s - 1)
             g == Gathered(tab, bs, s)
             h == All(tab, bs)
  <1>1. Len(Scales) \in Nat /\ s \in DOMAIN Scales /\ s - 1 \in Nat /\ (s - 1) + 1 = s
        /\ s - 1 \in 0..Len(Scales) /\ s \in 0..Len(Scales) /\ Len(Scales) \in 0..Len(Scales)
    BY TrendAssumption
  <1>2. C = (E \o R) \o P /\ Listed(E, bs) /\ Listed(R, bs) /\ Listed(P, bs)
    BY <1>1, ScaleParts
  <1>3. g = f \o C /\ Listed(f, bs) /\ Listed(C, bs)
    <2>1. Gathered(tab, bs, (s - 1) + 1) = f \o LinesOf(tab, bs, (s - 1) + 1)
      BY <1>1, GatheredSteps
    <2>2. Listed(f, bs)
      BY <1>1, GatheredListed
    <2> QED
      BY <1>1, <2>1, <2>2, ScaleKeys
  <1>4. PlacedIn(tab, bs, s, Len(Scales))
    BY <1>1, ScalesStand
  <1>5. Len(g) <= Len(h) /\ \A i \in 1..Len(g) : h[i] = g[i]
    BY <1>4 DEF PlacedIn, All
  <1>6. Len(h) \in Nat /\ Len(g) \in Nat
    <2>1. Listed(g, bs) /\ Listed(h, bs)
      BY <1>1, GatheredListed DEF All
    <2> QED
      BY <2>1, ListedLen
  <1> HIDE DEF E, R, P, C, f, g, h
  <1>7. Back(g) \subseteq Back(h)
    BY <1>5, <1>6 DEF Back
  <1>8. Back(C) \subseteq Back(g)
    <2> DEFINE fc == f \o C
    <2>1. Joined(fc, f, C)
      BY <1>3, BothHave
    <2> HIDE DEF fc
    <2>2. Back(C) \subseteq Back(fc)
      BY <2>1, BackJoined
    <2> QED
      BY <1>3, <2>2 DEF fc
  <1>9. Back(R) \subseteq Back(C) /\ Back(P) \subseteq Back(C)
    <2> DEFINE er == E \o R
    <2>1. Listed(er, bs) /\ Joined(er, E, R)
      BY <1>2, BothHave
    <2> HIDE DEF er
    <2> DEFINE all == er \o P
    <2>2. Joined(all, er, P)
      BY <1>2, <2>1, BothHave
    <2>3. C = all
      BY <1>2 DEF er
    <2> HIDE DEF all
    <2>4. Back(R) \subseteq Back(er)
      BY <2>1, BackJoined
    <2>5. Back(er) \subseteq Back(all) /\ Back(P) \subseteq Back(all)
      BY <2>2, BackJoined
    <2> QED
      BY <2>3, <2>4, <2>5
  <1>10. Back(R) \subseteq Back(h) /\ Back(P) \subseteq Back(h)
    BY <1>7, <1>8, <1>9
  <1> QED
    BY <1>10 DEF R, P, h

\* A pass stopped after its first n commits.
StopsAt(H, tab, bs, n) == n \in 0..Len(All(tab, bs)) /\ H = TabAt(tab, bs, n)

\* Where the passes have come to the same scale, they have stored the same lines
\* but for those the stopped one had; and the lines of the scale are healed.
LEMMA ScaleHeals ==
  ASSUME NEW bs \in Seq(BarShapes), NEW tab, Table(tab), Numbered(tab), OneEach(tab),
         NEW n, NEW H, StopsAt(H, tab, bs, n), NEW s \in 1..Len(Scales),
         DOMAIN TabAt(H, bs, StartOf(H, bs, s)) = DOMAIN H \cup DOMAIN TabAt(tab, bs, StartOf(tab, bs, s))
  PROVE  /\ DOMAIN TabAt(H, bs, Len(Gathered(H, bs, s))) =
              DOMAIN H \cup DOMAIN TabAt(tab, bs, Len(Gathered(tab, bs, s)))
         /\ \A kind \in Kinds :
              SlotHealed(TabAt(H, bs, Len(All(H, bs))), TabAt(tab, bs, Len(All(tab, bs))), s, kind,
                         Back(All(tab, bs)))
  <1> DEFINE T(i) == TabAt(tab, bs, i)
             Y(i) == TabAt(H, bs, i)
             back == Back(All(tab, bs))
             u  == StartOf(tab, bs, s)
             E  == EndsOf(tab, s, bs)
             R  == FoundOf(tab, s, bs, "resistance")
             P  == FoundOf(tab, s, bs, "support")
             u2 == StartOf(H, bs, s)
             E2 == EndsOf(H, s, bs)
             R2 == FoundOf(H, s, bs, "resistance")
             P2 == FoundOf(H, s, bs, "support")
             w  == u + Len(E)
             w2 == u2 + Len(E2)
             z  == w + Len(R)
             z2 == w2 + Len(R2)
             top  == Len(Gathered(tab, bs, s))
             top2 == Len(Gathered(H, bs, s))
  <1>0. n \in 0..Len(All(tab, bs)) /\ H = TabAt(tab, bs, n)
    BY DEF StopsAt
  <1> USE <1>0
  <1>1. Table(H) /\ Numbered(H) /\ s \in DOMAIN Scales
    BY TrendAssumption, TabAtIs, PassNumbered
  <1>2. ScaleBlocks(tab, bs, s, u, E, R, P) /\ ScaleBlocks(H, bs, s, u2, E2, R2, P2)
    BY <1>1, BlocksAre
  <1>3. Back(R) \subseteq back /\ Back(P) \subseteq back
    BY BackOfKind
  <1>4. DOMAIN Y(u2) = DOMAIN H \cup DOMAIN T(u)
    OBVIOUS
  <1>5. One(Actives(tab, s, "resistance")) /\ One(Actives(tab, s, "support"))
    BY <1>1 DEF OneEach, Kinds
  <1> HIDE DEF u, E, R, P, u2, E2, R2, P2, back
  <1>6. /\ Block(tab, bs, s, "resistance", w, R) /\ Block(tab, bs, s, "support", z, P)
        /\ \A i \in 0..Len(E) : DOMAIN T(u + i) = DOMAIN T(u)
        /\ z + Len(P) = top /\ Len(E) \in Nat
    BY <1>2 DEF ScaleBlocks, Thirds
  <1>7. /\ Block(H, bs, s, "resistance", w2, R2) /\ Block(H, bs, s, "support", z2, P2)
        /\ \A i \in 0..Len(E2) : DOMAIN Y(u2 + i) = DOMAIN Y(u2)
        /\ z2 + Len(P2) = top2 /\ Len(E2) \in Nat
    BY <1>2 DEF ScaleBlocks, Thirds
  <1> HIDE DEF top, top2
  <1>8. DOMAIN Y(w2) = DOMAIN H \cup DOMAIN T(w)
    <2>1. Len(E) \in 0..Len(E) /\ Len(E2) \in 0..Len(E2)
      BY <1>6, <1>7
    <2>2. DOMAIN Y(w2) = DOMAIN Y(u2) /\ DOMAIN T(w) = DOMAIN T(u)
      BY <1>6, <1>7, <2>1
    <2> QED
      BY <1>4, <2>2
  <1> HIDE DEF w, w2
  <1>9. "resistance" \in Kinds /\ "support" \in Kinds /\ \A kind \in Kinds : kind = "resistance" \/ kind = "support"
    BY DEF Kinds
  <1>10. /\ DOMAIN Y(z2) = DOMAIN H \cup DOMAIN T(z)
         /\ SlotHealed(Y(z2), T(z), s, "resistance", back)
    <2> DEFINE k == "resistance"
    <2>1. /\ One(Actives(tab, s, k)) /\ Block(tab, bs, s, k, w, R) /\ Block(TabAt(tab, bs, n), bs, s, k, w2, R2)
          /\ Back(R) \subseteq back /\ k \in Kinds
          /\ DOMAIN TabAt(TabAt(tab, bs, n), bs, w2) = DOMAIN TabAt(tab, bs, n) \cup DOMAIN TabAt(tab, bs, w)
      BY <1>3, <1>5, <1>6, <1>7, <1>8, <1>9
    <2> HIDE DEF k
    <2>2. /\ DOMAIN TabAt(TabAt(tab, bs, n), bs, w2 + Len(R2)) =
               DOMAIN TabAt(tab, bs, n) \cup DOMAIN TabAt(tab, bs, w + Len(R))
          /\ SlotHealed(TabAt(TabAt(tab, bs, n), bs, w2 + Len(R2)), TabAt(tab, bs, w + Len(R)), s, k, back)
      BY <1>1, <2>1, BlockHeals
    <2> QED
      BY <2>2 DEF k
  <1>11. /\ DOMAIN Y(top2) = DOMAIN H \cup DOMAIN T(top)
         /\ SlotHealed(Y(top2), T(top), s, "support", back)
    <2> DEFINE k == "support"
    <2>1. /\ One(Actives(tab, s, k)) /\ Block(tab, bs, s, k, z, P) /\ Block(TabAt(tab, bs, n), bs, s, k, z2, P2)
          /\ Back(P) \subseteq back /\ k \in Kinds
          /\ DOMAIN TabAt(TabAt(tab, bs, n), bs, z2) = DOMAIN TabAt(tab, bs, n) \cup DOMAIN TabAt(tab, bs, z)
      BY <1>3, <1>5, <1>6, <1>7, <1>9, <1>10
    <2> HIDE DEF k, z, z2
    <2>2. /\ DOMAIN TabAt(TabAt(tab, bs, n), bs, z2 + Len(P2)) =
               DOMAIN TabAt(tab, bs, n) \cup DOMAIN TabAt(tab, bs, z + Len(P))
          /\ SlotHealed(TabAt(TabAt(tab, bs, n), bs, z2 + Len(P2)), TabAt(tab, bs, z + Len(P)), s, k, back)
      BY <1>1, <2>1, BlockHeals
    <2> QED
      BY <1>6, <1>7, <2>2 DEF k
  <1> DEFINE FZ == Y(Len(All(H, bs)))
             FW == T(Len(All(tab, bs)))
  <1>12. SlotHealed(FZ, FW, s, "resistance", back)
    <2>1. SlotHealed(TabAt(H, bs, w2 + Len(R2)), TabAt(tab, bs, w + Len(R)), s, "resistance", back)
      BY <1>10
    <2> QED
      BY <1>6, <1>7, <2>1, HealedOn
  <1>13. SlotHealed(FZ, FW, s, "support", back)
    <2>1. SlotHealed(TabAt(H, bs, z2 + Len(P2)), TabAt(tab, bs, z + Len(P)), s, "support", back)
      BY <1>6, <1>7, <1>11
    <2> HIDE DEF z, z2
    <2> QED
      BY <1>6, <1>7, <2>1, HealedOn
  <1>14. \A kind \in Kinds : SlotHealed(FZ, FW, s, kind, back)
    <2> HIDE DEF FZ, FW
    <2> QED
      BY <1>9, <1>12, <1>13
  <1> QED
    BY <1>11, <1>14 DEF top, top2, back

\* What the pass does not look at stays.
LEMMA OffScales ==
  ASSUME NEW bs \in Seq(BarShapes), NEW tab, Table(tab), Numbered(tab),
         NEW x, ~(x[1] \in 1..Len(Scales) /\ x[2] \in Kinds)
  PROVE  \A i \in 0..Len(All(tab, bs)) : Agree(TabAt(tab, bs, i), tab, x)
  <1> DEFINE h == All(tab, bs)
  <1>1. Len(Scales) \in 0..Len(Scales)
    BY TrendAssumption
  <1>2. \A i \in 1..Len(h) : h[i].key[1] \in 1..Len(Scales) /\ h[i].key[2] \in Kinds
    BY <1>1, ScalesStand DEF All
  <1>3. Listed(h, bs)
    BY TabAtIs
  <1> HIDE DEF h
  <1>4. \A i \in 1..Len(h) : h[i].key # x
    BY <1>2
  <1>5. \A i \in 0..Len(h) : Agree(After(tab, h, i), tab, x)
    BY <1>3, <1>4, Untouched
  <1> QED
    BY <1>5 DEF TabAt, h

\* The archive the next pass leaves is that of an undisturbed one, but for what a
\* line brought back excuses.
Healed(got, right, back) ==
  /\ DOMAIN got = DOMAIN right
  /\ \A key \in DOMAIN got : got[key] # right[key] =>
       \E old \in back : /\ old \in DOMAIN got /\ old[1] = key[1] /\ old[2] = key[2]
                         /\ got[old].id < got[key].id \/ got[old].status = "broken"

\* So it is wherever the first pass stopped.
LEMMA PassHeals ==
  ASSUME NEW bs \in Seq(BarShapes), NEW tab, Table(tab), Numbered(tab), OneEach(tab),
         NEW n, NEW H, StopsAt(H, tab, bs, n)
  PROVE  Healed(TabAt(H, bs, Len(All(H, bs))), TabAt(tab, bs, Len(All(tab, bs))), Back(All(tab, bs)))
  <1> DEFINE b == Len(Scales)
             back == Back(All(tab, bs))
             N == Len(All(tab, bs))
             A == Len(All(H, bs))
             X(s) == TabAt(tab, bs, Len(Gathered(tab, bs, s)))
             Y(s) == TabAt(H, bs, Len(Gathered(H, bs, s)))
             W == TabAt(tab, bs, N)
             Z == TabAt(H, bs, A)
             good == {s \in 0..b : DOMAIN Y(s) = DOMAIN H \cup DOMAIN X(s)}
  <1>0. n \in 0..Len(All(tab, bs)) /\ H = TabAt(tab, bs, n)
    BY DEF StopsAt
  <1>1. b \in Nat /\ W = X(b) /\ Z = Y(b)
    BY TrendAssumption DEF All
  <1>2. Table(H) /\ Numbered(H) /\ N \in Nat /\ n \in 0..N
    BY <1>0, TabAtIs, PassNumbered
  <1>3. \A i \in 0..N : \A j \in 0..i : DOMAIN TabAt(tab, bs, j) \subseteq DOMAIN TabAt(tab, bs, i)
    BY TabAtIs, DomainsGrow DEF TabAt
  <1>4. 0 \in good
    <2>1. Y(0) = H /\ X(0) = tab
      <3>1. Len(Gathered(tab, bs, 0)) = 0 /\ Len(Gathered(H, bs, 0)) = 0
        BY GatheredSteps
      <3> QED
        BY <1>2, <3>1, TabAtIs
    <2>2. DOMAIN tab \subseteq DOMAIN H
      <3>1. 0 \in 0..n /\ TabAt(tab, bs, 0) = tab
        BY <1>2, TabAtIs
      <3> QED
        BY <1>0, <1>2, <1>3, <3>1
    <2>3. DOMAIN Y(0) = DOMAIN H \cup DOMAIN X(0)
      BY <2>1, <2>2
    <2>4. 0 \in 0..b
      BY <1>1
    <2> HIDE DEF X, Y, b
    <2> QED
      BY <2>3, <2>4
  <1>5. ASSUME NEW s \in 1..b, s - 1 \in good
        PROVE  s \in good /\ \A kind \in Kinds : SlotHealed(Z, W, s, kind, back)
    <2>1. s \in 0..b
      BY <1>1
    <2>2. DOMAIN TabAt(H, bs, StartOf(H, bs, s)) = DOMAIN H \cup DOMAIN TabAt(tab, bs, StartOf(tab, bs, s))
      BY <1>5 DEF StartOf
    <2>3. /\ DOMAIN TabAt(H, bs, Len(Gathered(H, bs, s))) =
                DOMAIN H \cup DOMAIN TabAt(tab, bs, Len(Gathered(tab, bs, s)))
          /\ \A kind \in Kinds :
                SlotHealed(TabAt(H, bs, Len(All(H, bs))), TabAt(tab, bs, Len(All(tab, bs))), s, kind,
                           Back(All(tab, bs)))
      BY <2>2, ScaleHeals
    <2> QED
      BY <2>1, <2>3
  <1> DEFINE healed(s) == \A kind \in Kinds : SlotHealed(Z, W, s, kind, back)
  <1> HIDE DEF good, b, healed
  <1>6. \A s \in 0..b : s \in good
    BY <1>1, <1>4, <1>5, CountingUp
  <1>7. \A s \in 1..b : healed(s)
    <2> SUFFICES ASSUME NEW s \in 1..b PROVE healed(s)
      OBVIOUS
    <2>1. s - 1 \in 0..b
      BY <1>1
    <2> QED
      BY <1>5, <1>6, <2>1 DEF healed
  <1>8. DOMAIN Z = DOMAIN W
    <2>1. b \in good
      BY <1>1, <1>6
    <2>2. DOMAIN Y(b) = DOMAIN H \cup DOMAIN X(b)
      BY <2>1 DEF good
    <2>3. DOMAIN H \subseteq DOMAIN W
      <3>1. N \in 0..N /\ n \in 0..N
        BY <1>2
      <3> QED
        BY <1>0, <1>3, <3>1
    <2> QED
      BY <1>1, <2>2, <2>3
  <1>9. \A x : ~(x[1] \in 1..b /\ x[2] \in Kinds) => Agree(Z, W, x)
    <2> SUFFICES ASSUME NEW x, ~(x[1] \in 1..b /\ x[2] \in Kinds) PROVE Agree(Z, W, x)
      OBVIOUS
    <2>1. N \in 0..N /\ A \in 0..A
      BY <1>2, TabAtIs
    <2>2. Agree(H, tab, x) /\ Agree(W, tab, x)
      BY <1>0, <2>1, OffScales DEF b
    <2>3. Agree(Z, H, x)
      BY <1>2, <2>1, OffScales DEF b
    <2> HIDE DEF Z, W
    <2> QED
      BY <2>2, <2>3 DEF Agree
  <1> HIDE DEF Z, W, back
  <1>10. ASSUME NEW key \in DOMAIN Z, Z[key] # W[key]
         PROVE  \E old \in back : /\ old \in DOMAIN Z /\ old[1] = key[1] /\ old[2] = key[2]
                                  /\ Z[old].id < Z[key].id \/ Z[old].status = "broken"
    <2>1. key[1] \in 1..b /\ key[2] \in Kinds
      BY <1>9, <1>10 DEF Agree
    <2> DEFINE s == key[1]
               kind == key[2]
    <2>2. SlotHealed(Z, W, s, kind, back)
      BY <1>7, <2>1 DEF healed
    <2>3. InSlot(key, s, kind)
      BY DEF InSlot
    <2> HIDE DEF s, kind
    <2>4. PICK old \in back : /\ InSlot(old, s, kind) /\ old \in DOMAIN Z
                              /\ Z[old].id < Z[key].id \/ Z[old].status = "broken"
      BY <1>10, <2>2, <2>3 DEF SlotHealed
    <2> QED
      BY <2>4 DEF InSlot, s, kind
  <1>11. Healed(Z, W, back)
    BY <1>8, <1>10 DEF Healed
  <1> QED
    BY <1>11 DEF Z, W, back

\* The archive after a pass, and where one stopped.
LEMMA PassReaches ==
  ASSUME NEW bs, NEW tab
  PROVE  /\ Commits(tab, bs) = All(tab, bs) /\ Pass(tab, bs) = TabAt(tab, bs, Len(All(tab, bs)))
         /\ \A x \in Halfway(tab, Commits(tab, bs)) :
              \E n \in 0..(Len(All(tab, bs)) - 1) : x = TabAt(tab, bs, n)
  <1> DEFINE cs == Gathered(tab, bs, Len(Scales))
  <1>1. Commits(tab, bs) = cs /\ Pass(tab, bs) = After(tab, cs, Len(cs))
    BY PassIs
  <1>2. cs = All(tab, bs)
    BY DEF All
  <1> HIDE DEF cs
  <1>3. \A x \in Halfway(tab, cs) : \E n \in 0..(Len(cs) - 1) : x = After(tab, cs, n)
    BY DEF Halfway
  <1> QED
    BY <1>1, <1>2, <1>3 DEF TabAt

\* The rows stay numbered, wherever a pass stops.
LEMMA PassesNumber ==
  ASSUME NEW bs \in Seq(BarShapes), NEW tab, Table(tab), Numbered(tab)
  PROVE  /\ Table(Pass(tab, bs)) /\ Numbered(Pass(tab, bs))
         /\ \A x \in Halfway(tab, Commits(tab, bs)) : Numbered(x)
  <1> DEFINE N == Len(All(tab, bs))
             T(i) == TabAt(tab, bs, i)
  <1>1. N \in Nat /\ \A i \in 0..N : Table(T(i)) /\ Numbered(T(i))
    BY TabAtIs, PassNumbered
  <1>2. Pass(tab, bs) = T(N)
    BY PassReaches
  <1>3. \A x \in Halfway(tab, Commits(tab, bs)) : \E n \in 0..(N - 1) : x = T(n)
    BY PassReaches
  <1> HIDE DEF N, T
  <1>4. N \in 0..N /\ \A n \in 0..(N - 1) : n \in 0..N
    BY <1>1
  <1> QED
    BY <1>1, <1>2, <1>3, <1>4

\* A replayed archive is numbered.
LEMMA ReplayNumbers ==
  ASSUME NEW hs \in Seq(BarShapes)
  PROVE  Numbered(Replay(hs, Len(hs)))
  <1> DEFINE b == Len(hs)
             T(n) == Passes(<<>>, hs, n)
             good == {n \in 0..b : Table(T(n)) /\ Numbered(T(n))}
  <1>1. b \in Nat
    OBVIOUS
  <1>2. 0 \in good
    <2>1. T(0) = <<>>
      BY PassesSteps
    <2>2. Table(<<>>)
      BY NothingStored
    <2>3. Numbered(<<>>)
      <3>1. DOMAIN <<>> = {}
        OBVIOUS
      <3> QED
        BY <3>1 DEF Numbered
    <2> HIDE DEF T
    <2> QED
      BY <1>1, <2>1, <2>2, <2>3
  <1>3. ASSUME NEW n \in 1..b, n - 1 \in good PROVE n \in good
    <2> DEFINE m == n - 1
               t == T(m)
               p == SubSeq(hs, 1, n)
    <2>1. m \in Nat /\ m + 1 = n /\ n \in 0..b /\ n - 1 + 1 = n /\ 1 <= n /\ n <= b /\ n \in Int /\ 1 \in Int
      BY <1>1
    <2>2. Table(t) /\ Numbered(t)
      BY <1>3
    <2>3. p \in Seq(BarShapes)
      <3>1. \A i \in 1..n : hs[i] \in BarShapes /\ 1 + i - 1 = i
        BY <1>1
      <3> HIDE DEF b
      <3> QED
        BY <2>1, <3>1, SubSeqProperties
    <2> HIDE DEF m
    <2>4. T(n) = Pass(t, p)
      <3>1. T(m + 1) = Pass(T(m), SubSeq(hs, 1, m + 1))
        BY <2>1, PassesSteps
      <3> QED
        BY <2>1, <3>1
    <2> HIDE DEF t, p
    <2>5. Table(Pass(t, p)) /\ Numbered(Pass(t, p))
      BY <2>2, <2>3, PassesNumber
    <2> QED
      BY <2>1, <2>4, <2>5
  <1> HIDE DEF good
  <1>4. \A n \in 0..b : n \in good
    <2> HIDE DEF b
    <2> QED
      BY <1>1, <1>2, <1>3, CountingUp
  <1>5. b \in good
    <2>1. b \in 0..b
      BY <1>1
    <2> QED
      BY <1>4, <2>1
  <1> QED
    BY <1>5 DEF good, Replay

\* The rows of the archive are numbered.
NumberedInv == TrendInv /\ Numbered(lines)

\* So they are at the start,
LEMMA NumberedInitially == TrendInit => NumberedInv
  <1> SUFFICES ASSUME TrendInit PROVE NumberedInv
    OBVIOUS
  <1>1. lines = <<>>
    BY DEF TrendInit
  <1>2. DOMAIN lines = {}
    BY <1>1
  <1>3. Numbered(lines)
    BY <1>2 DEF Numbered
  <1> QED
    BY <1>3, TrendInitially DEF NumberedInv

\* and after every step.
LEMMA NumberedSteps == NumberedInv /\ [TrendNext]_trendVars => NumberedInv'
  <1> SUFFICES ASSUME NumberedInv, [TrendNext]_trendVars PROVE NumberedInv'
    OBVIOUS
  <1>1. TrendInv /\ Numbered(lines) /\ bars \in Seq(BarShapes) /\ Table(lines)
    BY DEF NumberedInv, TrendInv
  <1>2. TrendInv'
    BY <1>1, TrendSteps
  <1>3. CASE NewHour
    BY <1>1, <1>2, <1>3 DEF NewHour, NumberedInv
  <1>4. CASE Update
    <2>1. lines' = Pass(lines, bars)
      BY <1>4 DEF Update
    <2>2. Numbered(Pass(lines, bars))
      BY <1>1, PassesNumber
    <2> QED
      BY <1>2, <2>1, <2>2 DEF NumberedInv
  <1>5. CASE UpdateStops
    <2>1. lines' \in Halfway(lines, Commits(lines, bars))
      BY <1>5 DEF UpdateStops
    <2>2. \A x \in Halfway(lines, Commits(lines, bars)) : Numbered(x)
      BY <1>1, PassesNumber
    <2> QED
      BY <1>2, <2>1, <2>2 DEF NumberedInv
  <1>6. CASE Correct
    <2>1. PICK i \in DOMAIN bars, x \in BarShapes :
            bars' = [bars EXCEPT ![i] = x] /\ lines' = Replay(bars', Len(bars))
      BY <1>6 DEF Correct
    <2>2. bars' \in Seq(BarShapes) /\ Len(bars') = Len(bars)
      BY <1>1, <2>1, ExceptSeq
    <2>3. Numbered(lines')
      <3> DEFINE hs == bars'
      <3>1. hs \in Seq(BarShapes)
        BY <2>2
      <3> HIDE DEF hs
      <3>2. Numbered(Replay(hs, Len(hs)))
        BY <3>1, ReplayNumbers
      <3> QED
        BY <2>1, <2>2, <3>2 DEF hs
    <2> QED
      BY <1>2, <2>3 DEF NumberedInv
  <1>7. CASE UNCHANGED trendVars
    BY <1>1, <1>2, <1>7 DEF NumberedInv, trendVars
  <1> QED
    BY <1>3, <1>4, <1>5, <1>6, <1>7 DEF TrendNext

\* A set of at most one element.
LEMMA AtMostOne ==
  ASSUME NEW S, IsFiniteSet(S), Cardinality(S) <= 1
  PROVE  One(S)
  <1> SUFFICES ASSUME NEW x \in S, NEW y \in S, x # y PROVE FALSE
    BY DEF One
  <1>1. IsFiniteSet({x}) /\ Cardinality({x}) = 1
    BY FS_Singleton
  <1>2. {x} \cup {y} \subseteq S /\ y \notin {x}
    OBVIOUS
  <1>3. IsFiniteSet({x} \cup {y}) /\ Cardinality({x} \cup {y}) = Cardinality({x}) + 1
    BY <1>1, <1>2, FS_AddElement
  <1>4. Cardinality({x} \cup {y}) <= Cardinality(S) /\ Cardinality(S) \in Nat
    BY <1>2, FS_Subset, FS_CardinalityType
  <1> QED
    BY <1>1, <1>3, <1>4

\* The count the property speaks of.
LEMMA OneOfEachIs ==
  ASSUME NEW tab, Table(tab), OneOfEach(tab)
  PROVE  OneEach(tab)
  <1> SUFFICES ASSUME NEW s \in DOMAIN Scales, NEW kind \in Kinds PROVE One(Actives(tab, s, kind))
    BY DEF OneEach
  <1> DEFINE A == Actives(tab, s, kind)
  <1>1. A \subseteq DOMAIN tab /\ IsFiniteSet(DOMAIN tab)
    BY DEF Actives, Table
  <1>2. IsFiniteSet(A)
    BY <1>1, FS_Subset
  <1>3. Cardinality(A) <= 1
    BY DEF OneOfEach
  <1> HIDE DEF A
  <1>4. One(A)
    BY <1>2, <1>3, AtMostOne
  <1> QED
    BY <1>4 DEF A

\* A pass that stopped between two of its commits loses nothing: the next one over
\* the same hours brings the archive where an undisturbed one does, but for what an
\* older or a broken line brought back leaves (pipeline.py update_trendlines).
THEOREM StoppedPassesHeal == TrendSpec => []StoppedPassHeals
  <1>1. NumberedInv => StoppedPassHeals
    <2> DEFINE cs    == Commits(lines, bars)
               back  == {cs[i].key : i \in {j \in DOMAIN cs : cs[j].op = "revive"}}
               right == Pass(lines, bars)
    <2> SUFFICES ASSUME NumberedInv, OneOfEach(lines), NEW tab \in Halfway(lines, cs),
                        NEW got \in {Pass(tab, bars)}
                 PROVE  /\ DOMAIN got = DOMAIN right
                        /\ \A key \in DOMAIN got : got[key] # right[key] =>
                             \E old \in back :
                               /\ old[1] = key[1] /\ old[2] = key[2]
                               /\ got[old].id < got[key].id \/ got[old].status = "broken"
      BY DEF StoppedPassHeals
    <2>1. bars \in Seq(BarShapes) /\ Table(lines) /\ Numbered(lines) /\ OneEach(lines)
      BY OneOfEachIs DEF NumberedInv, TrendInv
    <2>2. cs = All(lines, bars) /\ right = TabAt(lines, bars, Len(All(lines, bars)))
      BY PassReaches
    <2>3. got = TabAt(tab, bars, Len(All(tab, bars)))
      BY PassReaches
    <2>4. \E n : StopsAt(tab, lines, bars, n)
      <3>1. PICK n \in 0..(Len(All(lines, bars)) - 1) : tab = TabAt(lines, bars, n)
        BY PassReaches
      <3>2. Len(All(lines, bars)) \in Nat
        BY <2>1, TabAtIs
      <3>3. n \in 0..Len(All(lines, bars))
        BY <3>1, <3>2
      <3> QED
        BY <3>1, <3>3 DEF StopsAt
    <2>5. PICK n : StopsAt(tab, lines, bars, n)
      BY <2>4
    <2>6. Healed(TabAt(tab, bars, Len(All(tab, bars))), TabAt(lines, bars, Len(All(lines, bars))),
                 Back(All(lines, bars)))
      BY <2>1, <2>5, PassHeals
    <2>7. Back(All(lines, bars)) = back
      <3> DEFINE h == All(lines, bars)
      <3>1. DOMAIN h = 1..Len(h)
        BY <2>1, TabAtIs, ListedLen
      <3>2. cs = h
        BY <2>2
      <3> HIDE DEF h, cs
      <3> QED
        BY <3>1, <3>2 DEF Back, h
    <2>8. Healed(got, right, back)
      BY <2>2, <2>3, <2>6, <2>7
    <2> HIDE DEF right, back
    <2> QED
      BY <2>8 DEF Healed
  <1> QED
    BY <1>1, NumberedInitially, NumberedSteps, PTL DEF TrendSpec
=============================================================================
