--------------------------- MODULE SetOrderTheorems ---------------------------
(***************************************************************************)
(* The least and the greatest of a set of natural numbers, and folds over  *)
(* finite sets, for the proofs about orders, spans and sums.               *)
(***************************************************************************)
EXTENDS Integers, FiniteSetTheorems, WellFoundedInduction, TLAPS

\* A set of natural numbers has a least one.
LEMMA LeastFound ==
  ASSUME NEW T \in SUBSET Nat, T # {}
  PROVE  \E x \in T : \A y \in T : x <= y
  <1> DEFINE R == OpToRel(<, Nat)
  <1>1. IsWellFoundedOn(R, Nat)
    BY NatLessThanWellFounded
  <1>2. \A x, y \in Nat : <<y, x>> \in R <=> y < x
    BY DEF OpToRel
  <1> HIDE DEF R
  <1>3. PICK x \in T : \A y \in T : ~(<<y, x>> \in R)
    BY <1>1, WFMin
  <1>4. ASSUME NEW y \in T PROVE x <= y
    <2>1. x \in Nat /\ y \in Nat /\ ~(y < x)
      BY <1>2, <1>3
    <2> QED
      BY <2>1
  <1> QED
    BY <1>4

\* A bounded one has a greatest.
LEMMA GreatestFound ==
  ASSUME NEW b \in Nat, NEW T \in SUBSET (0..b), T # {}
  PROVE  \E x \in T : \A y \in T : y <= x
  <1> DEFINE U == {b - x : x \in T}
  <1>1. U \in SUBSET Nat /\ U # {}
    <2>1. ASSUME NEW x \in T PROVE b - x \in Nat
      <3>1. x \in 0..b
        OBVIOUS
      <3> QED
        BY <3>1
    <2>2. PICK x : x \in T
      OBVIOUS
    <2>3. b - x \in U
      BY <2>2
    <2> QED
      BY <2>1, <2>3
  <1>2. PICK m \in U : \A y \in U : m <= y
    BY <1>1, LeastFound
  <1>3. PICK x \in T : m = b - x
    BY <1>2
  <1>4. ASSUME NEW y \in T PROVE y <= x
    <2>1. b - y \in U
      OBVIOUS
    <2> QED
      BY <1>2, <1>3, <2>1
  <1> QED
    BY <1>4

\* What holds of 0 and passes from each number to the next holds up to n.
LEMMA CountingUp ==
  ASSUME NEW n \in Nat, NEW good, 0 \in good, \A i \in 1..n : i - 1 \in good => i \in good
  PROVE  \A i \in 0..n : i \in good
  <1> DEFINE bad == {i \in 0..n : i \notin good}
  <1> SUFFICES ASSUME bad # {} PROVE FALSE
    OBVIOUS
  <1>1. bad \in SUBSET Nat
    OBVIOUS
  <1>2. PICK i \in bad : \A j \in bad : i <= j
    <2> HIDE DEF bad
    <2> QED
      BY <1>1, LeastFound
  <1>3. i \in 1..n /\ i - 1 \in 0..n /\ ~(i <= i - 1)
    BY <1>2
  <1>4. i - 1 \in good
    BY <1>2, <1>3
  <1> QED
    BY <1>2, <1>3, <1>4

-----------------------------------------------------------------------------
(* Folds over a finite set, as FiniteSetsExt defines them. *)

\* What each member keeps, the whole set keeps: g adds up a set by one member
\* after another.
LEMMA FoldStays ==
  ASSUME NEW S, IsFiniteSet(S), NEW X, NEW g, g[{}] \in X,
         \A s \in SUBSET S : s # {} => \E x \in s : g[s \ {x}] \in X => g[s] \in X
  PROVE  \A s \in SUBSET S : g[s] \in X
  <1> DEFINE bad == {k \in Nat : \E s \in SUBSET S : Cardinality(s) = k /\ g[s] \notin X}
  <1> SUFFICES ASSUME NEW t \in SUBSET S, g[t] \notin X PROVE FALSE
    OBVIOUS
  <1>1. \A s \in SUBSET S : IsFiniteSet(s) /\ Cardinality(s) \in Nat
    BY FS_Subset, FS_CardinalityType
  <1>2. bad \in SUBSET Nat /\ bad # {}
    BY <1>1
  <1>3. PICK k \in bad : \A j \in bad : k <= j
    <2> HIDE DEF bad
    <2> QED
      BY <1>2, LeastFound
  <1>4. PICK s \in SUBSET S : Cardinality(s) = k /\ g[s] \notin X
    BY <1>3
  <1>5. s # {}
    BY <1>4
  <1>6. PICK x \in s : g[s \ {x}] \in X => g[s] \in X
    BY <1>5
  <1>7. s \ {x} \in SUBSET S /\ g[s \ {x}] \notin X
    BY <1>4, <1>6
  <1>8. Cardinality(s \ {x}) = k - 1
    BY <1>1, <1>4, <1>6, FS_RemoveElement
  <1>9. k - 1 \in bad
    BY <1>1, <1>7, <1>8
  <1> QED
    <2>1. k \in Nat /\ k <= k - 1
      BY <1>2, <1>3, <1>9
    <2> QED
      BY <2>1

\* The fold that takes an arbitrary member first.
FoldsAt(S, base, op, g, s) ==
  g[s] = IF s = {} THEN base
         ELSE op[<<CHOOSE x \in s : TRUE, g[s \ {CHOOSE x \in s : TRUE}]>>]

\* It exists for every finite set.
LEMMA FoldExists ==
  ASSUME NEW S, IsFiniteSet(S), NEW X, NEW base \in X, NEW op \in [S \X X -> X]
  PROVE  \E g \in [SUBSET S -> X] : \A s \in SUBSET S : FoldsAt(S, base, op, g, s)
  <1> DEFINE UpTo(n) == \E g \in [SUBSET S -> X] :
                          \A s \in SUBSET S : Cardinality(s) <= n => FoldsAt(S, base, op, g, s)
             bad == {n \in Nat : ~UpTo(n)}
             one(s) == CHOOSE x \in s : TRUE
  <1>1. \A s \in SUBSET S : /\ IsFiniteSet(s) /\ Cardinality(s) \in Nat
                            /\ Cardinality(s) <= Cardinality(S)
    BY FS_Subset, FS_CardinalityType
  <1>2. \A s \in SUBSET S : s # {} => one(s) \in s
    OBVIOUS
  <1>3. bad = {}
    <2> SUFFICES ASSUME bad # {} PROVE FALSE
      OBVIOUS
    <2>1. PICK n \in bad : \A j \in bad : n <= j
      <3>1. bad \in SUBSET Nat
        OBVIOUS
      <3> HIDE DEF bad
      <3> QED
        BY <3>1, LeastFound
    <2>2. n \in Nat /\ ~UpTo(n)
      OBVIOUS
    <2>3. PICK f \in [SUBSET S -> X] :
            \A s \in SUBSET S : Cardinality(s) < n => FoldsAt(S, base, op, f, s)
      <3>1. CASE n = 0
        <4> DEFINE f == [s \in SUBSET S |-> base]
        <4>1. f \in [SUBSET S -> X]
          OBVIOUS
        <4>2. \A s \in SUBSET S : ~(Cardinality(s) < n)
          BY <1>1, <3>1
        <4> HIDE DEF f
        <4> QED
          BY <4>1, <4>2
      <3>2. CASE n # 0
        <4>1. n - 1 \in Nat /\ n - 1 \notin bad
          <5>1. n - 1 \in Nat /\ ~(n <= n - 1)
            BY <2>2, <3>2
          <5> HIDE DEF bad
          <5> QED
            BY <2>1, <5>1
        <4>2. PICK f \in [SUBSET S -> X] :
                \A s \in SUBSET S : Cardinality(s) <= n - 1 => FoldsAt(S, base, op, f, s)
          BY <4>1
        <4>3. \A s \in SUBSET S : Cardinality(s) < n => Cardinality(s) <= n - 1
          BY <1>1, <2>2
        <4> QED
          BY <4>2, <4>3
      <3> QED
        BY <3>1, <3>2
    <2> DEFINE val(s) == IF s = {} THEN base ELSE op[<<one(s), f[s \ {one(s)}]>>]
               g == [s \in SUBSET S |-> IF Cardinality(s) < n THEN f[s] ELSE val(s)]
    <2>4. \A s \in SUBSET S : val(s) \in X
      <3> SUFFICES ASSUME NEW s \in SUBSET S, s # {} PROVE val(s) \in X
        OBVIOUS
      <3>1. one(s) \in S /\ f[s \ {one(s)}] \in X
        BY <1>2, <2>3
      <3> HIDE DEF one
      <3> QED
        BY <3>1
    <2>5. g \in [SUBSET S -> X]
      <3> HIDE DEF val
      <3> QED
        BY <2>3, <2>4
    <2>6. ASSUME NEW s \in SUBSET S, Cardinality(s) <= n PROVE FoldsAt(S, base, op, g, s)
      <3>1. s # {} => g[s \ {one(s)}] = f[s \ {one(s)}]
        <4> SUFFICES ASSUME s # {} PROVE g[s \ {one(s)}] = f[s \ {one(s)}]
          OBVIOUS
        <4>1. one(s) \in s
          BY <1>2
        <4> HIDE DEF one
        <4>2. Cardinality(s \ {one(s)}) = Cardinality(s) - 1
          BY <1>1, <4>1, FS_RemoveElement
        <4>3. Cardinality(s \ {one(s)}) < n
          BY <1>1, <2>2, <2>6, <4>2
        <4> HIDE DEF val
        <4> QED
          BY <4>3
      <3>2. g[s] = val(s)
        <4>1. CASE Cardinality(s) < n
          BY <2>3, <4>1 DEF FoldsAt
        <4>2. CASE ~(Cardinality(s) < n)
          <5> HIDE DEF val
          <5> QED
            BY <4>2
        <4> QED
          BY <4>1, <4>2
      <3> HIDE DEF g
      <3> QED
        BY <3>1, <3>2 DEF FoldsAt
    <2> HIDE DEF g
    <2> QED
      BY <2>2, <2>5, <2>6
  <1>4. UpTo(Cardinality(S))
    BY <1>1, <1>3
  <1> QED
    BY <1>1, <1>4

\* A function over a finite set has finitely many values.
LEMMA RangeFinite ==
  ASSUME NEW f, IsFiniteSet(DOMAIN f)
  PROVE  IsFiniteSet({f[x] : x \in DOMAIN f})
  <1> DEFINE T == {f[x] : x \in DOMAIN f}
             h == [x \in DOMAIN f |-> f[x]]
  <1>1. h \in Surjection(DOMAIN f, T)
    BY DEF Surjection
  <1> HIDE DEF T, h
  <1>2. IsFiniteSet(T)
    BY <1>1, FS_Surjection
  <1> QED
    BY <1>2 DEF T

-----------------------------------------------------------------------------
(* Sums over a finite set of the weights w. *)

\* t adds up every part of S, whichever member is taken first.
Adds(t, w, S) ==
  /\ t \in [SUBSET S -> Int] /\ t[{}] = 0
  /\ \A s \in SUBSET S : \A x \in s : t[s] = w[x] + t[s \ {x}]

\* The sum over S.
Added(w, S) == (CHOOSE t : Adds(t, w, S))[S]

\* A sum that takes some member first does not depend on which.
LEMMA AddsOrder ==
  ASSUME NEW S, IsFiniteSet(S), NEW w, \A x \in S : w[x] \in Int,
         NEW g \in [SUBSET S -> Int], g[{}] = 0,
         \A s \in SUBSET S : s # {} => \E x \in s : g[s] = w[x] + g[s \ {x}]
  PROVE  Adds(g, w, S)
  <1> DEFINE Off(s) == \E y \in s : g[s] # w[y] + g[s \ {y}]
             bad == {k \in Nat : \E s \in SUBSET S : Cardinality(s) = k /\ Off(s)}
  <1>1. \A s \in SUBSET S : IsFiniteSet(s) /\ Cardinality(s) \in Nat
    BY FS_Subset, FS_CardinalityType
  <1>2. bad = {}
    <2> SUFFICES ASSUME bad # {} PROVE FALSE
      OBVIOUS
    <2>1. PICK k \in bad : \A j \in bad : k <= j
      <3>1. bad \in SUBSET Nat
        OBVIOUS
      <3> HIDE DEF bad
      <3> QED
        BY <3>1, LeastFound
    <2>2. PICK s \in SUBSET S : Cardinality(s) = k /\ Off(s)
      OBVIOUS
    <2>3. PICK y \in s : g[s] # w[y] + g[s \ {y}]
      BY <2>2
    <2>4. PICK x \in s : g[s] = w[x] + g[s \ {x}]
      <3>1. s # {}
        BY <2>3
      <3> QED
        BY <3>1
    <2>5. x # y
      BY <2>3, <2>4
    <2>6. /\ Cardinality(s \ {x}) = k - 1 /\ Cardinality(s \ {y}) = k - 1
          /\ s \ {x} \in SUBSET S /\ s \ {y} \in SUBSET S
      BY <1>1, <2>2, <2>3, <2>4, FS_RemoveElement
    <2>7. ~Off(s \ {x}) /\ ~Off(s \ {y})
      <3>1. k - 1 \in Nat
        BY <1>1, <2>6
      <3>2. k - 1 \notin bad
        <4>1. k \in Nat
          OBVIOUS
        <4> HIDE DEF bad
        <4> QED
          BY <2>1, <3>1, <4>1
      <3> QED
        BY <2>6, <3>1, <3>2
    <2>8. g[s \ {x}] = w[y] + g[(s \ {x}) \ {y}] /\ g[s \ {y}] = w[x] + g[(s \ {y}) \ {x}]
      BY <2>3, <2>4, <2>5, <2>7
    <2>9. (s \ {x}) \ {y} = (s \ {y}) \ {x} /\ (s \ {y}) \ {x} \in SUBSET S
      OBVIOUS
    <2>10. g[(s \ {y}) \ {x}] \in Int /\ w[x] \in Int /\ w[y] \in Int
      BY <2>3, <2>4, <2>9
    <2> DEFINE rest == g[(s \ {y}) \ {x}]
    <2>11. g[s] = w[x] + (w[y] + rest) /\ g[s \ {y}] = w[x] + rest /\ rest \in Int
      BY <2>4, <2>8, <2>9, <2>10
    <2> HIDE DEF rest
    <2>12. w[x] + (w[y] + rest) = w[y] + (w[x] + rest)
      BY <2>10, <2>11
    <2> QED
      BY <2>3, <2>11, <2>12
  <1>3. \A s \in SUBSET S : ~Off(s)
    BY <1>1, <1>2
  <1> QED
    BY <1>3 DEF Adds

\* The sum of FiniteSetsExt, for weights given as a function.
Iterates(g, w, S) ==
  g = [s \in SUBSET S |->
         IF s = {} THEN 0
         ELSE w[CHOOSE x \in s : TRUE] + g[s \ {CHOOSE x \in s : TRUE}]]

LEMMA IterateExists ==
  ASSUME NEW S, IsFiniteSet(S), NEW w, \A x \in S : w[x] \in Int
  PROVE  \E g : Iterates(g, w, S)
  <1> DEFINE op == [p \in S \X Int |-> w[p[1]] + p[2]]
             one(s) == CHOOSE x \in s : TRUE
  <1>1. op \in [S \X Int -> Int] /\ \A x \in S, k \in Int : op[<<x, k>>] = w[x] + k
    OBVIOUS
  <1> HIDE DEF op
  <1>2. PICK g \in [SUBSET S -> Int] : \A s \in SUBSET S : FoldsAt(S, 0, op, g, s)
    <2>1. 0 \in Int
      OBVIOUS
    <2> QED
      BY <1>1, <2>1, FoldExists
  <1>3. \A s \in SUBSET S : g[s] = IF s = {} THEN 0 ELSE w[one(s)] + g[s \ {one(s)}]
    <2> SUFFICES ASSUME NEW s \in SUBSET S
                 PROVE  g[s] = IF s = {} THEN 0 ELSE w[one(s)] + g[s \ {one(s)}]
      OBVIOUS
    <2>1. g[s] = IF s = {} THEN 0 ELSE op[<<one(s), g[s \ {one(s)}]>>]
      BY <1>2 DEF FoldsAt
    <2>2. s # {} => one(s) \in S /\ g[s \ {one(s)}] \in Int
      <3>1. s # {} => one(s) \in s
        OBVIOUS
      <3> HIDE DEF one
      <3> QED
        BY <3>1
    <2> HIDE DEF one
    <2> QED
      BY <1>1, <2>1, <2>2
  <1> QED
    BY <1>3 DEF Iterates

LEMMA IterateAdds ==
  ASSUME NEW S, IsFiniteSet(S), NEW w, \A x \in S : w[x] \in Int, NEW g, Iterates(g, w, S)
  PROVE  Adds(g, w, S)
  <1> DEFINE one(s) == CHOOSE x \in s : TRUE
  <1>1. g[{}] = 0 /\ \A s \in SUBSET S : s # {} => one(s) \in s /\ g[s] = w[one(s)] + g[s \ {one(s)}]
    BY DEF Iterates
  <1> HIDE DEF one
  <1>2. \A s \in SUBSET S : s # {} => \E x \in s : g[s \ {x}] \in Int => g[s] \in Int
    <2> SUFFICES ASSUME NEW s \in SUBSET S, s # {}
                 PROVE  \E x \in s : g[s \ {x}] \in Int => g[s] \in Int
      OBVIOUS
    <2>1. one(s) \in s /\ g[s] = w[one(s)] + g[s \ {one(s)}] /\ w[one(s)] \in Int
      BY <1>1
    <2>2. g[s \ {one(s)}] \in Int => g[s] \in Int
      BY <2>1
    <2> QED
      BY <2>1, <2>2
  <1>3. \A s \in SUBSET S : g[s] \in Int
    <2>1. g[{}] \in Int
      BY <1>1
    <2> QED
      BY <1>2, <2>1, FoldStays
  <1>4. g \in [SUBSET S -> Int]
    <2>1. g = [s \in SUBSET S |-> g[s]]
      BY DEF Iterates
    <2> QED
      BY <1>3, <2>1
  <1>5. \A s \in SUBSET S : s # {} => \E x \in s : g[s] = w[x] + g[s \ {x}]
    BY <1>1
  <1> QED
    BY <1>1, <1>4, <1>5, AddsOrder

\* Two sums agree where their weights do.
LEMMA AddsAgree ==
  ASSUME NEW S1, NEW t1, NEW w1, Adds(t1, w1, S1), NEW S2, NEW t2, NEW w2, Adds(t2, w2, S2),
         NEW T, T \subseteq S1, T \subseteq S2, IsFiniteSet(T), \A x \in T : w1[x] = w2[x]
  PROVE  t1[T] = t2[T]
  <1> DEFINE d == [s \in SUBSET T |-> IF t1[s] = t2[s] THEN 1 ELSE 0]
             X == {1}
  <1>1. \A s \in SUBSET T : s # {} => \E x \in s : d[s \ {x}] \in X => d[s] \in X
    <2> SUFFICES ASSUME NEW s \in SUBSET T, NEW x \in s, d[s \ {x}] \in X PROVE d[s] \in X
      OBVIOUS
    <2>1. t1[s \ {x}] = t2[s \ {x}]
      OBVIOUS
    <2>2. t1[s] = w1[x] + t1[s \ {x}] /\ t2[s] = w2[x] + t2[s \ {x}] /\ w1[x] = w2[x]
      BY DEF Adds
    <2> QED
      BY <2>1, <2>2
  <1>2. d[{}] \in X
    BY DEF Adds
  <1> HIDE DEF d, X
  <1>3. d[T] \in X
    <2>1. \A s \in SUBSET T : d[s] \in X
      BY <1>1, <1>2, FoldStays
    <2> QED
      BY <2>1
  <1> QED
    BY <1>3 DEF d, X

LEMMA AddedIs ==
  ASSUME NEW S, NEW T, T \subseteq S, IsFiniteSet(T), NEW w, NEW v, NEW t, Adds(t, v, S),
         \A x \in T : w[x] \in Int, \A x \in T : w[x] = v[x]
  PROVE  t[T] = Added(w, T)
  <1>1. \E u : Adds(u, w, T)
    BY IterateExists, IterateAdds
  <1> DEFINE u == CHOOSE u : Adds(u, w, T)
  <1>2. Adds(u, w, T)
    BY <1>1
  <1>3. Added(w, T) = u[T]
    BY DEF Added
  <1> HIDE DEF u
  <1> QED
    BY <1>2, <1>3, AddsAgree

\* What a sum is: nothing over nothing, and each member adds its weight.
LEMMA AddedSteps ==
  ASSUME NEW S, IsFiniteSet(S), NEW w, \A x \in S : w[x] \in Int
  PROVE  /\ Added(w, S) \in Int /\ (S = {} => Added(w, S) = 0)
         /\ \A x \in S : Added(w, S) = w[x] + Added(w, S \ {x})
         /\ \A T \in SUBSET S : Added(w, T) \in Int
  <1>1. PICK t : Adds(t, w, S)
    BY IterateExists, IterateAdds
  <1>2. \A T \in SUBSET S : t[T] = Added(w, T)
    <2> SUFFICES ASSUME NEW T \in SUBSET S PROVE t[T] = Added(w, T)
      OBVIOUS
    <2>1. IsFiniteSet(T)
      BY FS_Subset
    <2> QED
      BY <1>1, <2>1, AddedIs
  <1>3. S \in SUBSET S /\ \A x \in S : S \ {x} \in SUBSET S
    OBVIOUS
  <1>4. /\ \A T \in SUBSET S : t[T] \in Int
        /\ \A x \in S : t[S] = w[x] + t[S \ {x}]
        /\ S = {} => t[S] = 0
    BY <1>1, <1>3 DEF Adds
  <1> HIDE DEF Adds
  <1> QED
    BY <1>2, <1>3, <1>4

LEMMA AddedSame ==
  ASSUME NEW S, IsFiniteSet(S), NEW w, NEW v, \A x \in S : w[x] \in Int /\ w[x] = v[x]
  PROVE  Added(w, S) = Added(v, S)
  <1>1. PICK t : Adds(t, w, S)
    BY IterateExists, IterateAdds
  <1>2. t[S] = Added(w, S)
    BY <1>1, AddedIs
  <1>3. \A x \in S : v[x] \in Int
    OBVIOUS
  <1>4. PICK u : Adds(u, v, S)
    BY <1>3, IterateExists, IterateAdds
  <1>5. u[S] = Added(v, S)
    BY <1>4, <1>3, AddedIs
  <1>6. t[S] = u[S]
    BY <1>1, <1>4, AddsAgree
  <1> QED
    BY <1>2, <1>5, <1>6

\* Parts add up.
LEMMA AddedUnion ==
  ASSUME NEW A, NEW B, IsFiniteSet(A), IsFiniteSet(B), A \cap B = {},
         NEW w, \A x \in A \cup B : w[x] \in Int
  PROVE  Added(w, A \cup B) = Added(w, A) + Added(w, B)
  <1> DEFINE d == [s \in SUBSET B |->
                     IF Added(w, A \cup s) = Added(w, A) + Added(w, s) THEN 1 ELSE 0]
             X == {1}
  <1>1. \A s \in SUBSET B : /\ IsFiniteSet(s) /\ IsFiniteSet(A \cup s)
                            /\ \A x \in s : w[x] \in Int
                            /\ \A x \in A \cup s : w[x] \in Int
    BY FS_Subset, FS_Union
  <1>2. d[{}] \in X
    <2>1. A \cup {} = A
      OBVIOUS
    <2>2. Added(w, {}) = 0 /\ Added(w, A) \in Int
      BY FS_EmptySet, AddedSteps
    <2> QED
      BY <2>1, <2>2
  <1>3. \A s \in SUBSET B : s # {} => \E x \in s : d[s \ {x}] \in X => d[s] \in X
    <2> SUFFICES ASSUME NEW s \in SUBSET B, NEW x \in s, d[s \ {x}] \in X PROVE d[s] \in X
      OBVIOUS
    <2>1. Added(w, A \cup (s \ {x})) = Added(w, A) + Added(w, s \ {x})
      OBVIOUS
    <2>2. (A \cup s) \ {x} = A \cup (s \ {x}) /\ x \in A \cup s
      OBVIOUS
    <2>3. /\ Added(w, s) = w[x] + Added(w, s \ {x})
          /\ Added(w, A \cup s) = w[x] + Added(w, (A \cup s) \ {x})
          /\ Added(w, A) \in Int /\ Added(w, s \ {x}) \in Int /\ w[x] \in Int
      <3>1. Added(w, s) = w[x] + Added(w, s \ {x}) /\ Added(w, s \ {x}) \in Int
        BY <1>1, AddedSteps
      <3>2. Added(w, A \cup s) = w[x] + Added(w, (A \cup s) \ {x})
        BY <1>1, <2>2, AddedSteps
      <3>3. Added(w, A) \in Int
        BY AddedSteps
      <3> QED
        BY <1>1, <3>1, <3>2, <3>3
    <2>4. Added(w, A \cup s) = Added(w, A) + Added(w, s)
      BY <2>1, <2>2, <2>3
    <2> QED
      BY <2>4
  <1> HIDE DEF d, X
  <1>4. d[B] \in X
    <2>1. \A s \in SUBSET B : d[s] \in X
      BY <1>2, <1>3, FoldStays
    <2> QED
      BY <2>1
  <1> QED
    BY <1>4 DEF d, X

\* More members, each weighing no less, weigh no less together.
LEMMA Outweighs ==
  ASSUME NEW A, NEW B, IsFiniteSet(A), IsFiniteSet(B), Cardinality(A) <= Cardinality(B),
         NEW w, \A x \in A \cup B : w[x] \in Nat, \A x \in A, y \in B : w[x] <= w[y]
  PROVE  Added(w, A) <= Added(w, B)
  <1> DEFINE Less(s) == \A T \in SUBSET B : Cardinality(s) <= Cardinality(T) =>
                                            Added(w, s) <= Added(w, T)
             d == [s \in SUBSET A |-> IF Less(s) THEN 1 ELSE 0]
             X == {1}
  <1>1. /\ \A s \in SUBSET A : /\ IsFiniteSet(s) /\ Cardinality(s) \in Nat
                               /\ \A x \in s : w[x] \in Int
        /\ \A T \in SUBSET B : /\ IsFiniteSet(T) /\ Cardinality(T) \in Nat
                               /\ \A x \in T : w[x] \in Int
    <2>1. \A s \in SUBSET A : IsFiniteSet(s)
      BY FS_Subset
    <2>2. \A T \in SUBSET B : IsFiniteSet(T)
      BY FS_Subset
    <2> QED
      BY <2>1, <2>2, FS_CardinalityType
  <1>2. d[{}] \in X
    <2>1. Added(w, {}) = 0
      BY FS_EmptySet, AddedSteps
    <2>2. ASSUME NEW T \in SUBSET B PROVE 0 <= Added(w, T)
      <3> DEFINE e == [s \in SUBSET T |-> Added(w, s)]
      <3>1. IsFiniteSet(T) /\ \A s \in SUBSET T : IsFiniteSet(s) /\ \A x \in s : w[x] \in Int
        BY <1>1
      <3>2. e[{}] \in Nat
        BY <2>1
      <3>3. \A s \in SUBSET T : s # {} => \E x \in s : e[s \ {x}] \in Nat => e[s] \in Nat
        <4> SUFFICES ASSUME NEW s \in SUBSET T, NEW x \in s, e[s \ {x}] \in Nat
                     PROVE  e[s] \in Nat
          OBVIOUS
        <4>1. Added(w, s) = w[x] + Added(w, s \ {x})
          BY <3>1, AddedSteps
        <4>2. w[x] \in Nat /\ Added(w, s \ {x}) \in Nat
          OBVIOUS
        <4> QED
          BY <4>1, <4>2
      <3> HIDE DEF e
      <3>4. \A s \in SUBSET T : e[s] \in Nat
        BY <3>1, <3>2, <3>3, FoldStays
      <3>5. e[T] \in Nat
        BY <3>4
      <3> QED
        BY <3>5 DEF e
    <2> QED
      BY <2>1, <2>2
  <1>3. \A s \in SUBSET A : s # {} => \E x \in s : d[s \ {x}] \in X => d[s] \in X
    <2> SUFFICES ASSUME NEW s \in SUBSET A, NEW x \in s, d[s \ {x}] \in X PROVE d[s] \in X
      OBVIOUS
    <2>1. Less(s \ {x})
      <3> HIDE DEF Less
      <3> QED
        OBVIOUS
    <2>2. ASSUME NEW T \in SUBSET B, Cardinality(s) <= Cardinality(T)
          PROVE  Added(w, s) <= Added(w, T)
      <3>1. Cardinality(s \ {x}) = Cardinality(s) - 1 /\ Cardinality(s) \in Nat
        BY <1>1, FS_RemoveElement
      <3>2. Cardinality(s) # 0
        BY <1>1, FS_EmptySet
      <3>3. T # {}
        BY <1>1, <2>2, <3>1, <3>2, FS_EmptySet
      <3>4. PICK y \in T : TRUE
        BY <3>3
      <3>5. Cardinality(T \ {y}) = Cardinality(T) - 1 /\ Cardinality(T) \in Nat
        BY <1>1, FS_RemoveElement
      <3>6. Cardinality(s \ {x}) <= Cardinality(T \ {y})
        BY <2>2, <3>1, <3>5
      <3>7. Added(w, s \ {x}) <= Added(w, T \ {y})
        BY <2>1, <3>6
      <3>8. Added(w, s) = w[x] + Added(w, s \ {x}) /\ Added(w, s \ {x}) \in Int
        BY <1>1, AddedSteps
      <3>9. Added(w, T) = w[y] + Added(w, T \ {y}) /\ Added(w, T \ {y}) \in Int
        BY <1>1, <3>4, AddedSteps
      <3>10. w[x] <= w[y] /\ w[x] \in Int /\ w[y] \in Int
        BY <1>1
      <3> QED
        BY <3>7, <3>8, <3>9, <3>10
    <2> QED
      BY <2>2
  <1>4. d[A] \in X
    <2> HIDE DEF d, X
    <2>1. \A s \in SUBSET A : d[s] \in X
      BY <1>2, <1>3, FoldStays
    <2> QED
      BY <2>1
  <1> QED
    BY <1>4

\* A part weighs no more than the whole.
LEMMA PartWeighsLess ==
  ASSUME NEW B, NEW A \in SUBSET B, IsFiniteSet(B), NEW w, \A x \in B : w[x] \in Nat
  PROVE  Added(w, A) <= Added(w, B)
  <1> DEFINE C == B \ A
             E == {}
  <1>1. IsFiniteSet(A) /\ IsFiniteSet(C) /\ A \cap C = {} /\ A \cup C = B
    BY FS_Subset
  <1>2. \A x \in A \cup C : w[x] \in Int
    OBVIOUS
  <1>3. Added(w, A \cup C) = Added(w, A) + Added(w, C)
    <2> HIDE DEF C
    <2> QED
      BY <1>1, <1>2, AddedUnion
  <1>4. Added(w, A) \in Int /\ Added(w, C) \in Int
    BY <1>1, AddedSteps
  <1>5. /\ IsFiniteSet(E) /\ Cardinality(E) <= Cardinality(C) /\ Added(w, E) = 0
        /\ \A x \in E \cup C : w[x] \in Nat
        /\ \A x \in E, y \in C : w[x] <= w[y]
    BY <1>1, FS_EmptySet, FS_CardinalityType, AddedSteps
  <1> HIDE DEF C, E
  <1>6. Added(w, E) <= Added(w, C)
    BY <1>1, <1>5, Outweighs
  <1>7. Added(w, A \cup C) = Added(w, B)
    BY <1>1, Zenon
  <1> QED
    BY <1>3, <1>4, <1>5, <1>6, <1>7

\* The sum over parts that share no member is the sum of the parts' sums.
LEMMA AddedParts ==
  ASSUME NEW K, IsFiniteSet(K), NEW M, \A k \in K : IsFiniteSet(M[k]),
         \A k, l \in K : k # l => M[k] \cap M[l] = {},
         NEW w, \A k \in K : \A x \in M[k] : w[x] \in Int,
         NEW v, \A k \in K : v[k] = Added(w, M[k])
  PROVE  /\ IsFiniteSet(UNION {M[k] : k \in K})
         /\ Added(v, K) = Added(w, UNION {M[k] : k \in K})
  <1> DEFINE U(s) == UNION {M[k] : k \in s}
             d == [s \in SUBSET K |->
                     IF IsFiniteSet(U(s)) /\ Added(v, s) = Added(w, U(s)) THEN 1 ELSE 0]
             X == {1}
  <1>1. \A k \in K : v[k] \in Int
    <2> SUFFICES ASSUME NEW k \in K PROVE Added(w, M[k]) \in Int
      OBVIOUS
    <2> DEFINE m == M[k]
    <2>1. IsFiniteSet(m) /\ \A x \in m : w[x] \in Int
      OBVIOUS
    <2> HIDE DEF m
    <2>2. Added(w, m) \in Int
      BY <2>1, AddedSteps
    <2> QED
      BY <2>2 DEF m
  <1>2. \A s \in SUBSET K : IsFiniteSet(s) /\ \A k \in s : v[k] \in Int
    BY <1>1, FS_Subset
  <1>3. d[{}] \in X
    <2>1. U({}) = {}
      OBVIOUS
    <2>2. Added(w, {}) = 0 /\ Added(v, {}) = 0 /\ IsFiniteSet({})
      BY FS_EmptySet, AddedSteps
    <2> QED
      BY <2>1, <2>2
  <1>4. \A s \in SUBSET K : s # {} => \E k \in s : d[s \ {k}] \in X => d[s] \in X
    <2> SUFFICES ASSUME NEW s \in SUBSET K, NEW k \in s, d[s \ {k}] \in X PROVE d[s] \in X
      OBVIOUS
    <2> DEFINE A == U(s \ {k})
               B == M[k]
    <2>1. IsFiniteSet(A) /\ Added(v, s \ {k}) = Added(w, A)
      OBVIOUS
    <2>2. U(s) = A \cup B /\ IsFiniteSet(B) /\ A \cap B = {}
      <3>1. A \cap B = {}
        OBVIOUS
      <3>2. U(s) = A \cup B
        OBVIOUS
      <3> QED
        BY <3>1, <3>2
    <2>3. \A x \in A \cup B : w[x] \in Int
      OBVIOUS
    <2>4. Added(v, s) = v[k] + Added(v, s \ {k}) /\ v[k] = Added(w, B)
      BY <1>2, AddedSteps
    <2> HIDE DEF A, B
    <2>5. Added(w, A \cup B) = Added(w, A) + Added(w, B)
      BY <2>1, <2>2, <2>3, AddedUnion
    <2>6. Added(w, A) \in Int /\ Added(w, B) \in Int
      BY <2>1, <2>2, <2>3, AddedSteps
    <2> HIDE DEF U
    <2>7. Added(v, s) = Added(w, U(s))
      BY <2>1, <2>2, <2>4, <2>5, <2>6
    <2>8. IsFiniteSet(U(s))
      <3>1. IsFiniteSet(A \cup B)
        BY <2>1, <2>2, FS_Union
      <3> QED
        BY <2>2, <3>1, Zenon
    <2> QED
      BY <2>7, <2>8
  <1>5. d[K] \in X
    <2> HIDE DEF d, X
    <2>1. \A s \in SUBSET K : d[s] \in X
      BY <1>3, <1>4, FoldStays
    <2> QED
      BY <2>1
  <1> QED
    BY <1>5

\* A set has as many members as ones add up over it.
LEMMA OnesAdded ==
  ASSUME NEW S, IsFiniteSet(S), NEW w, \A x \in S : w[x] = 1
  PROVE  Added(w, S) = Cardinality(S)
  <1> DEFINE d == [s \in SUBSET S |-> IF Added(w, s) = Cardinality(s) THEN 1 ELSE 0]
             X == {1}
  <1>1. \A s \in SUBSET S : IsFiniteSet(s) /\ \A x \in s : w[x] \in Int
    BY FS_Subset
  <1>2. d[{}] \in X
    BY FS_EmptySet, AddedSteps
  <1>3. \A s \in SUBSET S : s # {} => \E x \in s : d[s \ {x}] \in X => d[s] \in X
    <2> SUFFICES ASSUME NEW s \in SUBSET S, NEW x \in s, d[s \ {x}] \in X PROVE d[s] \in X
      OBVIOUS
    <2>1. Added(w, s \ {x}) = Cardinality(s \ {x})
      OBVIOUS
    <2>2. Added(w, s) = w[x] + Added(w, s \ {x}) /\ w[x] = 1
      BY <1>1, AddedSteps
    <2>3. Cardinality(s \ {x}) = Cardinality(s) - 1 /\ Cardinality(s) \in Nat
      BY <1>1, FS_RemoveElement, FS_CardinalityType
    <2>4. Added(w, s) = Cardinality(s)
      BY <2>1, <2>2, <2>3
    <2> QED
      BY <2>4
  <1>4. d[S] \in X
    <2> HIDE DEF d, X
    <2>1. \A s \in SUBSET S : d[s] \in X
      BY <1>2, <1>3, FoldStays
    <2> QED
      BY <2>1
  <1> QED
    BY <1>4
\* Every number of a set has a place from the highest down: no two the same, none
\* beyond their count.
LEMMA NewestPlaces ==
  ASSUME NEW S \in SUBSET Nat, IsFiniteSet(S)
  PROVE  LET f == [d \in S |-> Cardinality({e \in S : e >= d})]
         IN  /\ f \in Surjection(S, 1..Cardinality(S)) /\ f \in Injection(S, 1..Cardinality(S))
             /\ \A a, b \in S : a < b => f[b] < f[a]
  <1> DEFINE N == Cardinality(S)
             up(d) == {e \in S : e >= d}
             f == [d \in S |-> Cardinality(up(d))]
  <1>0. N \in Nat /\ IsFiniteSet(1..N) /\ Cardinality(1..N) = N
    <2>1. N \in Nat
      BY FS_CardinalityType
    <2>2. 1 \in Int /\ N \in Int
      BY <2>1
    <2> QED
      BY <2>1, <2>2, FS_Interval
  <1>1. \A d \in S : IsFiniteSet(up(d)) /\ f[d] \in 1..N
    <2> SUFFICES ASSUME NEW d \in S PROVE IsFiniteSet(up(d)) /\ f[d] \in 1..N
      OBVIOUS
    <2>1. up(d) \in SUBSET S /\ d \in up(d)
      OBVIOUS
    <2>2. IsFiniteSet(up(d)) /\ Cardinality(up(d)) <= N
      BY <2>1, FS_Subset
    <2>3. Cardinality(up(d)) \in Nat /\ Cardinality(up(d)) # 0
      BY <2>1, <2>2, FS_CardinalityType, FS_EmptySet
    <2> HIDE DEF up, N
    <2> QED
      BY <1>0, <2>2, <2>3
  <1>2. \A a, b \in S : a < b => f[b] < f[a]
    <2> SUFFICES ASSUME NEW a \in S, NEW b \in S, a < b PROVE f[b] < f[a]
      OBVIOUS
    <2>0. a < b
      OBVIOUS
    <2>1. up(b) \in SUBSET up(a) /\ a \in up(a) /\ a \notin up(b)
      <3>1. \A e \in S : e \in Int
        OBVIOUS
      <3>2. \A e \in S : e >= b => e >= a
        BY <2>0, <3>1
      <3>3. a >= a /\ ~(a >= b)
        BY <2>0, <3>1
      <3> QED
        BY <3>2, <3>3
    <2>2. Cardinality(up(b)) <= Cardinality(up(a)) /\ Cardinality(up(b)) # Cardinality(up(a))
      BY <1>1, <2>1, FS_Subset, Zenon
    <2>3. Cardinality(up(b)) \in Nat /\ Cardinality(up(a)) \in Nat
      BY <1>1, FS_CardinalityType
    <2> HIDE DEF up
    <2> QED
      BY <2>2, <2>3
  <1>3. f \in Injection(S, 1..N)
    <2>1. f \in [S -> 1..N]
      BY <1>1
    <2>2. \A a, b \in S : a # b => f[a] # f[b]
      <3> SUFFICES ASSUME NEW a \in S, NEW b \in S, a # b PROVE f[a] # f[b]
        OBVIOUS
      <3> HIDE DEF f
      <3>1. a < b \/ b < a
        OBVIOUS
      <3>2. f[a] \in Int /\ f[b] \in Int
        <4> DEFINE J == 1..N
        <4>1. f[a] \in J /\ f[b] \in J
          BY <1>1, Zenon
        <4>2. \A k \in J : k \in Int
          BY <1>0
        <4> HIDE DEF J
        <4> QED
          BY <4>1, <4>2
      <3> QED
        BY <1>2, <3>1, <3>2, SMT
    <2> QED
      BY <2>1, <2>2, Zenon DEF Injection, IsInjective
  <1>4. f \in Surjection(S, 1..N)
    BY <1>0, <1>3, FS_Injection, Zenon
  <1> QED
    BY <1>2, <1>3, <1>4
=============================================================================
