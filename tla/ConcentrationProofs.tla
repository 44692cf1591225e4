-------------------------- MODULE ConcentrationProofs --------------------------
(***************************************************************************)
(* Whatever operators declare and the chain links: the clusters part the   *)
(* computors, the figures over them count the computors themselves, the    *)
(* Nakamoto coefficient is the size of the smallest coalition beyond its   *)
(* threshold, and putting computors together never makes an epoch look     *)
(* less concentrated.  For any number of computors and any revenues.       *)
(***************************************************************************)
EXTENDS Concentration, SetOrderTheorems

\* The sum of FiniteSetsExt is the sum of SetOrderTheorems.
LEMMA TogetherIs ==
  ASSUME NEW ws, NEW S, IsFiniteSet(S), \A x \in S : ws[x] \in Int
  PROVE  Together(ws, S) = Added(ws, S)
  <1> DEFINE one(s) == CHOOSE x \in s : TRUE
             Step(s, g) == IF s = {} THEN 0 ELSE ws[one(s)] + g[s \ {one(s)}]
  <1>1. Together(ws, S) = (CHOOSE g : g = [s \in SUBSET S |-> Step(s, g)])[S]
    BY DEF Together, MapThenSumSet, MapThenFoldSet
  <1>2. \A g : Iterates(g, ws, S) <=> g = [s \in SUBSET S |-> Step(s, g)]
    BY DEF Iterates
  <1> HIDE DEF Step
  <1>3. PICK g : Iterates(g, ws, S) /\ Together(ws, S) = g[S]
    <2>1. \E g : g = [s \in SUBSET S |-> Step(s, g)]
      BY <1>2, IterateExists
    <2>2. PICK g : g = [s \in SUBSET S |-> Step(s, g)] /\ Together(ws, S) = g[S]
      BY <1>1, <2>1
    <2> QED
      BY <1>2, <2>2
  <1>4. Adds(g, ws, S)
    BY <1>3, IterateAdds
  <1>5. S \subseteq S /\ \A x \in S : ws[x] = ws[x]
    OBVIOUS
  <1>6. g[S] = Added(ws, S)
    BY <1>4, <1>5, AddedIs, Zenon
  <1> QED
    BY <1>3, <1>6

-----------------------------------------------------------------------------
(* The largest weights. *)

\* Revenues under numbers.
Weighs(ws) ==
  /\ IsFiniteSet(DOMAIN ws) /\ DOMAIN ws \subseteq Nat
  /\ \A i \in DOMAIN ws : ws[i] \in Nat

\* j comes no later than i.
Ahead(ws, j, i) == ws[j] > ws[i] \/ (ws[j] = ws[i] /\ j <= i)
UpTo(ws, i) == {j \in DOMAIN ws : Ahead(ws, j, i)}

LEMMA PlaceIs == ASSUME NEW ws, NEW i PROVE Place(ws, i) = Cardinality(UpTo(ws, i))
  BY DEF Place, UpTo, Ahead

\* An order, in which a place is a number of members.
LEMMA AheadOrders ==
  ASSUME NEW ws, Weighs(ws)
  PROVE  /\ \A i \in DOMAIN ws : Ahead(ws, i, i)
         /\ \A i, j \in DOMAIN ws : Ahead(ws, i, j) \/ Ahead(ws, j, i)
         /\ \A i, j \in DOMAIN ws : Ahead(ws, i, j) /\ Ahead(ws, j, i) => i = j
         /\ \A i, j, k \in DOMAIN ws : Ahead(ws, i, j) /\ Ahead(ws, j, k) => Ahead(ws, i, k)
         /\ \A i, j \in DOMAIN ws : Ahead(ws, i, j) => ws[j] <= ws[i]
         /\ \A i \in DOMAIN ws : IsFiniteSet(UpTo(ws, i)) /\ Place(ws, i) \in Nat
  <1>1. \A i \in DOMAIN ws : ws[i] \in Int /\ i \in Int
    BY DEF Weighs
  <1>2. \A i \in DOMAIN ws : IsFiniteSet(UpTo(ws, i)) /\ Place(ws, i) \in Nat
    <2> SUFFICES ASSUME NEW i \in DOMAIN ws
                 PROVE  IsFiniteSet(UpTo(ws, i)) /\ Place(ws, i) \in Nat
      OBVIOUS
    <2>1. UpTo(ws, i) \in SUBSET DOMAIN ws
      BY DEF UpTo
    <2>2. IsFiniteSet(UpTo(ws, i))
      BY <2>1, FS_Subset DEF Weighs
    <2> QED
      BY <2>2, FS_CardinalityType, PlaceIs
  <1> QED
    BY <1>1, <1>2 DEF Ahead

\* Who comes earlier has the smaller place.
LEMMA PlaceRises ==
  ASSUME NEW ws, Weighs(ws), NEW i \in DOMAIN ws, NEW j \in DOMAIN ws
  PROVE  /\ Ahead(ws, i, j) => Place(ws, i) <= Place(ws, j)
         /\ Place(ws, i) < Place(ws, j) => Ahead(ws, i, j)
  <1>1. ASSUME NEW a \in DOMAIN ws, NEW b \in DOMAIN ws, Ahead(ws, a, b)
        PROVE  Place(ws, a) <= Place(ws, b)
    <2>1. UpTo(ws, a) \in SUBSET UpTo(ws, b)
      BY <1>1, AheadOrders DEF UpTo
    <2>2. IsFiniteSet(UpTo(ws, b))
      BY AheadOrders
    <2> QED
      BY <2>1, <2>2, FS_Subset, PlaceIs
  <1>2. Place(ws, i) \in Nat /\ Place(ws, j) \in Nat /\ (Ahead(ws, i, j) \/ Ahead(ws, j, i))
    BY AheadOrders
  <1> QED
    BY <1>1, <1>2

\* The n largest are n, or all.
LEMMA LargestCount ==
  ASSUME NEW ws, Weighs(ws), NEW n \in Nat
  PROVE  /\ Largest(ws, n) \in SUBSET DOMAIN ws /\ IsFiniteSet(Largest(ws, n))
         /\ Cardinality(Largest(ws, n)) <= n
         /\ Cardinality(DOMAIN ws) \in Nat /\ Cardinality(Largest(ws, n)) \in Nat
         /\ Cardinality(Largest(ws, n)) = n \/ Largest(ws, n) = DOMAIN ws
  <1> DEFINE D == DOMAIN ws
             F == Largest(ws, n)
  <1>1. F \in SUBSET D /\ IsFiniteSet(D) /\ IsFiniteSet(F)
    <2>1. F \in SUBSET D
      BY DEF Largest
    <2> QED
      BY <2>1, FS_Subset DEF Weighs
  <1>2. Cardinality(F) \in Nat /\ Cardinality(D) \in Nat
    BY <1>1, FS_CardinalityType
  <1>3. \A i \in D : i \in F <=> Place(ws, i) <= n
    BY DEF Largest
  <1>4. \A i \in D : Place(ws, i) \in Nat
    BY AheadOrders
  <1> DEFINE places(S) == {Place(ws, i) : i \in S}
  <1>5. Cardinality(F) <= n
    <2>1. CASE F = {}
      BY <2>1, FS_EmptySet
    <2>2. CASE F # {}
      <3>1. places(F) \in SUBSET (0..n) /\ places(F) # {}
        BY <1>1, <1>3, <1>4, <2>2
      <3> HIDE DEF F
      <3>2. PICK p \in places(F) : \A q \in places(F) : q <= p
        <4> HIDE DEF places
        <4> QED
          BY <3>1, GreatestFound
      <3>3. PICK i \in F : \A j \in F : Place(ws, j) <= Place(ws, i)
        BY <3>2
      <3>4. F \in SUBSET UpTo(ws, i)
        <4> SUFFICES ASSUME NEW j \in F, ~Ahead(ws, j, i) PROVE FALSE
          BY <1>1 DEF UpTo
        <4>1. Ahead(ws, i, j) /\ Place(ws, j) <= Place(ws, i) /\ i \in D /\ j \in D
          BY <1>1, <3>3, AheadOrders
        <4>2. UpTo(ws, i) \in SUBSET UpTo(ws, j)
          BY <4>1, AheadOrders DEF UpTo
        <4>3. j \in UpTo(ws, j) /\ j \notin UpTo(ws, i)
          BY <4>1, AheadOrders DEF UpTo
        <4>4. IsFiniteSet(UpTo(ws, j)) /\ Place(ws, i) \in Nat /\ Place(ws, j) \in Nat
          BY <4>1, AheadOrders
        <4>5. /\ Cardinality(UpTo(ws, i)) <= Cardinality(UpTo(ws, j))
              /\ Cardinality(UpTo(ws, i)) # Cardinality(UpTo(ws, j))
          BY <4>2, <4>3, <4>4, FS_Subset
        <4> QED
          BY <4>1, <4>4, <4>5, PlaceIs
      <3>5. IsFiniteSet(UpTo(ws, i)) /\ Place(ws, i) <= n /\ Place(ws, i) \in Nat
        BY <1>1, <1>3, <3>3, AheadOrders DEF F
      <3>6. Cardinality(F) <= Place(ws, i)
        BY <3>4, <3>5, FS_Subset, PlaceIs
      <3> QED
        BY <1>2, <3>5, <3>6
    <2> QED
      BY <2>1, <2>2
  <1>6. CASE F # D
    <2> DEFINE L == D \ F
    <2>1. places(L) \in SUBSET Nat /\ places(L) # {}
      BY <1>1, <1>4, <1>6
    <2> HIDE DEF F
    <2>2. PICK p \in places(L) : \A q \in places(L) : p <= q
      <3> HIDE DEF places, L
      <3> QED
        BY <2>1, LeastFound
    <2>3. PICK j \in L : \A i \in L : Place(ws, j) <= Place(ws, i)
      BY <2>2
    <2>4. j \in D /\ j \notin F
      BY <2>3
    <2>5. UpTo(ws, j) \in SUBSET (F \cup {j})
      <3> SUFFICES ASSUME NEW i \in UpTo(ws, j), i \notin F, i # j PROVE FALSE
        BY <1>1
      <3>1. i \in D /\ i \in L /\ Ahead(ws, i, j) /\ ~Ahead(ws, j, i)
        BY <2>4, AheadOrders DEF UpTo
      <3>2. UpTo(ws, i) \in SUBSET UpTo(ws, j)
        BY <2>4, <3>1, AheadOrders DEF UpTo
      <3>3. j \in UpTo(ws, j) /\ j \notin UpTo(ws, i)
        BY <2>4, <3>1, AheadOrders DEF UpTo
      <3>4. IsFiniteSet(UpTo(ws, j)) /\ Place(ws, i) \in Nat /\ Place(ws, j) \in Nat
        BY <2>4, <3>1, AheadOrders
      <3>5. /\ Cardinality(UpTo(ws, i)) <= Cardinality(UpTo(ws, j))
            /\ Cardinality(UpTo(ws, i)) # Cardinality(UpTo(ws, j))
        BY <3>2, <3>3, <3>4, FS_Subset
      <3>6. Place(ws, j) <= Place(ws, i)
        BY <2>3, <3>1
      <3> QED
        BY <3>4, <3>5, <3>6, PlaceIs
    <2>6. IsFiniteSet(F \cup {j}) /\ Cardinality(F \cup {j}) = Cardinality(F) + 1
      BY <1>1, <2>4, FS_AddElement
    <2>7. Place(ws, j) <= Cardinality(F) + 1
      BY <2>5, <2>6, FS_Subset, PlaceIs
    <2>8. ~(Place(ws, j) <= n) /\ Place(ws, j) \in Nat
      BY <1>3, <1>4, <2>4
    <2>9. Cardinality(F) = n
      BY <1>2, <1>5, <2>7, <2>8
    <2> QED
      BY <1>1, <1>2, <2>9 DEF F
  <1> QED
    BY <1>1, <1>2, <1>5, <1>6

\* No n of them hold more than the n largest.
LEMMA LargestMost ==
  ASSUME NEW ws, Weighs(ws), NEW n \in Nat, NEW S \in SUBSET DOMAIN ws, Cardinality(S) <= n
  PROVE  Added(ws, S) <= Added(ws, Largest(ws, n))
  <1> DEFINE F == Largest(ws, n)
             I == S \cap F
             A == S \ F
             B == F \ S
  <1>1. IsFiniteSet(S) /\ IsFiniteSet(F) /\ F \in SUBSET DOMAIN ws
    BY LargestCount, FS_Subset DEF Weighs
  <1>2. /\ IsFiniteSet(I) /\ IsFiniteSet(A) /\ IsFiniteSet(B)
        /\ Cardinality(A) = Cardinality(S) - Cardinality(I)
        /\ Cardinality(B) = Cardinality(F) - Cardinality(F \cap S)
        /\ Cardinality(F) \in Nat /\ Cardinality(S) \in Nat /\ Cardinality(I) \in Nat
    BY <1>1, FS_Difference, FS_Intersection, FS_CardinalityType
  <1>3. F \cap S = I /\ I \cap A = {} /\ I \cap B = {} /\ I \cup A = S /\ I \cup B = F
    OBVIOUS
  <1>4. /\ \A x \in DOMAIN ws : ws[x] \in Int /\ ws[x] \in Nat
        /\ I \subseteq DOMAIN ws /\ A \subseteq DOMAIN ws /\ B \subseteq DOMAIN ws
    BY <1>1 DEF Weighs
  <1>5. CASE F = DOMAIN ws
    <2>1. S \in SUBSET F /\ IsFiniteSet(F) /\ \A x \in F : ws[x] \in Nat
      BY <1>1, <1>4, <1>5
    <2> HIDE DEF F
    <2> QED
      BY <2>1, PartWeighsLess DEF F
  <1>6. CASE Cardinality(F) = n
    <2>1. Cardinality(A) <= Cardinality(B)
      <3>1. Cardinality(F \cap S) = Cardinality(I)
        BY <1>3, Zenon
      <3> HIDE DEF A, B, F, I
      <3> QED
        BY <1>2, <1>6, <3>1
    <2>2. \A x \in A, y \in B : ws[x] <= ws[y]
      <3> SUFFICES ASSUME NEW x \in A, NEW y \in B PROVE ws[x] <= ws[y]
        OBVIOUS
      <3>1. /\ x \in DOMAIN ws /\ y \in DOMAIN ws
            /\ Place(ws, y) <= n /\ ~(Place(ws, x) <= n)
        BY <1>1 DEF Largest
      <3>2. Place(ws, x) \in Nat /\ Place(ws, y) \in Nat
        BY <3>1, AheadOrders
      <3>3. Ahead(ws, y, x)
        BY <3>1, <3>2, PlaceRises
      <3> QED
        BY <3>1, <3>3, AheadOrders
    <2>3. \A x \in A \cup B : ws[x] \in Nat
      BY <1>4
    <2>4. (\A x \in I \cup A : ws[x] \in Int) /\ (\A x \in I \cup B : ws[x] \in Int)
      BY <1>4
    <2> HIDE DEF A, B, I, F
    <2>5. Added(ws, A) <= Added(ws, B)
      BY <1>2, <2>1, <2>2, <2>3, Outweighs
    <2>6. /\ Added(ws, I \cup A) = Added(ws, I) + Added(ws, A)
          /\ Added(ws, I \cup B) = Added(ws, I) + Added(ws, B)
      BY <1>2, <1>3, <2>4, AddedUnion
    <2>7. Added(ws, I) \in Int /\ Added(ws, A) \in Int /\ Added(ws, B) \in Int
      BY <1>2, <2>4, AddedSteps
    <2>8. Added(ws, I \cup A) <= Added(ws, I \cup B)
      BY <2>5, <2>6, <2>7
    <2>9. Added(ws, I \cup A) = Added(ws, S) /\ Added(ws, I \cup B) = Added(ws, F)
      BY <1>3, Zenon
    <2>10. Added(ws, S) <= Added(ws, F)
      BY <2>8, <2>9
    <2> QED
      BY <2>10 DEF F
  <1> QED
    BY <1>5, <1>6, LargestCount

-----------------------------------------------------------------------------
(* The clusters. *)

Numbers(sl) == 1..Len(sl)
SlotKey(sl, i) == MergeKey(sl[i], i)
Members(sl, k) == {i \in Numbers(sl) : SlotKey(sl, i) = k}
Revenue(sl) == [i \in DOMAIN sl |-> sl[i].revenue]

\* c is the strongest confidence among the slots of S.
Strongest(sl, S, c) ==
  /\ \E i \in S : c = Confidence(sl[i])
  /\ \A j \in S : ConfRank(c) <= ConfRank(Confidence(sl[j]))

Cluster(sl, k, c) == [confidence |-> c, computors |-> Members(sl, k),
                      revenue |-> Added(Revenue(sl), Members(sl, k))]

\* The clusters part the slots by key, and hold what they hold together.
Parted(sl, cs) ==
  /\ cs = [k \in {SlotKey(sl, i) : i \in Numbers(sl)} |-> cs[k]]
  /\ \A k \in DOMAIN cs : /\ cs[k] = Cluster(sl, k, cs[k].confidence)
                          /\ Strongest(sl, Members(sl, k), cs[k].confidence)

ConcInv == slots \in Seq(Slots) /\ Parted(slots, clusters)

ConfLevels == {"declared+linked", "linked", "declared", "unattributed"}

LEMMA ConfRanks ==
  /\ ConfRank("declared+linked") = 1 /\ ConfRank("linked") = 2
  /\ ConfRank("declared") = 3 /\ ConfRank("unattributed") = 4
  <1>1. DOMAIN Confidences = 1..4
    BY DEF Confidences
  <1>2. /\ Confidences[1] = "declared+linked" /\ Confidences[2] = "linked"
        /\ Confidences[3] = "declared" /\ Confidences[4] = "unattributed"
    BY DEF Confidences
  <1>3. \A i \in 1..4 : i = 1 \/ i = 2 \/ i = 3 \/ i = 4
    OBVIOUS
  <1> QED
    BY <1>1, <1>2, <1>3 DEF ConfRank

LEMMA ConfidenceIs ==
  ASSUME NEW s \in Slots
  PROVE  /\ Confidence(s) \in ConfLevels /\ ConfRank(Confidence(s)) \in 1..4
         /\ Confidence(s) = "declared+linked" <=> s.declared # "none" /\ s.linked # "none"
         /\ Confidence(s) = "declared" <=> s.declared # "none" /\ s.linked = "none"
         /\ Confidence(s) = "linked" <=> s.declared = "none" /\ s.linked # "none"
         /\ Confidence(s) = "unattributed" <=> s.declared = "none" /\ s.linked = "none"
  BY ConfRanks DEF Confidence, ConfLevels

LEMMA RevenueIsNat == \A s \in Slots : s.revenue \in Nat /\ s.revenue \in Int
  <1> SUFFICES ASSUME NEW s \in Slots PROVE s.revenue \in Nat /\ s.revenue \in Int
    OBVIOUS
  <1>1. s.revenue \in Revenues
    BY DEF Slots
  <1>2. Revenues \subseteq Nat
    BY ConcentrationAssumption
  <1>3. s.revenue \in Nat
    BY <1>1, <1>2, Zenon
  <1> QED
    BY <1>3

LEMMA NothingParted == Parted(<<>>, <<>>)
  BY DEF Parted, Numbers

\* One more slot joins its cluster, or opens it.
LEMMA JoinedParts ==
  ASSUME NEW sl \in Seq(Slots), NEW cs, Parted(sl, cs), NEW s \in Slots
  PROVE  Parted(Append(sl, s), Joined(cs, s, Len(sl) + 1))
  <1> DEFINE n == Len(sl) + 1
             ss == Append(sl, s)
             key == MergeKey(s, n)
             old == cs[key]
             new == IF key \in DOMAIN cs
                    THEN [confidence |-> Stronger(old.confidence, Confidence(s)),
                          computors |-> old.computors \cup {n}, revenue |-> old.revenue + s.revenue]
                    ELSE [confidence |-> Confidence(s), computors |-> {n}, revenue |-> s.revenue]
             js == Joined(cs, s, n)
             M(k) == Members(sl, k)
             N(k) == Members(ss, k)
  <1>1. /\ Len(sl) \in Nat /\ DOMAIN sl = 1..Len(sl) /\ ss \in Seq(Slots) /\ Len(ss) = n
        /\ DOMAIN ss = 1..n /\ ss[n] = s /\ \A i \in 1..Len(sl) : ss[i] = sl[i] /\ sl[i] \in Slots
        /\ n \in 1..n /\ n \notin 1..Len(sl) /\ 1..n = (1..Len(sl)) \cup {n}
    OBVIOUS
  <1>2. js = [k \in DOMAIN cs \cup {key} |-> IF k = key THEN new ELSE cs[k]]
    BY DEF Joined, With
  <1> HIDE DEF ss, n, js
  <1>3. /\ SlotKey(ss, n) = key
        /\ \A i \in 1..Len(sl) : SlotKey(ss, i) = SlotKey(sl, i)
    BY <1>1 DEF SlotKey
  <1> HIDE DEF key
  <1>4. /\ DOMAIN cs = {SlotKey(sl, i) : i \in 1..Len(sl)}
        /\ \A k \in DOMAIN cs : /\ cs[k] = Cluster(sl, k, cs[k].confidence)
                                /\ Strongest(sl, M(k), cs[k].confidence)
    BY DEF Parted, Numbers
  <1>5. DOMAIN js = {SlotKey(ss, i) : i \in Numbers(ss)}
    <2>1. {SlotKey(ss, i) : i \in Numbers(ss)} = {SlotKey(sl, i) : i \in 1..Len(sl)} \cup {key}
      BY <1>1, <1>3 DEF Numbers
    <2> QED
      BY <1>2, <1>4, <2>1
  <1>6. /\ N(key) = M(key) \cup {n} /\ n \notin M(key)
        /\ \A k : k # key => N(k) = M(k)
        /\ \A k : M(k) \in SUBSET (1..Len(sl))
    BY <1>1, <1>3 DEF Members, Numbers
  <1>7. \A k : /\ IsFiniteSet(M(k)) /\ \A i \in M(k) : Revenue(sl)[i] \in Int
               /\ \A i \in M(k) : Revenue(ss)[i] = Revenue(sl)[i] /\ ss[i] = sl[i] /\ sl[i] \in Slots
    <2>1. IsFiniteSet(1..Len(sl))
      BY <1>1, FS_Interval
    <2>2. \A k : IsFiniteSet(M(k))
      BY <1>6, <2>1, FS_Subset
    <2>3. \A i \in 1..Len(sl) : /\ Revenue(sl)[i] = sl[i].revenue /\ Revenue(ss)[i] = sl[i].revenue
                                /\ sl[i].revenue \in Int
      <3>1. \A i \in 1..Len(sl) : i \in DOMAIN sl /\ i \in DOMAIN ss
        BY <1>1
      <3> QED
        BY <1>1, <3>1, RevenueIsNat DEF Revenue
    <2> QED
      BY <1>1, <1>6, <2>2, <2>3
  <1>8. \A k : Added(Revenue(ss), M(k)) = Added(Revenue(sl), M(k))
    <2> SUFFICES ASSUME NEW k PROVE Added(Revenue(ss), M(k)) = Added(Revenue(sl), M(k))
      OBVIOUS
    <2> DEFINE S == M(k)
    <2>1. IsFiniteSet(S) /\ \A i \in S : Revenue(ss)[i] \in Int /\ Revenue(ss)[i] = Revenue(sl)[i]
      BY <1>7
    <2> HIDE DEF S
    <2>2. Added(Revenue(ss), S) = Added(Revenue(sl), S)
      BY <2>1, AddedSame
    <2> QED
      BY <2>2 DEF S
  <1>9. /\ Added(Revenue(ss), N(key)) = s.revenue + Added(Revenue(sl), M(key))
        /\ Added(Revenue(sl), M(key)) \in Int /\ s.revenue \in Int
    <2> DEFINE S == N(key)
               T == M(key)
               w == Revenue(ss)
    <2>1. IsFiniteSet(T) /\ S = T \cup {n} /\ S \ {n} = T /\ n \in S
      BY <1>6, <1>7
    <2>2. w[n] = s.revenue /\ s.revenue \in Int
      BY <1>1, RevenueIsNat DEF Revenue
    <2>3. IsFiniteSet(S) /\ \A i \in S : w[i] \in Int
      <3>1. IsFiniteSet(T \cup {n})
        BY <2>1, FS_AddElement
      <3>2. \A i \in T : w[i] \in Int
        BY <1>7
      <3> QED
        BY <2>1, <2>2, <3>1, <3>2
    <2>4. Added(Revenue(ss), T) = Added(Revenue(sl), T)
      BY <1>8
    <2> HIDE DEF S, T, w
    <2>5. Added(w, S) = w[n] + Added(w, S \ {n}) /\ Added(w, S \ {n}) \in Int
      BY <2>1, <2>3, AddedSteps
    <2>6. Added(w, S \ {n}) = Added(w, T)
      BY <2>1, Zenon
    <2> QED
      BY <2>2, <2>4, <2>5, <2>6 DEF S, T, w
  <1>10. ASSUME NEW k \in DOMAIN js, k # key
         PROVE  js[k] = Cluster(ss, k, js[k].confidence) /\ Strongest(ss, N(k), js[k].confidence)
    <2>1. k \in DOMAIN cs /\ js[k] = cs[k]
      BY <1>2, <1>10
    <2>2. N(k) = M(k)
      BY <1>6, <1>10
    <2>3. Cluster(ss, k, cs[k].confidence) = Cluster(sl, k, cs[k].confidence)
      BY <1>8, <2>2, Zenon DEF Cluster
    <2>4. Strongest(ss, M(k), cs[k].confidence)
      BY <1>4, <1>7, <2>1 DEF Strongest
    <2> QED
      BY <1>4, <2>1, <2>2, <2>3, <2>4
  <1>11. js[key] = Cluster(ss, key, js[key].confidence) /\ Strongest(ss, N(key), js[key].confidence)
    <2>1. js[key] = new /\ key \in DOMAIN js
      BY <1>2
    <2>2. CASE key \in DOMAIN cs
      <3> DEFINE c == old.confidence
                 d == Confidence(s)
                 e == Stronger(c, d)
      <3>1. /\ new = [confidence |-> e, computors |-> old.computors \cup {n},
                      revenue |-> old.revenue + s.revenue]
            /\ old = Cluster(sl, key, c) /\ Strongest(sl, M(key), c)
        BY <1>4, <2>2
      <3>2. /\ old.computors = M(key) /\ old.revenue = Added(Revenue(sl), M(key))
        BY <3>1 DEF Cluster
      <3>3. /\ old.computors \cup {n} = N(key)
            /\ old.revenue + s.revenue = Added(Revenue(ss), N(key))
        BY <1>6, <1>9, <3>2
      <3>4. new = Cluster(ss, key, e) /\ new.confidence = e
        BY <3>1, <3>3, Zenon DEF Cluster
      <3>5. Strongest(ss, N(key), e)
        <4>1. /\ (\E i \in M(key) : c = Confidence(sl[i]))
              /\ \A j \in M(key) : ConfRank(c) <= ConfRank(Confidence(sl[j]))
          BY <3>1 DEF Strongest
        <4>2. \A i \in M(key) : /\ Confidence(ss[i]) = Confidence(sl[i])
                                /\ ConfRank(Confidence(sl[i])) \in Int
          BY <1>7, ConfidenceIs
        <4>3. ConfRank(c) \in Int /\ ConfRank(d) \in Int /\ Confidence(ss[n]) = d
          BY <1>1, <4>1, <4>2, ConfidenceIs
        <4> HIDE DEF c, d
        <4>4. e = c \/ e = d
          BY DEF Stronger
        <4>5. ConfRank(e) <= ConfRank(c) /\ ConfRank(e) <= ConfRank(d) /\ ConfRank(e) \in Int
          BY <4>3 DEF Stronger
        <4> HIDE DEF e
        <4>6. \E i \in N(key) : e = Confidence(ss[i])
          BY <1>6, <4>1, <4>2, <4>3, <4>4
        <4>7. ASSUME NEW j \in N(key) PROVE ConfRank(e) <= ConfRank(Confidence(ss[j]))
          <5>1. CASE j \in M(key)
            BY <4>1, <4>2, <4>3, <4>5, <5>1
          <5>2. CASE j = n
            BY <4>3, <4>5, <5>2
          <5> QED
            BY <1>6, <5>1, <5>2
        <4> QED
          BY <4>6, <4>7 DEF Strongest
      <3> HIDE DEF new, e
      <3> QED
        BY <2>1, <3>4, <3>5
    <2>3. CASE key \notin DOMAIN cs
      <3> DEFINE d == Confidence(s)
      <3>1. new = [confidence |-> d, computors |-> {n}, revenue |-> s.revenue]
        BY <2>3
      <3>2. M(key) = {}
        BY <1>4, <2>3 DEF Members, Numbers
      <3>3. N(key) = {n}
        BY <1>6, <3>2
      <3>4. Added(Revenue(ss), N(key)) = s.revenue
        <4>1. Added(Revenue(sl), M(key)) = 0
          BY <1>7, <3>2, AddedSteps
        <4> QED
          BY <1>9, <4>1
      <3>5. new = Cluster(ss, key, d) /\ new.confidence = d
        BY <3>1, <3>3, <3>4, Zenon DEF Cluster
      <3>6. Strongest(ss, N(key), d)
        <4>1. ConfRank(d) \in Int /\ Confidence(ss[n]) = d
          BY <1>1, ConfidenceIs
        <4> QED
          BY <3>3, <4>1 DEF Strongest
      <3> HIDE DEF new, d
      <3> QED
        BY <2>1, <3>5, <3>6
    <2> QED
      BY <2>2, <2>3
  <1>12. js = [k \in DOMAIN js |-> js[k]]
    BY <1>2
  <1>13. Parted(ss, js)
    BY <1>5, <1>10, <1>11, <1>12 DEF Parted
  <1> QED
    BY <1>13 DEF ss, js, n

LEMMA ConcHolds == ConcSpec => []ConcInv
  <1>1. ConcInit => ConcInv
    BY NothingParted DEF ConcInit, ConcInv
  <1>2. ConcInv /\ [ConcNext]_concVars => ConcInv'
    <2> SUFFICES ASSUME ConcInv, [ConcNext]_concVars PROVE ConcInv'
      OBVIOUS
    <2>1. CASE ConcNext
      <3>1. PICK s \in Slots : /\ slots' = Append(slots, s)
                               /\ clusters' = Joined(clusters, s, Len(slots) + 1)
        BY <2>1 DEF ConcNext, Assign
      <3>2. Parted(slots', clusters')
        BY <3>1, JoinedParts DEF ConcInv
      <3>3. slots' \in Seq(Slots)
        BY <3>1 DEF ConcInv
      <3> QED
        BY <3>2, <3>3 DEF ConcInv, Parted, Numbers, SlotKey, Cluster, Strongest, Members, Revenue, Added
    <2>2. CASE UNCHANGED concVars
      BY <2>2 DEF concVars, ConcInv
    <2> QED
      BY <2>1, <2>2
  <1> QED
    BY <1>1, <1>2, PTL DEF ConcSpec

-----------------------------------------------------------------------------
(* What the clusters say of the slots. *)

SlotNumbers == Numbers(slots)
KeyOf(i) == SlotKey(slots, i)
Mates(i) == Members(slots, KeyOf(i))

LEMMA SlotsAre ==
  ASSUME ConcInv
  PROVE  /\ Len(slots) \in Nat /\ SlotNumbers = 1..Len(slots) /\ DOMAIN slots = SlotNumbers
         /\ IsFiniteSet(SlotNumbers) /\ Cardinality(SlotNumbers) = Len(slots)
         /\ SlotNumbers \subseteq Nat
         /\ \A i \in SlotNumbers : /\ slots[i] \in Slots /\ SlotWeights[i] = slots[i].revenue
                                   /\ SlotWeights[i] \in Nat /\ SlotWeights[i] \in Int
         /\ DOMAIN SlotWeights = SlotNumbers
  <1>1. Len(slots) \in Nat /\ DOMAIN slots = 1..Len(slots) /\ \A i \in DOMAIN slots : slots[i] \in Slots
    BY DEF ConcInv
  <1>2. IsFiniteSet(1..Len(slots)) /\ Cardinality(1..Len(slots)) = Len(slots)
    BY <1>1, FS_Interval
  <1>3. \A i \in DOMAIN slots : SlotWeights[i] = slots[i].revenue
    BY DEF SlotWeights
  <1> QED
    BY <1>1, <1>2, <1>3, RevenueIsNat DEF SlotNumbers, Numbers, SlotWeights

\* Of one key are the slots of one operator, else of one owner.
LEMMA KeysTell ==
  ASSUME ConcInv, NEW i \in SlotNumbers, NEW j \in SlotNumbers
  PROVE  /\ KeyOf(i) = KeyOf(j) <=>
              \/ i = j
              \/ slots[i].declared # "none" /\ slots[i].declared = slots[j].declared
              \/ /\ {slots[i].declared, slots[j].declared} = {"none"}
                 /\ slots[i].linked # "none" /\ slots[i].linked = slots[j].linked
         /\ KeyOf(i) = KeyOf(j) /\ slots[j].declared = "none" /\ slots[j].linked = "none" => i = j
  <1> DEFINE di == slots[i].declared
             dj == slots[j].declared
             li == slots[i].linked
             lj == slots[j].linked
  <1>1. /\ di \in Operators \cup {"none"} /\ dj \in Operators \cup {"none"}
        /\ li \in Owners \cup {"none"} /\ lj \in Owners \cup {"none"}
    <2>1. slots[i] \in Slots /\ slots[j] \in Slots
      BY SlotsAre
    <2> QED
      BY <2>1 DEF Slots
  <1>2. /\ KeyOf(i) = IF di # "none" THEN <<di, 0>> ELSE IF li # "none" THEN <<li, 0>> ELSE <<"none", i>>
        /\ KeyOf(j) = IF dj # "none" THEN <<dj, 0>> ELSE IF lj # "none" THEN <<lj, 0>> ELSE <<"none", j>>
    BY DEF KeyOf, SlotKey, MergeKey
  <1>3. i \in Nat /\ j \in Nat /\ i # 0 /\ j # 0
    BY SlotsAre
  <1> HIDE DEF di, dj, li, lj
  <1>4. "none" \notin Operators \cup Owners /\ Operators \cap Owners = {}
    BY ConcentrationAssumption
  <1>5. CASE di # "none" /\ dj # "none"
    BY <1>1, <1>2, <1>3, <1>4, <1>5 DEF di, dj, li, lj
  <1>6. CASE di # "none" /\ dj = "none"
    BY <1>1, <1>2, <1>3, <1>4, <1>6 DEF di, dj, li, lj
  <1>7. CASE di = "none" /\ dj # "none"
    BY <1>1, <1>2, <1>3, <1>4, <1>7 DEF di, dj, li, lj
  <1>8. CASE di = "none" /\ dj = "none"
    BY <1>1, <1>2, <1>3, <1>4, <1>8 DEF di, dj, li, lj
  <1> QED
    BY <1>5, <1>6, <1>7, <1>8

\* Every slot is in the cluster of its key.
LEMMA ClustersAre ==
  ASSUME ConcInv
  PROVE  /\ DOMAIN clusters = {KeyOf(i) : i \in SlotNumbers}
         /\ \A i \in SlotNumbers :
              /\ Mates(i) \in SUBSET SlotNumbers /\ IsFiniteSet(Mates(i)) /\ i \in Mates(i)
              /\ \A j \in SlotNumbers : j \in Mates(i) <=> KeyOf(j) = KeyOf(i)
              /\ clusters[KeyOf(i)].computors = Mates(i)
              /\ clusters[KeyOf(i)].revenue = Added(SlotWeights, Mates(i))
              /\ clusters[KeyOf(i)] = Cluster(slots, KeyOf(i), clusters[KeyOf(i)].confidence)
              /\ Strongest(slots, Mates(i), clusters[KeyOf(i)].confidence)
  <1>1. /\ DOMAIN clusters = {KeyOf(i) : i \in SlotNumbers}
        /\ \A k \in DOMAIN clusters :
             /\ clusters[k] = Cluster(slots, k, clusters[k].confidence)
             /\ Strongest(slots, Members(slots, k), clusters[k].confidence)
    BY DEF ConcInv, Parted, KeyOf, SlotNumbers
  <1>2. \A i \in SlotNumbers : /\ Mates(i) \in SUBSET SlotNumbers /\ i \in Mates(i)
                               /\ \A j \in SlotNumbers : j \in Mates(i) <=> KeyOf(j) = KeyOf(i)
    BY DEF Mates, Members, KeyOf, SlotNumbers
  <1>3. \A i \in SlotNumbers : IsFiniteSet(Mates(i))
    BY <1>2, SlotsAre, FS_Subset
  <1>4. \A k, c : /\ Cluster(slots, k, c).computors = Members(slots, k)
                  /\ Cluster(slots, k, c).revenue = Added(SlotWeights, Members(slots, k))
    BY DEF Cluster, SlotWeights, Revenue
  <1> QED
    BY <1>1, <1>2, <1>3, <1>4 DEF Mates

LEMMA PartsAreTold == ConcInv => ClustersPartSlots
  <1> SUFFICES ASSUME ConcInv PROVE ClustersPartSlots
    OBVIOUS
  <1> DEFINE Alike(i, j) ==
               \/ i = j
               \/ slots[i].declared # "none" /\ slots[i].declared = slots[j].declared
               \/ {slots[i].declared, slots[j].declared} = {"none"}
                  /\ slots[i].linked # "none" /\ slots[i].linked = slots[j].linked
             Class(i) == {j \in DOMAIN slots : Alike(i, j)}
             Best(c) == CHOOSE i \in c : \A j \in c :
                          ConfRank(Confidence(slots[i])) <= ConfRank(Confidence(slots[j]))
             Told(c) == [confidence |-> Confidence(slots[Best(c)]), computors |-> c,
                         revenue |-> Together(SlotWeights, c)]
  <1>1. \A i \in SlotNumbers : Class(i) = Mates(i)
    <2> SUFFICES ASSUME NEW i \in SlotNumbers PROVE Class(i) = Mates(i)
      OBVIOUS
    <2>1. \A j \in SlotNumbers : Alike(i, j) <=> KeyOf(j) = KeyOf(i)
      BY KeysTell
    <2> HIDE DEF Alike
    <2> QED
      BY <2>1, ClustersAre, SlotsAre
  <1> HIDE DEF Class, Alike
  <1>2. ASSUME NEW i \in SlotNumbers PROVE clusters[KeyOf(i)] = Told(Mates(i))
    <2> DEFINE c == Mates(i)
               e == clusters[KeyOf(i)].confidence
               b == Best(c)
    <2>1. /\ c \in SUBSET SlotNumbers /\ IsFiniteSet(c) /\ Strongest(slots, c, e)
          /\ clusters[KeyOf(i)] = [confidence |-> e, computors |-> c,
                                   revenue |-> Added(SlotWeights, c)]
      BY ClustersAre DEF Cluster, SlotWeights, Revenue, Mates
    <2>2. Together(SlotWeights, c) = Added(SlotWeights, c)
      BY <2>1, SlotsAre, TogetherIs
    <2>3. e = Confidence(slots[b])
      <3> HIDE DEF c, e
      <3>1. PICK i0 \in c : /\ e = Confidence(slots[i0])
                            /\ \A j \in c : ConfRank(e) <= ConfRank(Confidence(slots[j]))
        BY <2>1 DEF Strongest
      <3>2. b \in c /\ \A j \in c : ConfRank(Confidence(slots[b])) <= ConfRank(Confidence(slots[j]))
        <4> DEFINE P(x) == \A j \in c : ConfRank(Confidence(slots[x])) <= ConfRank(Confidence(slots[j]))
        <4>1. P(i0)
          BY <3>1
        <4> HIDE DEF P
        <4>2. (CHOOSE x \in c : P(x)) \in c /\ P(CHOOSE x \in c : P(x))
          BY <3>1, <4>1
        <4> QED
          BY <4>2 DEF P
      <3>3. /\ Confidence(slots[b]) \in ConfLevels /\ e \in ConfLevels
            /\ ConfRank(Confidence(slots[b])) \in Int /\ ConfRank(e) \in Int
        <4> HIDE DEF b
        <4>1. slots[b] \in Slots /\ slots[i0] \in Slots
          BY <2>1, <3>1, <3>2, SlotsAre
        <4> QED
          BY <3>1, <4>1, ConfidenceIs
      <3> HIDE DEF b
      <3>4. ConfRank(e) = ConfRank(Confidence(slots[b]))
        BY <3>1, <3>2, <3>3
      <3> QED
        BY <3>3, <3>4, ConfRanks DEF ConfLevels
    <2> QED
      BY <2>1, <2>2, <2>3
  <1>3. Range(clusters) = {clusters[KeyOf(i)] : i \in SlotNumbers}
    <2>1. DOMAIN clusters = {KeyOf(i) : i \in SlotNumbers}
      BY ClustersAre
    <2> QED
      BY <2>1 DEF Range
  <1> HIDE DEF Told
  <1>4. Range(clusters) = {Told(c) : c \in {Class(i) : i \in DOMAIN slots}}
    <2>1. \A i \in SlotNumbers : clusters[KeyOf(i)] = Told(Class(i))
      BY <1>1, <1>2
    <2> QED
      BY <1>3, <2>1, SlotsAre
  <1> QED
    BY <1>4 DEF ClustersPartSlots, Told, Class, Alike

\* The slots in clusters of some confidences are counted one by one.
LEMMA SlotsOfIs ==
  ASSUME ConcInv, NEW cs
  PROVE  SlotsOf(cs) = Cardinality({i \in SlotNumbers : clusters[KeyOf(i)].confidence \in cs})
  <1> DEFINE K == {k \in DOMAIN clusters : clusters[k].confidence \in cs}
             M == [k \in DOMAIN clusters |-> Members(slots, k)]
             w == [i \in SlotNumbers |-> 1]
             all == UNION {M[k] : k \in K}
             mine == {i \in SlotNumbers : clusters[KeyOf(i)].confidence \in cs}
  <1>1. IsFiniteSet(DOMAIN clusters)
    <2> DEFINE f == [i \in SlotNumbers |-> KeyOf(i)]
               T == {f[i] : i \in DOMAIN f}
    <2>1. DOMAIN f = SlotNumbers /\ IsFiniteSet(SlotNumbers)
      BY SlotsAre
    <2>2. T = {KeyOf(i) : i \in SlotNumbers}
      OBVIOUS
    <2> HIDE DEF f
    <2>3. IsFiniteSet(T)
      BY <2>1, RangeFinite
    <2> HIDE DEF T
    <2> QED
      BY <2>2, <2>3, ClustersAre
  <1>2. \A k \in DOMAIN clusters : \E i \in SlotNumbers : k = KeyOf(i) /\ M[k] = Mates(i)
    BY ClustersAre DEF Mates
  <1>3. \A k \in DOMAIN clusters : /\ M[k] \in SUBSET SlotNumbers /\ IsFiniteSet(M[k])
                                   /\ Counts[k] = Cardinality(M[k])
    <2> SUFFICES ASSUME NEW k \in DOMAIN clusters
                 PROVE  /\ M[k] \in SUBSET SlotNumbers /\ IsFiniteSet(M[k])
                        /\ Counts[k] = Cardinality(M[k])
      OBVIOUS
    <2>1. PICK i \in SlotNumbers : k = KeyOf(i) /\ M[k] = Mates(i)
      BY <1>2
    <2>2. Counts[k] = Cardinality(clusters[k].computors)
      BY DEF Counts
    <2> HIDE DEF M
    <2> QED
      BY <2>1, <2>2, ClustersAre
  <1>4. \A k, l \in DOMAIN clusters : k # l => M[k] \cap M[l] = {}
    BY DEF Members
  <1>5. \A i \in SlotNumbers : KeyOf(i) \in DOMAIN clusters /\ i \in M[KeyOf(i)]
    BY ClustersAre DEF Mates
  <1>6. \A k \in DOMAIN clusters : \A i \in M[k] : KeyOf(i) = k
    BY DEF Members, KeyOf
  <1> HIDE DEF M
  <1>7. all = mine
    <2>1. \A i \in all : i \in mine
      BY <1>3, <1>6
    <2>2. \A i \in mine : i \in all
      BY <1>5
    <2> HIDE DEF all, mine
    <2> QED
      BY <2>1, <2>2
  <1>8. \A k \in DOMAIN clusters : /\ \A x \in M[k] : w[x] \in Int
                                   /\ Counts[k] = Added(w, M[k]) /\ Counts[k] \in Int
    <2> SUFFICES ASSUME NEW k \in DOMAIN clusters
                 PROVE  /\ \A x \in M[k] : w[x] \in Int
                        /\ Counts[k] = Added(w, M[k]) /\ Counts[k] \in Int
      OBVIOUS
    <2> DEFINE m == M[k]
    <2>1. IsFiniteSet(m) /\ \A x \in m : w[x] = 1
      BY <1>3
    <2> HIDE DEF m, w
    <2>2. Added(w, m) = Cardinality(m) /\ Cardinality(m) \in Nat
      BY <2>1, OnesAdded, FS_CardinalityType
    <2> QED
      BY <1>3, <2>1, <2>2 DEF m
  <1>9. K \in SUBSET DOMAIN clusters /\ IsFiniteSet(K)
    <2>1. K \in SUBSET DOMAIN clusters
      OBVIOUS
    <2> HIDE DEF K
    <2> QED
      BY <1>1, <2>1, FS_Subset
  <1>10. SlotsOf(cs) = Together(Counts, K)
    BY DEF SlotsOf
  <1> HIDE DEF w
  <1>11. /\ \A k \in K : IsFiniteSet(M[k])
         /\ \A k, l \in K : k # l => M[k] \cap M[l] = {}
         /\ \A k \in K : \A x \in M[k] : w[x] \in Int
         /\ \A k \in K : Counts[k] = Added(w, M[k])
         /\ \A k \in K : Counts[k] \in Int
    BY <1>3, <1>4, <1>8, <1>9
  <1> HIDE DEF K
  <1>12. IsFiniteSet(all) /\ Added(Counts, K) = Added(w, all)
    BY <1>9, <1>11, AddedParts
  <1>13. Together(Counts, K) = Added(Counts, K)
    BY <1>9, <1>11, TogetherIs
  <1>14. Added(w, all) = Cardinality(all)
    <2>1. \A x \in all : w[x] = 1
      BY <1>7 DEF w
    <2> HIDE DEF all
    <2> QED
      BY <1>12, <2>1, OnesAdded
  <1> HIDE DEF all, mine
  <1>15. Cardinality(all) = Cardinality(mine)
    BY <1>7
  <1> QED
    BY <1>10, <1>12, <1>13, <1>14, <1>15 DEF mine

\* A cluster is linked, or not attributed, when each of its slots is.
LEMMA WeakClusters ==
  ASSUME ConcInv, NEW i \in SlotNumbers
  PROVE  /\ clusters[KeyOf(i)].confidence = "linked" <=>
              slots[i].declared = "none" /\ slots[i].linked # "none"
         /\ clusters[KeyOf(i)].confidence = "unattributed" <=>
              slots[i].declared = "none" /\ slots[i].linked = "none"
  <1>1. PICK j \in Mates(i) : clusters[KeyOf(i)].confidence = Confidence(slots[j])
    BY ClustersAre DEF Strongest
  <1>2. j \in SlotNumbers /\ KeyOf(i) = KeyOf(j)
    BY <1>1, ClustersAre
  <1>3. /\ i = j \/ (slots[i].declared # "none" /\ slots[i].declared = slots[j].declared)
                 \/ ({slots[i].declared, slots[j].declared} = {"none"}
                     /\ slots[i].linked # "none" /\ slots[i].linked = slots[j].linked)
        /\ slots[i] \in Slots /\ slots[j] \in Slots
    BY <1>2, KeysTell, SlotsAre
  <1>4. slots[i].declared = slots[j].declared \/ i = j
    BY <1>3
  <1>5. /\ slots[i].declared = "none" <=> slots[j].declared = "none"
        /\ slots[i].declared = "none" => slots[i].linked = slots[j].linked
    BY <1>3
  <1> QED
    BY <1>1, <1>3, <1>5, ConfidenceIs

LEMMA DetectedIsCounted == ConcInv => DetectedIsExact
  <1> SUFFICES ASSUME ConcInv PROVE DetectedIsExact
    OBVIOUS
  <1> DEFINE undeclared == {i \in SlotNumbers : slots[i].declared = "none" /\ slots[i].linked # "none"}
             known == {i \in SlotNumbers : slots[i].declared # "none" \/ slots[i].linked # "none"}
             dark == {i \in SlotNumbers : slots[i].declared = "none" /\ slots[i].linked = "none"}
  <1>1. UndeclaredLinkedSlots = Cardinality(undeclared)
    <2>1. {i \in SlotNumbers : clusters[KeyOf(i)].confidence \in {"linked"}} = undeclared
      BY WeakClusters
    <2> QED
      BY <2>1, SlotsOfIs, Zenon DEF UndeclaredLinkedSlots
  <1>2. SlotsOf({"unattributed"}) = Cardinality(dark)
    <2>1. {i \in SlotNumbers : clusters[KeyOf(i)].confidence \in {"unattributed"}} = dark
      BY WeakClusters
    <2> QED
      BY <2>1, SlotsOfIs, Zenon
  <1>3. Len(slots) - Cardinality(dark) = Cardinality(known)
    <2>1. known = SlotNumbers \ dark /\ SlotNumbers \cap dark = dark
      OBVIOUS
    <2>2. IsFiniteSet(SlotNumbers) /\ Cardinality(SlotNumbers) = Len(slots)
      BY SlotsAre
    <2>3. dark \in SUBSET SlotNumbers
      OBVIOUS
    <2> HIDE DEF dark, known
    <2>4. Cardinality(SlotNumbers \ dark) = Cardinality(SlotNumbers) - Cardinality(SlotNumbers \cap dark)
      BY <2>2, FS_Difference
    <2>5. /\ Cardinality(SlotNumbers \ dark) = Cardinality(known)
          /\ Cardinality(SlotNumbers \cap dark) = Cardinality(dark)
      BY <2>1, Zenon
    <2> QED
      BY <2>2, <2>4, <2>5
  <1>4. slots # <<>> => AttributedSlots = Cardinality(known)
    <2> HIDE DEF dark, known
    <2> QED
      BY <1>2, <1>3 DEF AttributedSlots
  <1> QED
    BY <1>1, <1>4, SlotsAre, Zenon DEF DetectedIsExact

-----------------------------------------------------------------------------
(* The coefficient. *)

\* A coalition holds more than its threshold of everything.
Wins(ws, S, t) == Together(ws, S) * t[2] > t[1] * Total(ws)

LEMMA LeastIs ==
  ASSUME NEW S \in SUBSET Nat, NEW m \in S, \A x \in S : m <= x
  PROVE  Min(S) = m
  <1> DEFINE P(x) == \A y \in S : x <= y
  <1>1. P(m)
    OBVIOUS
  <1> HIDE DEF P
  <1>2. (CHOOSE x \in S : P(x)) \in S /\ P(CHOOSE x \in S : P(x))
    BY <1>1
  <1> DEFINE q == Min(S)
  <1>3. q \in S /\ q <= m
    BY <1>2 DEF Min, P
  <1> HIDE DEF q
  <1>4. q \in Nat /\ m \in Nat /\ m <= q
    BY <1>3
  <1>5. q = m
    BY <1>3, <1>4
  <1> QED
    BY <1>5 DEF q

\* Sums are taken as they are, a share of all and of nothing too.
LEMMA SumsAre ==
  ASSUME NEW ws, Weighs(ws)
  PROVE  /\ \A S \in SUBSET DOMAIN ws : /\ IsFiniteSet(S) /\ Together(ws, S) = Added(ws, S)
                                        /\ Added(ws, S) \in Nat /\ Together(ws, S) \in Nat
                                        /\ Cardinality(S) \in Nat
         /\ Total(ws) = Added(ws, DOMAIN ws) /\ Total(ws) \in Nat
         /\ Added(ws, {}) = 0
  <1>1. \A x \in DOMAIN ws : ws[x] \in Int /\ ws[x] \in Nat
    BY DEF Weighs
  <1>2. Added(ws, {}) = 0
    BY FS_EmptySet, AddedSteps
  <1>3. ASSUME NEW S \in SUBSET DOMAIN ws
        PROVE  /\ IsFiniteSet(S) /\ Together(ws, S) = Added(ws, S)
               /\ Added(ws, S) \in Nat /\ Cardinality(S) \in Nat
    <2>1. IsFiniteSet(S) /\ (\A x \in S : ws[x] \in Int) /\ \A x \in S : ws[x] \in Nat
      BY <1>1, FS_Subset DEF Weighs
    <2>2. Added(ws, S) \in Int /\ Together(ws, S) = Added(ws, S)
      BY <2>1, AddedSteps, TogetherIs
    <2> DEFINE E == {}
    <2>3. E \in SUBSET S /\ Added(ws, E) = 0
      BY <1>2
    <2> HIDE DEF E
    <2>4. Added(ws, E) <= Added(ws, S)
      BY <2>1, <2>3, PartWeighsLess
    <2> QED
      BY <2>1, <2>2, <2>3, <2>4, FS_CardinalityType
  <1>4. DOMAIN ws \in SUBSET DOMAIN ws
    OBVIOUS
  <1> QED
    BY <1>2, <1>3, <1>4 DEF Total

LEMMA ThresholdsAre ==
  ASSUME NEW t \in Thresholds
  PROVE  /\ t[1] \in Nat /\ t[2] \in Nat
         /\ \A x \in Nat : x > 0 => x * t[2] > t[1] * x
         /\ \A x \in Nat : t[1] * x \in Nat
         /\ \A x, y \in Nat : x <= y => x * t[2] <= y * t[2]
  <1>1. CASE t = <<1, 3>>
    BY <1>1
  <1>2. CASE t = <<1, 2>>
    BY <1>2
  <1> QED
    BY <1>1, <1>2 DEF Thresholds

\* A coalition that holds as much wins as well.
LEMMA WinsMore ==
  ASSUME NEW ws, Weighs(ws), NEW t \in Thresholds, NEW S \in SUBSET DOMAIN ws, Wins(ws, S, t),
         NEW R \in SUBSET DOMAIN ws, Added(ws, S) <= Added(ws, R)
  PROVE  Wins(ws, R, t)
  <1> DEFINE a == Added(ws, S)
             b == Added(ws, R)
             all == t[1] * Total(ws)
  <1>1. a \in Nat /\ b \in Nat /\ all \in Nat /\ a * t[2] > all /\ t[2] \in Nat
    BY SumsAre, ThresholdsAre DEF Wins
  <1>2. a <= b
    OBVIOUS
  <1> HIDE DEF a, b, all
  <1>3. a * t[2] <= b * t[2] /\ a * t[2] \in Nat /\ b * t[2] \in Nat
    BY <1>1, <1>2, ThresholdsAre
  <1>4. b * t[2] > all
    BY <1>1, <1>3
  <1> QED
    BY <1>4, SumsAre DEF Wins, b, all

\* The coefficient is the size of a coalition that wins, and none smaller does.
LEMMA CoefficientIs ==
  ASSUME NEW ws, Weighs(ws), NEW t \in Thresholds, Total(ws) > 0
  PROVE  /\ Nakamoto(ws, t[1], t[2]) \in Nat
         /\ Wins(ws, Largest(ws, Nakamoto(ws, t[1], t[2])), t)
         /\ Cardinality(Largest(ws, Nakamoto(ws, t[1], t[2]))) = Nakamoto(ws, t[1], t[2])
         /\ \A S \in SUBSET DOMAIN ws :
              Wins(ws, S, t) => Nakamoto(ws, t[1], t[2]) <= Cardinality(S)
  <1> DEFINE D == DOMAIN ws
             count == Cardinality(D)
             big == {n \in 1..count : Wins(ws, Largest(ws, n), t)}
             m == Min(big)
  <1>1. /\ D \in SUBSET D /\ count \in Nat /\ IsFiniteSet(D)
        /\ \A n \in Nat : Largest(ws, n) \in SUBSET D
    BY LargestCount, FS_CardinalityType DEF Weighs
  <1>2. ASSUME NEW S \in SUBSET D, Wins(ws, S, t)
        PROVE  Cardinality(S) \in big
    <2>1. Cardinality(S) \in Nat /\ Cardinality(S) <= count
      BY <1>1, FS_Subset, SumsAre
    <2>2. Cardinality(S) # 0
      <3> SUFFICES ASSUME Cardinality(S) = 0 PROVE FALSE
        OBVIOUS
      <3>1. S = {}
        BY <1>1, FS_EmptySet, FS_Subset
      <3>2. Together(ws, S) = 0 /\ t[2] \in Nat /\ t[1] * Total(ws) \in Nat
        BY <3>1, SumsAre, ThresholdsAre
      <3>3. 0 * t[2] > t[1] * Total(ws)
        BY <1>2, <3>2 DEF Wins
      <3> QED
        BY <3>2, <3>3
    <2>3. Added(ws, S) <= Added(ws, Largest(ws, Cardinality(S)))
      <3> DEFINE n == Cardinality(S)
      <3>1. n \in Nat /\ Cardinality(S) <= n
        BY <2>1
      <3> HIDE DEF n
      <3>2. Added(ws, S) <= Added(ws, Largest(ws, n))
        BY <3>1, LargestMost
      <3> QED
        BY <3>2 DEF n
    <2>4. Wins(ws, Largest(ws, Cardinality(S)), t)
      BY <1>1, <1>2, <2>1, <2>3, WinsMore
    <2> QED
      BY <1>1, <2>1, <2>2, <2>4
  <1>3. Wins(ws, D, t)
    BY <1>1, SumsAre, ThresholdsAre DEF Wins, Total
  <1>4. big # {} /\ big \in SUBSET Nat
    BY <1>1, <1>2, <1>3
  <1>5. Nakamoto(ws, t[1], t[2]) = m
    <2>1. Total(ws) # 0
      BY SumsAre
    <2> QED
      BY <1>4, <2>1 DEF Nakamoto, Exceeds, Wins
  <1>6. m \in big /\ \A x \in big : m <= x
    <2> HIDE DEF big
    <2>1. PICK x \in big : \A y \in big : x <= y
      BY <1>4, LeastFound
    <2> QED
      BY <1>4, <2>1, LeastIs
  <1> HIDE DEF m
  <1>7. Wins(ws, Largest(ws, m), t) /\ m \in Nat /\ m <= count
    BY <1>1, <1>6
  <1>8. Cardinality(Largest(ws, m)) = m
    <2>1. \/ Cardinality(Largest(ws, m)) = m
          \/ Largest(ws, m) = D /\ Cardinality(Largest(ws, m)) <= m
      BY <1>7, LargestCount
    <2> QED
      BY <1>1, <1>7, <2>1
  <1>9. \A S \in SUBSET D : Wins(ws, S, t) => m <= Cardinality(S)
    BY <1>2, <1>6
  <1> QED
    BY <1>5, <1>7, <1>8, <1>9

-----------------------------------------------------------------------------
(* The slots and the clusters compared. *)

FirstOf(i) == Min(Mates(i))

\* A cluster is weighed under its first slot.
LEMMA HeadsAre ==
  ASSUME ConcInv
  PROVE  /\ Heads = {FirstOf(i) : i \in SlotNumbers} /\ DOMAIN Weights = Heads
         /\ \A i \in SlotNumbers : /\ FirstOf(i) \in SlotNumbers /\ FirstOf(i) \in Mates(i)
                                   /\ KeyOf(FirstOf(i)) = KeyOf(i) /\ Mates(FirstOf(i)) = Mates(i)
         /\ \A h \in Heads : /\ h \in SlotNumbers /\ FirstOf(h) = h
                             /\ Weights[h] = Added(SlotWeights, Mates(h))
  <1>1. Heads = {FirstOf(i) : i \in SlotNumbers}
    <2>1. \A k \in DOMAIN clusters : \E i \in SlotNumbers :
            k = KeyOf(i) /\ Min(clusters[k].computors) = FirstOf(i)
      BY ClustersAre DEF FirstOf
    <2>2. \A i \in SlotNumbers : KeyOf(i) \in DOMAIN clusters /\ Min(clusters[KeyOf(i)].computors) = FirstOf(i)
      BY ClustersAre DEF FirstOf
    <2> QED
      BY <2>1, <2>2 DEF Heads
  <1>2. ASSUME NEW i \in SlotNumbers
        PROVE  /\ FirstOf(i) \in SlotNumbers /\ FirstOf(i) \in Mates(i)
               /\ KeyOf(FirstOf(i)) = KeyOf(i) /\ Mates(FirstOf(i)) = Mates(i)
    <2> DEFINE c == Mates(i)
    <2>1. c \in SUBSET Nat /\ c # {} /\ c \in SUBSET SlotNumbers
      BY ClustersAre, SlotsAre
    <2>2. Min(c) \in c
      <3> HIDE DEF c
      <3>1. PICK x \in c : \A y \in c : x <= y
        BY <2>1, LeastFound
      <3> QED
        BY <2>1, <3>1, LeastIs
    <2>3. FirstOf(i) \in c /\ FirstOf(i) \in SlotNumbers
      BY <2>1, <2>2 DEF FirstOf
    <2>4. KeyOf(FirstOf(i)) = KeyOf(i)
      BY <2>3, ClustersAre
    <2> QED
      BY <2>3, <2>4 DEF Mates
  <1>3. ASSUME NEW h \in Heads
        PROVE  h \in SlotNumbers /\ FirstOf(h) = h /\ Weights[h] = Added(SlotWeights, Mates(h))
    <2>1. PICK i \in SlotNumbers : h = FirstOf(i)
      BY <1>1
    <2>2. h \in SlotNumbers /\ Mates(h) = Mates(i)
      BY <1>2, <2>1
    <2>3. FirstOf(h) = h
      BY <2>1, <2>2 DEF FirstOf
    <2>4. Weights[h] = clusters[KeyOf(h)].revenue
      BY DEF Weights, KeyOf, SlotKey
    <2> QED
      BY <2>2, <2>3, <2>4, ClustersAre
  <1>4. DOMAIN Weights = Heads
    BY DEF Weights
  <1> QED
    BY <1>1, <1>2, <1>3, <1>4

LEMMA BothWeigh ==
  ASSUME ConcInv
  PROVE  Weighs(SlotWeights) /\ Weighs(Weights)
  <1>1. Weighs(SlotWeights)
    BY SlotsAre DEF Weighs
  <1>2. DOMAIN Weights \in SUBSET SlotNumbers
    BY HeadsAre
  <1>3. IsFiniteSet(DOMAIN Weights) /\ DOMAIN Weights \subseteq Nat
    BY <1>2, SlotsAre, FS_Subset
  <1>4. \A h \in DOMAIN Weights : Weights[h] \in Nat
    <2> SUFFICES ASSUME NEW h \in DOMAIN Weights PROVE Weights[h] \in Nat
      OBVIOUS
    <2>1. h \in SlotNumbers /\ Weights[h] = Added(SlotWeights, Mates(h))
      BY HeadsAre
    <2>2. Mates(h) \in SUBSET DOMAIN SlotWeights
      BY <2>1, ClustersAre, SlotsAre
    <2> QED
      BY <1>1, <2>1, <2>2, SumsAre
  <1> QED
    BY <1>1, <1>3, <1>4 DEF Weighs

\* The clusters of some slots are no more than the slots, and hold no less;
\* all of them hold the same.
LEMMA ClustersHoldMore ==
  ASSUME ConcInv, NEW S \in SUBSET SlotNumbers
  PROVE  \E T \in SUBSET Heads :
           /\ Cardinality(T) <= Cardinality(S)
           /\ Added(SlotWeights, S) <= Added(Weights, T)
           /\ S = SlotNumbers => T = Heads /\ Added(SlotWeights, S) = Added(Weights, T)
  <1> DEFINE f == [i \in S |-> FirstOf(i)]
             T == {f[i] : i \in S}
             M == [h \in Heads |-> Mates(h)]
             all == UNION {M[k] : k \in T}
             w == SlotWeights
  <1>1. IsFiniteSet(S) /\ (\A i \in SlotNumbers : w[i] \in Int /\ w[i] \in Nat)
    BY SlotsAre, FS_Subset
  <1>2. T \in SUBSET Heads /\ \A i \in S : FirstOf(i) \in T
    BY HeadsAre
  <1>3. IsFiniteSet(T) /\ Cardinality(T) <= Cardinality(S)
    <2>1. f \in Surjection(S, T)
      BY DEF Surjection
    <2> HIDE DEF f, T
    <2> QED
      BY <1>1, <2>1, FS_Surjection
  <1>4. \A h \in Heads : M[h] = Mates(h) /\ M[h] \in SUBSET SlotNumbers /\ IsFiniteSet(M[h])
    BY HeadsAre, ClustersAre
  <1>5. \A h, g \in Heads : h # g => M[h] \cap M[g] = {}
    <2> SUFFICES ASSUME NEW h \in Heads, NEW g \in Heads, NEW i \in M[h], i \in M[g] PROVE h = g
      OBVIOUS
    <2>1. /\ h \in SlotNumbers /\ g \in SlotNumbers /\ FirstOf(h) = h /\ FirstOf(g) = g
          /\ i \in Mates(h) /\ i \in Mates(g) /\ i \in SlotNumbers
      BY <1>4, HeadsAre
    <2>2. KeyOf(i) = KeyOf(h) /\ KeyOf(i) = KeyOf(g)
      BY <2>1, ClustersAre
    <2>3. Mates(h) = Mates(g)
      BY <2>2 DEF Mates
    <2> QED
      BY <2>1, <2>3 DEF FirstOf
  <1> HIDE DEF M, w, f
  <1>6. S \subseteq all /\ all \subseteq SlotNumbers
    <2>1. ASSUME NEW i \in S PROVE i \in all
      <3>1. FirstOf(i) \in T /\ FirstOf(i) \in Heads /\ i \in M[FirstOf(i)]
        BY <1>2, <1>4, HeadsAre, ClustersAre
      <3> QED
        BY <3>1
    <2>2. all \subseteq SlotNumbers
      BY <1>2, <1>4
    <2> QED
      BY <2>1, <2>2
  <1>7. \A h \in T : \A x \in M[h] : w[x] \in Int
    BY <1>1, <1>2, <1>4
  <1>8. \A h \in T : Weights[h] = Added(w, M[h])
    BY <1>2, <1>4, HeadsAre DEF w
  <1>9. \A h \in T : IsFiniteSet(M[h])
    BY <1>2, <1>4
  <1>10. \A h, g \in T : h # g => M[h] \cap M[g] = {}
    BY <1>2, <1>5
  <1>11. S = SlotNumbers => T = Heads
    BY HeadsAre DEF f
  <1> HIDE DEF T
  <1>12. IsFiniteSet(all) /\ Added(Weights, T) = Added(w, all)
    <2> DEFINE v == Weights
    <2>1. \A k \in T : v[k] = Added(w, M[k])
      BY <1>8
    <2>2. IsFiniteSet(T)
      BY <1>3
    <2> HIDE DEF v
    <2>3. IsFiniteSet(all) /\ Added(v, T) = Added(w, all)
      BY <1>7, <1>9, <1>10, <2>1, <2>2, AddedParts, SMTT(60)
    <2> QED
      BY <2>3 DEF v
  <1> HIDE DEF all
  <1>13. S \in SUBSET all /\ \A x \in all : w[x] \in Nat
    BY <1>1, <1>6
  <1>14. Added(w, S) <= Added(w, all)
    BY <1>12, <1>13, PartWeighsLess
  <1>15. Added(w, S) <= Added(Weights, T)
    BY <1>12, <1>14
  <1>16. S = SlotNumbers => Added(w, S) = Added(Weights, T)
    <2> SUFFICES ASSUME S = SlotNumbers PROVE Added(w, S) = Added(w, all)
      BY <1>12
    <2>1. S = all
      BY <1>6
    <2> QED
      BY <2>1
  <1> QED
    BY <1>2, <1>3, <1>11, <1>15, <1>16 DEF w

LEMMA TotalsAgree ==
  ASSUME ConcInv
  PROVE  Total(Weights) = Total(SlotWeights)
  <1>1. SlotNumbers \in SUBSET SlotNumbers
    OBVIOUS
  <1>2. Added(SlotWeights, SlotNumbers) = Added(Weights, Heads)
    BY <1>1, ClustersHoldMore
  <1> QED
    BY <1>2, BothWeigh, SumsAre, SlotsAre, HeadsAre

\* What the n largest slots hold the n largest clusters hold.
LEMMA LargestHoldMore ==
  ASSUME ConcInv, NEW n \in Nat
  PROVE  Added(SlotWeights, Largest(SlotWeights, n)) <= Added(Weights, Largest(Weights, n))
  <1> DEFINE S == Largest(SlotWeights, n)
  <1>1. S \in SUBSET SlotNumbers /\ Cardinality(S) <= n /\ Cardinality(S) \in Nat
    BY BothWeigh, LargestCount, SlotsAre
  <1> HIDE DEF S
  <1>2. PICK T \in SUBSET Heads : /\ Cardinality(T) <= Cardinality(S)
                                  /\ Added(SlotWeights, S) <= Added(Weights, T)
    BY <1>1, ClustersHoldMore
  <1>3. T \in SUBSET DOMAIN Weights /\ Weighs(Weights) /\ Weighs(SlotWeights)
    BY BothWeigh, HeadsAre
  <1>4. Cardinality(T) \in Nat /\ Cardinality(T) <= n
    BY <1>1, <1>2, <1>3, SumsAre
  <1>5. Added(Weights, T) <= Added(Weights, Largest(Weights, n))
    BY <1>3, <1>4, LargestMost
  <1>6. /\ Added(SlotWeights, S) \in Nat /\ Added(Weights, T) \in Nat
        /\ Added(Weights, Largest(Weights, n)) \in Nat
    BY <1>1, <1>3, SumsAre, SlotsAre, LargestCount
  <1>7. Added(SlotWeights, S) <= Added(Weights, Largest(Weights, n))
    BY <1>2, <1>5, <1>6
  <1> QED
    BY <1>7 DEF S

LEMMA CoefficientFound == ConcInv => NakamotoIsSmallest
  <1> SUFFICES ASSUME ConcInv, NEW t \in Thresholds, Total(Weights) > 0
               PROVE  Nakamoto(Weights, t[1], t[2]) =
                        Min({Cardinality(S) : S \in {R \in SUBSET DOMAIN Weights :
                               Together(Weights, R) * t[2] > t[1] * Total(Weights)}})
    BY DEF NakamotoIsSmallest
  <1> DEFINE m == Nakamoto(Weights, t[1], t[2])
             winners == {R \in SUBSET DOMAIN Weights :
                           Together(Weights, R) * t[2] > t[1] * Total(Weights)}
             sizes == {Cardinality(S) : S \in winners}
  <1>1. Weighs(Weights)
    BY BothWeigh
  <1>2. /\ m \in Nat /\ Wins(Weights, Largest(Weights, m), t)
        /\ Cardinality(Largest(Weights, m)) = m
        /\ \A S \in SUBSET DOMAIN Weights : Wins(Weights, S, t) => m <= Cardinality(S)
    BY <1>1, CoefficientIs
  <1> HIDE DEF m
  <1>3. Largest(Weights, m) \in winners
    BY <1>1, <1>2, LargestCount DEF Wins
  <1>4. m \in sizes /\ \A x \in sizes : m <= x
    BY <1>2, <1>3 DEF Wins
  <1>5. sizes \in SUBSET Nat
    BY <1>1, SumsAre
  <1> HIDE DEF sizes
  <1>6. Min(sizes) = m
    BY <1>4, <1>5, LeastIs
  <1> QED
    BY <1>6 DEF sizes, winners, m

LEMMA NothingSpreads == ConcInv => ClusteringNeverSpreads
  <1> SUFFICES ASSUME ConcInv PROVE ClusteringNeverSpreads
    OBVIOUS
  <1>1. Weighs(SlotWeights) /\ Weighs(Weights) /\ Total(Weights) = Total(SlotWeights)
    BY BothWeigh, TotalsAgree
  <1>2. ASSUME NEW t \in Thresholds
        PROVE  Nakamoto(Weights, t[1], t[2]) <= Nakamoto(SlotWeights, t[1], t[2])
    <2>1. CASE Total(SlotWeights) = 0
      BY <1>1, <2>1 DEF Nakamoto
    <2>2. CASE Total(SlotWeights) # 0
      <3> DEFINE m == Nakamoto(SlotWeights, t[1], t[2])
                 k == Nakamoto(Weights, t[1], t[2])
                 S == Largest(SlotWeights, m)
                 R == Largest(Weights, m)
      <3>1. Total(SlotWeights) > 0
        BY <1>1, <2>2, SumsAre
      <3>2. m \in Nat /\ Wins(SlotWeights, S, t)
        BY <1>1, <3>1, CoefficientIs
      <3>3. /\ k \in Nat
            /\ \A T \in SUBSET DOMAIN Weights : Wins(Weights, T, t) => k <= Cardinality(T)
        BY <1>1, <3>1, CoefficientIs
      <3> HIDE DEF m, k
      <3>4. Added(SlotWeights, S) <= Added(Weights, R)
        BY <3>2, LargestHoldMore
      <3>5. /\ S \in SUBSET DOMAIN SlotWeights /\ R \in SUBSET DOMAIN Weights
            /\ Cardinality(R) <= m /\ Cardinality(R) \in Nat
        BY <1>1, <3>2, LargestCount
      <3> HIDE DEF S, R
      <3>6. Wins(Weights, R, t)
        <4> DEFINE a == Added(SlotWeights, S)
                   b == Added(Weights, R)
                   all == t[1] * Total(Weights)
        <4>1. /\ a \in Nat /\ b \in Nat /\ all \in Nat /\ a * t[2] > all /\ t[2] \in Nat
              /\ Together(Weights, R) = b
          BY <1>1, <3>2, <3>5, SumsAre, ThresholdsAre DEF Wins
        <4>2. a <= b
          BY <3>4
        <4> HIDE DEF a, b, all
        <4>3. a * t[2] <= b * t[2] /\ a * t[2] \in Nat /\ b * t[2] \in Nat
          BY <4>1, <4>2, ThresholdsAre
        <4>4. b * t[2] > all
          BY <4>1, <4>3
        <4> QED
          BY <4>1, <4>4 DEF Wins, all
      <3>7. k <= m
        BY <3>2, <3>3, <3>5, <3>6
      <3> QED
        BY <3>7 DEF k, m
    <2> QED
      BY <2>1, <2>2
  <1>3. ASSUME NEW n \in Nat PROVE TopShare(Weights, n) >= TopShare(SlotWeights, n)
    <2>1. Largest(Weights, n) \in SUBSET DOMAIN Weights /\ Largest(SlotWeights, n) \in SUBSET DOMAIN SlotWeights
      BY <1>1, LargestCount
    <2>2. /\ TopShare(Weights, n) = Added(Weights, Largest(Weights, n))
          /\ TopShare(SlotWeights, n) = Added(SlotWeights, Largest(SlotWeights, n))
          /\ TopShare(Weights, n) \in Nat /\ TopShare(SlotWeights, n) \in Nat
      BY <1>1, <2>1, SumsAre DEF TopShare
    <2> QED
      BY <2>2, LargestHoldMore
  <1>4. \A n \in {1, 3, 5} : TopShare(Weights, n) >= TopShare(SlotWeights, n)
    BY <1>3
  <1> QED
    BY <1>2, <1>4 DEF ClusteringNeverSpreads

-----------------------------------------------------------------------------
(* For any computors, whatever their revenues are. *)

\* The clusters part the slots, however computors come: by operator, else owner,
\* else each alone, with their revenue and their strongest confidence
\* (clustering.py cluster_epoch).
THEOREM ClustersPart == ConcSpec => []ClustersPartSlots
  BY ConcHolds, PartsAreTold, PTL

\* The figures of undeclared and of attributed slots count the slots themselves
\* (clustering.py declared_vs_detected, linkage_coverage).
THEOREM DetectedCounts == ConcSpec => []DetectedIsExact
  BY ConcHolds, DetectedIsCounted, PTL

\* The coefficient is the size of the smallest coalition of clusters that holds
\* more than the threshold (metrics.py nakamoto_coefficient).
THEOREM CoefficientIsSmallest == ConcSpec => []NakamotoIsSmallest
  BY ConcHolds, CoefficientFound, PTL

\* Putting slots together never raises the coefficient and never lowers what the
\* largest hold (clustering.py, "systematically optimistic").
THEOREM ClusteringConcentrates == ConcSpec => []ClusteringNeverSpreads
  BY ConcHolds, NothingSpreads, PTL
=============================================================================
