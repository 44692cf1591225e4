----------------------------- MODULE Concentration -----------------------------
(***************************************************************************)
(* Who holds an epoch: the slots put into clusters by what operators       *)
(* declare and what the chain links (qdr/clustering.py), and the           *)
(* concentration of the clusters' revenue (qdr/metrics.py).                *)
(*                                                                         *)
(* One step assigns one more computor, as the loop of cluster_epoch does.  *)
(* The indices are compared as fractions: a numerator over a denominator.  *)
(***************************************************************************)
EXTENDS Integers, Sequences, FiniteSetsExt, Functions

CONSTANTS
  Operators,  \* the pools of the registry
  Owners,     \* where payouts go: the linkage
  Revenues,   \* what a computor may have earned
  SlotCount   \* bound: computors

ASSUME ConcentrationAssumption ==
  /\ Revenues \subseteq Nat /\ SlotCount \in Nat
  /\ "none" \notin Operators \cup Owners /\ Operators \cap Owners = {}

VARIABLES
  slots,     \* the computors assigned so far: declared, linked, revenue
  clusters   \* merge key -> cluster

concVars == <<slots, clusters>>

ConcInit == slots = <<>> /\ clusters = <<>>

Slots == [declared : Operators \cup {"none"}, linked : Owners \cup {"none"}, revenue : Revenues]

-----------------------------------------------------------------------------
(* Clusters. *)

\* The confidence levels, strongest first.
Confidences == <<"declared+linked", "linked", "declared", "unattributed">>
ConfRank(c) == CHOOSE i \in DOMAIN Confidences : Confidences[i] = c

\* What merge_key says of the i-th slot: its confidence, and its cluster.
Confidence(s) ==
  CASE s.declared # "none" /\ s.linked # "none" -> "declared+linked"
    [] s.declared # "none" /\ s.linked = "none" -> "declared"
    [] s.declared = "none" /\ s.linked # "none" -> "linked"
    [] s.declared = "none" /\ s.linked = "none" -> "unattributed"

\* Mutant: the chain's owner comes before the declared operator.
MergeKeyMutant(s, i) ==
  IF s.linked # "none" THEN <<s.linked, 0>>
  ELSE IF s.declared # "none" THEN <<s.declared, 0>> ELSE <<"none", i>>

MergeKey(s, i) ==
  IF s.declared # "none" THEN <<s.declared, 0>>
  ELSE IF s.linked # "none" THEN <<s.linked, 0>> ELSE <<"none", i>>

\* Mutant: the confidence of the slot that comes last stays.
StrongerMutant(c, d) == d

\* A merge keeps the strongest confidence of its parts.
Stronger(c, d) == IF ConfRank(d) < ConfRank(c) THEN d ELSE c

\* The clusters with c under its key.
With(cs, key, c) == [k \in DOMAIN cs \cup {key} |-> IF k = key THEN c ELSE cs[k]]

\* Mutant: a slot that joins brings no revenue.
JoinedMutant(cs, s, i) ==
  LET key == MergeKey(s, i)
      old == cs[key]
  IN  With(cs, key,
           IF key \in DOMAIN cs THEN [old EXCEPT !.computors = @ \cup {i}]
           ELSE [confidence |-> Confidence(s), computors |-> {i}, revenue |-> s.revenue])

\* The i-th slot joins its cluster, or opens it.
Joined(cs, s, i) ==
  LET key == MergeKey(s, i)
      old == cs[key]
  IN  With(cs, key,
           IF key \in DOMAIN cs
           THEN [confidence |-> Stronger(old.confidence, Confidence(s)),
                 computors |-> old.computors \cup {i}, revenue |-> old.revenue + s.revenue]
           ELSE [confidence |-> Confidence(s), computors |-> {i}, revenue |-> s.revenue])

Assign ==
  /\ Len(slots) < SlotCount
  /\ \E s \in Slots :
       /\ slots' = Append(slots, s)
       /\ clusters' = Joined(clusters, s, Len(slots) + 1)

ConcNext == Assign

ConcSpec == ConcInit /\ [][ConcNext]_concVars

-----------------------------------------------------------------------------
(* What the report says of them. *)

\* The sum of the weights ws over S.
Together(ws, S) == MapThenSumSet(LAMBDA x : ws[x], S)

\* The slots in clusters of the confidences cs.
Counts == [k \in DOMAIN clusters |-> Cardinality(clusters[k].computors)]
SlotsOf(cs) == Together(Counts, {k \in DOMAIN clusters : clusters[k].confidence \in cs})

\* linkage_coverage: the slots not unattributed; without any slot it says one.
AttributedSlots ==
  (IF slots = <<>> THEN 1 ELSE Len(slots)) - SlotsOf({"unattributed"})

\* declared_vs_detected: the slots the chain links and nobody declared.
UndeclaredLinkedSlots == SlotsOf({"linked"})

-----------------------------------------------------------------------------
(* The indices, over weights by their number in the list that is sorted. *)

Total(ws) == Together(ws, DOMAIN ws)

\* Where i comes by falling weight, equal ones in their order, and the first n.
Place(ws, i) ==
  Cardinality({j \in DOMAIN ws : ws[j] > ws[i] \/ (ws[j] = ws[i] /\ j <= i)})
Largest(ws, n) == {i \in DOMAIN ws : Place(ws, i) <= n}

\* Mutant: a share that just reaches the threshold is enough.
ExceedsMutant(acc, num, den, total) == acc * den >= num * total

\* The share acc / total exceeds num / den.
Exceeds(acc, num, den, total) == acc * den > num * total

\* nakamoto_coefficient
Nakamoto(ws, num, den) ==
  LET total == Total(ws)
      count == Cardinality(DOMAIN ws)
      big   == {n \in 1..count : Exceeds(Together(ws, Largest(ws, n)), num, den, total)}
  IN  IF total = 0 THEN 0 ELSE IF big = {} THEN count ELSE Min(big)

\* top_n_share, times the total.
TopShare(ws, n) == Together(ws, Largest(ws, n))

-----------------------------------------------------------------------------
(* Properties. *)

\* The revenue of each slot alone, and of each cluster under its first slot.
SlotWeights == [i \in DOMAIN slots |-> slots[i].revenue]
Heads == {Min(clusters[k].computors) : k \in DOMAIN clusters}
Weights == [i \in Heads |-> clusters[MergeKey(slots[i], i)].revenue]

\* Whatever the order in which computors come, the clusters part them by
\* operator, else owner, else each alone, hold their revenue and the strongest
\* confidence among them (clustering.py cluster_epoch).
ClustersPartSlots ==
  LET Alike(i, j) ==
        \/ i = j
        \/ slots[i].declared # "none" /\ slots[i].declared = slots[j].declared
        \/ {slots[i].declared, slots[j].declared} = {"none"}
           /\ slots[i].linked # "none" /\ slots[i].linked = slots[j].linked
      Class(i) == {j \in DOMAIN slots : Alike(i, j)}
      Best(c) == CHOOSE i \in c : \A j \in c :
                   ConfRank(Confidence(slots[i])) <= ConfRank(Confidence(slots[j]))
  IN  Range(clusters) =
        {[confidence |-> Confidence(slots[Best(c)]), computors |-> c,
          revenue |-> Together(SlotWeights, c)] : c \in {Class(i) : i \in DOMAIN slots}}

\* The figures of what the chain shows and nobody declared, and of what anything
\* is known of, count the slots themselves, though a cluster has one confidence
\* for slots that differ (clustering.py linkage_coverage, declared_vs_detected).
DetectedIsExact ==
  /\ UndeclaredLinkedSlots = Cardinality({i \in DOMAIN slots :
       slots[i].declared = "none" /\ slots[i].linked # "none"})
  /\ slots # <<>> => AttributedSlots = Cardinality({i \in DOMAIN slots :
       slots[i].declared # "none" \/ slots[i].linked # "none"})

Thresholds == {<<1, 3>>, <<1, 2>>}

\* The coefficient is the size of the smallest coalition beyond the threshold,
\* at exact boundaries too (metrics.py nakamoto_coefficient).
NakamotoIsSmallest ==
  slots # <<>> => \A t \in Thresholds :
    LET ws == Weights
        coalitions == {S \in SUBSET DOMAIN ws : Together(ws, S) * t[2] > t[1] * Total(ws)}
    IN  Total(ws) > 0 =>
          Nakamoto(ws, t[1], t[2]) = Min({Cardinality(S) : S \in coalitions})

\* Treating every slot as an operator of its own is optimistic, never the other
\* way: putting slots together cannot raise the coefficient or lower what the
\* largest hold (clustering.py, "systematically optimistic").
ClusteringNeverSpreads ==
  slots # <<>> =>
  /\ \A t \in Thresholds : Nakamoto(Weights, t[1], t[2]) <= Nakamoto(SlotWeights, t[1], t[2])
  /\ \A n \in {1, 3, 5} : TopShare(Weights, n) >= TopShare(SlotWeights, n)
=============================================================================
