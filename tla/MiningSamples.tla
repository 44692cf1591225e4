----------------------------- MODULE MiningSamples -----------------------------
(***************************************************************************)
(* The mining record: a reading of the colony put together from two        *)
(* questions to other people's nodes (qdr/antnode.py collect), stored by   *)
(* its second, folded into one row per epoch and pruned to the newest      *)
(* epochs (qdr/store.py), by the one thread of scripts/ingest.py           *)
(* start_mining_sampler.                                                   *)
(***************************************************************************)
EXTENDS Integers, FiniteSetsExt

CONSTANTS
  KeepEpochs,   \* MINING_KEEP_EPOCHS
  LastEpoch,    \* bound: the network's epochs
  MostSolved,   \* bound: solutions in an epoch
  LastSecond,   \* bound: the worker's clock
  MaxRestarts   \* bound: restarts of the worker

ASSUME MiningAssumption ==
  /\ {KeepEpochs, LastEpoch} \subseteq Nat \ {0}
  /\ {MostSolved, LastSecond, MaxRestarts} \subseteq Nat

VARIABLES
  net,        \* external: the network's epoch and the solutions it counts in it
  second,     \* the worker's clock
  reading,    \* what the pass under way has collected
  samples,    \* mining_samples: at -> epoch and count
  summary,    \* mining_epochs: epoch -> its row
  restarts,   \* how often the worker was restarted
  filed,      \* history: epoch -> every count ever stored under it
  rewritten   \* history: a second was stored again under another epoch

miningVars == <<net, second, reading, samples, summary, restarts, filed, rewritten>>

NoReading == [step |-> "rest", epoch |-> 0, count |-> 0]

MiningInit ==
  /\ net = [epoch |-> 1, count |-> 0] /\ second = 0 /\ reading = NoReading
  /\ samples = <<>> /\ summary = <<>> /\ restarts = 0
  /\ filed = [e \in 0..LastEpoch |-> {}] /\ rewritten = FALSE

-----------------------------------------------------------------------------
(* External: the network counts solutions, from zero in each epoch. *)

Solve ==
  /\ net.count < MostSolved /\ net' = [net EXCEPT !.count = @ + 1]
  /\ UNCHANGED <<second, reading, samples, summary, restarts, filed, rewritten>>

TurnEpoch ==
  /\ net.epoch < LastEpoch /\ net' = [epoch |-> net.epoch + 1, count |-> 0]
  /\ UNCHANGED <<second, reading, samples, summary, restarts, filed, rewritten>>

-----------------------------------------------------------------------------
(* One pass. *)

\* The first node that answers tells the colony's state; with none that
\* answers nothing is stored.
AskColony ==
  /\ reading.step = "rest"
  /\ reading' = [step |-> "info", epoch |-> net.epoch, count |-> net.count]
  /\ UNCHANGED <<net, second, samples, summary, restarts, filed, rewritten>>

\* The epoch is told by another question, perhaps of a node that is an epoch
\* behind; with no answer it is the colony's.
AskEpoch ==
  /\ reading.step = "info"
  /\ \E e \in {reading.epoch, net.epoch, net.epoch - 1} \ {0} :
       reading' = [step |-> "store", epoch |-> e, count |-> reading.count]
  /\ UNCHANGED <<net, second, samples, summary, restarts, filed, rewritten>>

\* INSERT OR REPLACE: the row under the key is written over.
Replaced(table, key, row) ==
  [k \in DOMAIN table \cup {key} |-> IF k = key THEN row ELSE table[k]]

\* The sample of the second.
Sampled(at, e, count) == Replaced(samples, at, [epoch |-> e, count |-> count])

Of(ss, e) == {at \in DOMAIN ss : ss[at].epoch = e}

\* Mutant: the peak is that of the samples left.
PeakMutant(e, now) == now

\* The peak on record is kept when it is the higher one.
Peak(e, now) == IF e \in DOMAIN summary THEN Max({summary[e].peak, now}) ELSE now

\* The epoch's row, from the samples present.
Summed(ss, e) ==
  LET ats == Of(ss, e)
  IN  [final   |-> ss[Max(ats)].count,
       peak    |-> Peak(e, Max({ss[at].count : at \in ats})),
       samples |-> Cardinality(ats),
       first   |-> IF e \in DOMAIN summary THEN Min({summary[e].first, Min(ats)}) ELSE Min(ats),
       last    |-> Max(ats)]

\* put_mining_sample, one transaction.
Store ==
  /\ reading.step = "store" /\ reading' = [NoReading EXCEPT !.step = "prune"]
  /\ LET e == reading.epoch
     IN  /\ samples' = Sampled(second, e, reading.count)
         /\ summary' = Replaced(summary, e, Summed(samples', e))
         /\ filed' = [filed EXCEPT ![e] = @ \cup {reading.count}]
         /\ rewritten' = (rewritten \/ (second \in DOMAIN samples /\ samples[second].epoch # e))
  /\ UNCHANGED <<net, second, restarts>>

OnRecord == {samples[at].epoch : at \in DOMAIN samples}

\* Mutant: the oldest epoch that is kept goes as well.
OutdatedMutant(e) == Cardinality({f \in OnRecord : f > e}) >= KeepEpochs - 1

\* KeepEpochs newer epochs are on record.
Outdated(e) == Cardinality({f \in OnRecord : f > e}) >= KeepEpochs

\* prune_mining, when it is due; then the rest of the interval is slept.
PruneSamples ==
  /\ reading.step = "prune" /\ reading' = NoReading
  /\ samples' \in {samples, [at \in {a \in DOMAIN samples : ~Outdated(samples[a].epoch)} |-> samples[at]]}
  /\ second < LastSecond /\ second' = second + 1
  /\ UNCHANGED <<net, summary, restarts, filed, rewritten>>

\* The worker stops and samples again, perhaps within the second.
Restart ==
  /\ restarts < MaxRestarts /\ restarts' = restarts + 1 /\ reading' = NoReading
  /\ UNCHANGED <<net, second, samples, summary, filed, rewritten>>

MiningNext ==
  Solve \/ TurnEpoch \/ AskColony \/ AskEpoch \/ Store \/ PruneSamples \/ Restart

MiningSpec == MiningInit /\ [][MiningNext]_miningVars

-----------------------------------------------------------------------------
(* Properties. *)

\* The summary's shape: within an epoch's row the last count is no higher than
\* the peak, and the samples lie between the first and the last.
MiningTypeOK ==
  /\ net.epoch \in 1..LastEpoch /\ net.count \in 0..MostSolved
  /\ DOMAIN samples \subseteq 0..LastSecond
  /\ \A e \in DOMAIN summary :
       LET row == summary[e]
       IN  /\ row.final <= row.peak /\ row.first <= row.last
           /\ row.samples \in 1..(row.last - row.first + 1)

\* An epoch's peak is the highest count ever stored under it, though samples are
\* pruned, come late or are written over before the row is folded again
\* (store.py put_mining_sample, "the epoch's real peak is a fact we already
\* observed").
PeakIsHighest == \A e \in DOMAIN summary : summary[e].peak = Max(filed[e])

\* The newest epochs are there in full: their rows count the samples on record,
\* whatever is pruned and whichever epoch a lagging node names.  Only a second
\* stored again under another epoch takes a sample away.
NewestAreWhole ==
  ~rewritten => \A e \in DOMAIN summary :
    Cardinality({f \in DOMAIN summary : f > e}) < KeepEpochs
      => Cardinality(Of(samples, e)) = summary[e].samples
=============================================================================
