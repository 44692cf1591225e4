---------------------------- MODULE EpochLifecycle ----------------------------
(***************************************************************************)
(* The life of an epoch in the report store: qdr/pipeline.py compute_epoch *)
(* and its callers, the tables of qdr/store.py it writes, the command line *)
(* jobs of scripts/ingest.py and the order scripts/worker.sh runs them in. *)
(*                                                                         *)
(* compute_epoch is not one transaction.  Every Store method commits by    *)
(* itself, so each commit is an action here, and a process may die between *)
(* any two of them.  The ingest worker runs one job after another; an      *)
(* operator may run the same command line beside it, on the same store.    *)
(*                                                                         *)
(* Revenue is abstracted to what a log or a balance delta says of it:      *)
(*   "none"  nothing usable (node down, no payouts, no snapshots)          *)
(*   "some"  payouts of some computors, while the epoch runs               *)
(*   "early" every computor is paid, but the epoch had not settled         *)
(*   "short" the settled payouts, one of the computors earning nothing     *)
(*   "final" the settled payouts, every computor paid                      *)
(***************************************************************************)
EXTENDS Naturals, FiniteSets

CONSTANTS
  MaxEpoch,     \* bound: the network stops at this epoch
  Versions,     \* values of qdr.__version__
  NoVersion,    \* "no such row"
  FirstVersion, \* the version deployed first
  Upgrades,     \* pairs <<v, w>>: a restart may replace version v by w
  Worker,       \* the ingest worker
  Operators,    \* command lines run by hand beside the worker
  ByHand,       \* the jobs an operator runs, a subset of OperatorJobs
  Window,       \* QDR_BACKFILL_EPOCHS
  RunningLogs,  \* what Bob may hold of an epoch that still runs
  ClosedLogs,   \* what Bob may hold of an epoch that has closed
  DeltaKinds,   \* what the balance-delta fallback may find
  BobUp,        \* outcomes of the probe of Bob when a process starts
  MaxCrashes    \* bound: processes that die, containers that restart

Epochs       == 1..MaxEpoch
Kinds        == {"none", "some", "early", "short", "final"}
Complete     == {"early", "final"}         \* every computor is paid
Statuses     == {"live", "partial", "sealed"}
Procs        == {Worker} \cup Operators
OperatorJobs == {"force", "epoch"}         \* --backfill N --force, --epoch N
Jobs         == {"backfill", "refresh", "watch"} \cup OperatorJobs
Commits      == {"revenue", "look", "upsert", "report", "seal"}
Pcs          == {"down", "launch", "next", "fetch", "derive"} \cup Commits

ASSUME EpochAssumption ==
  /\ MaxEpoch \in Nat \ {0}
  /\ Window \in Nat \ {0}
  /\ MaxCrashes \in Nat
ASSUME VersionAssumption ==
  /\ FirstVersion \in Versions
  /\ NoVersion \notin Versions
  /\ Upgrades \subseteq Versions \X Versions
ASSUME ProcAssumption ==
  /\ Worker \notin Operators
  /\ ByHand \subseteq OperatorJobs
ASSUME SourceAssumption ==
  /\ RunningLogs \subseteq {"none", "some", "early"}
  /\ ClosedLogs \subseteq {"none", "short", "final"}
  /\ DeltaKinds \subseteq {"none", "early", "final"}
  /\ BobUp \subseteq BOOLEAN

VARIABLES
  chain,     \* the network's current epoch
  row,       \* table epochs: status and code_version
  revenue,   \* table computor_revenue: kind and the complete flag
  report,    \* table reports, keyed by epoch and code_version
  newest,    \* per epoch, the version whose report was computed last
  logCache,  \* Bob client's cache files end_epoch_<e>.json
  proc,      \* the processes
  crashes

store == <<row, revenue, report, newest>>
vars  == <<chain, row, revenue, report, newest, logCache, proc, crashes>>

NoRow    == [status |-> "none", version |-> NoVersion]
NoReport == [status |-> "none", kind |-> "none"]
NoRev    == [kind |-> "none", complete |-> FALSE]

\* A process outside compute_epoch carries nothing from the last one.
Idle(pc, job, version) ==
  [pc |-> pc, job |-> job, version |-> version, bob |-> FALSE, todo |-> {},
   epoch |-> 1, current |-> 1, rev |-> NoRev, status |-> "live", saw |-> "none"]

Init ==
  /\ chain = 1
  /\ row = [e \in Epochs |-> NoRow]
  /\ revenue = [e \in Epochs |-> NoRev]
  /\ report = [e \in Epochs |-> [v \in Versions |-> NoReport]]
  /\ newest = [e \in Epochs |-> NoVersion]
  /\ logCache = [e \in Epochs |-> "none"]
  /\ proc = [p \in Procs |->
               IF p = Worker THEN Idle("launch", "backfill", FirstVersion)
                             ELSE Idle("down", "force", FirstVersion)]
  /\ crashes = 0

-----------------------------------------------------------------------------
(* Reads of the store. *)

IsSealed(e) == row[e].status = "sealed"

HasReport(e) == \E v \in Versions : report[e][v].status # "none"

\* Store.stale_epochs: no report of this version, or the row names another.
Stale(v) ==
  {e \in Epochs : /\ HasReport(e)
                  /\ \/ report[e][v].status = "none"
                     \/ row[e] # NoRow /\ row[e].version # v}

\* Store.get_report as a reader of version v: its own version, else the newest.
Served(e, v) ==
  IF report[e][v].status # "none" \/ newest[e] = NoVersion
    THEN report[e][v]
    ELSE report[e][newest[e]]

\* build_timeseries: partial and running epochs are not charted.
Charted(e, v) == Served(e, v).status = "sealed"

-----------------------------------------------------------------------------
(* Jobs: which epochs a process goes through. *)

JobAfter == [backfill |-> "refresh", refresh |-> "watch", watch |-> "watch"]

Recent == {e \in Epochs : e <= chain /\ chain < e + Window}

\* scripts/ingest.py main: one tick-info call, the probe of Bob, then the list.
Launch(p) ==
  /\ proc[p].pc = "launch"
  /\ \E up \in BobUp :
       proc' = [proc EXCEPT ![p].pc = "next", ![p].bob = up,
                  ![p].todo = CASE proc[p].job = "backfill" -> Recent
                                [] proc[p].job = "refresh" -> Stale(proc[p].version)
                                [] OTHER -> {}]
  /\ UNCHANGED <<chain, store, logCache, crashes>>

\* The RPC is down: the job ends at once and worker.sh goes on to the next one.
LaunchFails(p) ==
  /\ proc[p].pc = "launch"
  /\ proc' = [proc EXCEPT ![p].job = JobAfter[@]]
  /\ UNCHANGED <<chain, store, logCache, crashes>>

\* An operator starts a command line of any deployed version.
RunByHand(p) ==
  /\ p \in Operators
  /\ proc[p].pc = "down"
  /\ \E j \in ByHand, v \in Versions, up \in BobUp, e \in Epochs :
       /\ e <= chain
       /\ proc' = [proc EXCEPT ![p] =
                     [Idle("next", j, v) EXCEPT
                        !.bob = up,
                        !.todo = IF j = "force" THEN Recent ELSE {e}]]
  /\ UNCHANGED <<chain, store, logCache, crashes>>

\* Mutant: the watch loop polls epoch 0 while the first epoch runs.
PollMutant(p) ==
  /\ proc[p].pc = "next" /\ proc[p].job = "watch" /\ proc[p].todo = {}
  /\ proc' = [proc EXCEPT ![p].pc = "fetch", ![p].epoch = chain, ![p].todo = {chain - 1}]
  /\ UNCHANGED <<chain, store, logCache, crashes>>

\* The watch loop: the running epoch first, whatever the store says of it,
\* then the one before it.
Poll(p) ==
  /\ proc[p].pc = "next" /\ proc[p].job = "watch" /\ proc[p].todo = {}
  /\ proc' = [proc EXCEPT ![p].pc = "fetch", ![p].epoch = chain,
                          ![p].todo = Epochs \cap {chain - 1}]
  /\ UNCHANGED <<chain, store, logCache, crashes>>

\* Mutants: finalize does not look either, or takes a partial epoch for done.
SkipsMutant(p, e) == IsSealed(e) /\ proc[p].job = "backfill"
SkipsPartialMutant(p, e) ==
  row[e].status \in {"sealed", "partial"} /\ proc[p].job \in {"backfill", "watch"}

\* backfill and finalize skip a sealed epoch; --force, --refresh-stale and
\* --epoch do not look.
Skips(p, e) == IsSealed(e) /\ proc[p].job \in {"backfill", "watch"}

Begin(p) ==
  /\ proc[p].pc = "next"
  /\ \E e \in proc[p].todo :
       /\ \A d \in proc[p].todo : e <= d
       /\ proc' = [proc EXCEPT
                     ![p].todo = @ \ {e},
                     ![p].pc = IF Skips(p, e) THEN "next" ELSE "fetch",
                     ![p].epoch = IF Skips(p, e) THEN @ ELSE e]
  /\ UNCHANGED <<chain, store, logCache, crashes>>

\* Where a process goes when its job is over, done or dead: worker.sh starts the
\* next one, or the watch loop again; an operator's command is simply over.
AfterJob(p) ==
  IF p = Worker THEN Idle("launch", JobAfter[proc[p].job], proc[p].version)
                ELSE Idle("down", "force", FirstVersion)

Finish(p) ==
  /\ proc[p].pc = "next" /\ proc[p].job # "watch" /\ proc[p].todo = {}
  /\ proc' = [proc EXCEPT ![p] = AfterJob(p)]
  /\ UNCHANGED <<chain, store, logCache, crashes>>

-----------------------------------------------------------------------------
(* compute_epoch, up to and including each of its commits. *)

\* The computor list is there; current_epoch() answers, or fails and the epoch
\* itself stands in for the current one.
Fetch(p, answered) ==
  /\ proc[p].pc = "fetch"
  /\ proc' = [proc EXCEPT ![p].pc = "derive",
                          ![p].current = IF answered THEN chain ELSE proc[p].epoch]
  /\ UNCHANGED <<chain, store, logCache, crashes>>

\* No computor list: the epoch is given up; in the watch loop, the pass is.
FetchFails(p) ==
  /\ proc[p].pc = "fetch"
  /\ proc' = [proc EXCEPT ![p].pc = "next",
                          ![p].todo = IF proc[p].job = "watch" THEN {} ELSE @]
  /\ UNCHANGED <<chain, store, logCache, crashes>>

\* Bob's answer for epoch e: the cache file if there is one, else the node,
\* which may always be down ("none").
BobAnswers(e) ==
  IF logCache[e] # "none" THEN {logCache[e]}
  ELSE {"none"} \cup (IF e < chain THEN ClosedLogs ELSE RunningLogs)

\* revenue_from_bob, then the balance deltas when that is not complete.
Revenue(bobHas, log, delta) ==
  IF bobHas /\ (log \in Complete \/ delta \notin Complete) THEN log ELSE delta

\* Mutant: the epoch that is running counts as closed.
IsRunningMutant(p) == proc[p].epoch > proc[p].current

IsRunning(p) == proc[p].epoch >= proc[p].current

StatusOf(running, complete) ==
  IF running THEN "live" ELSE IF complete THEN "sealed" ELSE "partial"

\* Balance deltas: on a running epoch two observations already look complete.
DeltaFinds(e) == {"none"} \cup IF e < chain THEN DeltaKinds ELSE {"early"}

Derive(p, log, delta) ==
  /\ proc[p].pc = "derive"
  /\ LET e        == proc[p].epoch
         kind     == Revenue(proc[p].bob, log, delta)
         complete == kind \in Complete /\ ~IsRunning(p)
     IN  /\ logCache' = IF proc[p].bob THEN [logCache EXCEPT ![e] = log]
                                       ELSE logCache
         /\ proc' = [proc EXCEPT
                       ![p].pc = "revenue",
                       ![p].rev = [kind |-> kind, complete |-> complete],
                       ![p].status = StatusOf(IsRunning(p), complete)]
  /\ UNCHANGED <<chain, store, crashes>>

\* Store.put_revenue: an upsert per computor, zeros included.
PutRevenue(p) ==
  /\ proc[p].pc = "revenue"
  /\ revenue' = [revenue EXCEPT ![proc[p].epoch] = proc[p].rev]
  /\ proc' = [proc EXCEPT ![p].pc = "look"]
  /\ UNCHANGED <<chain, row, report, newest, logCache, crashes>>

\* Store.upsert_epoch reads the row before its transaction begins: sqlite3 opens one
\* at the first statement that writes.
ReadRow(p) ==
  /\ proc[p].pc = "look"
  /\ proc' = [proc EXCEPT ![p].pc = "upsert", ![p].saw = row[proc[p].epoch].status]
  /\ UNCHANGED <<chain, store, logCache, crashes>>

\* Mutant: the last writer's status stands.
UpsertRowMutant(e, saw, status, version) ==
  [row EXCEPT ![e] = [status |-> status, version |-> version]]

\* A row seen sealed is left as it is by any other status.
UpsertRow(e, saw, status, version) ==
  IF saw = "sealed" /\ status # "sealed"
    THEN row
    ELSE [row EXCEPT ![e] = [status |-> status, version |-> version]]

UpsertEpoch(p) ==
  /\ proc[p].pc = "upsert"
  /\ proc[p].saw = "none" => row[proc[p].epoch] = NoRow
  /\ row' = UpsertRow(proc[p].epoch, proc[p].saw, proc[p].status, proc[p].version)
  /\ proc' = [proc EXCEPT ![p].pc = "report"]
  /\ UNCHANGED <<chain, revenue, report, newest, logCache, crashes>>

\* No row was seen, and another process has inserted it since: the INSERT fails,
\* and nothing catches sqlite3.IntegrityError.
InsertFails(p) ==
  /\ proc[p].pc = "upsert" /\ proc[p].saw = "none" /\ row[proc[p].epoch] # NoRow
  /\ proc' = [proc EXCEPT ![p] = AfterJob(p)]
  /\ UNCHANGED <<chain, store, logCache, crashes>>

\* Back to the job's loop, with nothing kept of the epoch just computed.
Returned(r) == [Idle("next", r.job, r.version) EXCEPT !.bob = r.bob, !.todo = r.todo]

\* Store.put_report: keyed by (epoch, code_version).
PutReport(p) ==
  /\ proc[p].pc = "report"
  /\ report' = [report EXCEPT ![proc[p].epoch][proc[p].version] =
                  [status |-> proc[p].status, kind |-> proc[p].rev.kind]]
  /\ newest' = [newest EXCEPT ![proc[p].epoch] = proc[p].version]
  /\ proc' = [proc EXCEPT ![p] = IF proc[p].status = "sealed"
                                   THEN [proc[p] EXCEPT !.pc = "seal"]
                                   ELSE Returned(proc[p])]
  /\ UNCHANGED <<chain, row, revenue, logCache, crashes>>

\* Store.seal_epoch.
SealEpoch(p) ==
  /\ proc[p].pc = "seal"
  /\ row' = [row EXCEPT ![proc[p].epoch].status = "sealed"]
  /\ proc' = [proc EXCEPT ![p] = Returned(proc[p])]
  /\ UNCHANGED <<chain, revenue, report, newest, logCache, crashes>>

-----------------------------------------------------------------------------
(* The surroundings. *)

\* The network starts its next epoch.
Advance ==
  /\ chain < MaxEpoch
  /\ chain' = chain + 1
  /\ UNCHANGED <<store, logCache, proc, crashes>>

\* A process dies between two commits.
Die(p) ==
  /\ proc[p].pc \notin {"down", "launch"} /\ crashes < MaxCrashes
  /\ crashes' = crashes + 1
  /\ proc' = [proc EXCEPT ![p] = AfterJob(p)]
  /\ UNCHANGED <<chain, store, logCache>>

\* The container is restarted, possibly with another image.
Restart(p) ==
  /\ p = Worker /\ crashes < MaxCrashes
  /\ crashes' = crashes + 1
  /\ \E v \in Versions :
       /\ v = proc[p].version \/ <<proc[p].version, v>> \in Upgrades
       /\ proc' = [proc EXCEPT ![p] = Idle("launch", "backfill", v)]
  /\ UNCHANGED <<chain, store, logCache>>

Control(p) ==
  Launch(p) \/ Poll(p) \/ Begin(p) \/ Finish(p)

Compute(p) ==
  \/ \E answered \in BOOLEAN : Fetch(p, answered)
  \/ \E log \in BobAnswers(proc[p].epoch), delta \in DeltaFinds(proc[p].epoch) :
       Derive(p, log, delta)
  \/ PutRevenue(p) \/ ReadRow(p) \/ UpsertEpoch(p) \/ InsertFails(p)
  \/ PutReport(p) \/ SealEpoch(p)

Next ==
  \/ Advance
  \/ \E p \in Procs : \/ Control(p) \/ Compute(p) \/ RunByHand(p)
                      \/ LaunchFails(p) \/ FetchFails(p)
                      \/ Die(p) \/ Restart(p)

Spec == Init /\ [][Next]_vars

(***************************************************************************)
(* Fairness.  The worker's loop never stops by itself (worker.sh keeps it  *)
(* running, ingest.py --watch polls every QDR_INGEST_INTERVAL seconds), and *)
(* neither the RPC nor Bob is down for ever: of the attempts on an epoch   *)
(* infinitely many are answered.                                           *)
(***************************************************************************)
AnsweredFetch(p, e) == proc[p].epoch = e /\ Fetch(p, TRUE)

SettledDerive(p, e) ==
  /\ proc[p].epoch = e
  /\ \E log \in BobAnswers(e), delta \in DeltaFinds(e) :
       Revenue(proc[p].bob, log, delta) = "final" /\ Derive(p, log, delta)

FairSpec ==
  /\ Spec
  /\ WF_vars(Advance)
  /\ WF_vars(Control(Worker) \/ Compute(Worker))
  /\ \A e \in Epochs : /\ SF_vars(AnsweredFetch(Worker, e))
                       /\ SF_vars(SettledDerive(Worker, e))

-----------------------------------------------------------------------------
(* Properties. *)

Rev == [kind : Kinds, complete : BOOLEAN]

Process ==
  [pc : Pcs, job : Jobs, version : Versions, bob : BOOLEAN,
   todo : SUBSET Epochs, epoch : Epochs, current : Epochs,
   rev : Rev, status : Statuses, saw : Statuses \cup {"none"}]

\* Every table holds what its columns may hold, every process what its locals may.
TypeOK ==
  /\ chain \in Epochs
  /\ row \in [Epochs -> [status : Statuses \cup {"none"},
                         version : Versions \cup {NoVersion}]]
  /\ revenue \in [Epochs -> Rev]
  /\ report \in [Epochs -> [Versions -> [status : Statuses \cup {"none"}, kind : Kinds]]]
  /\ newest \in [Epochs -> Versions \cup {NoVersion}]
  /\ logCache \in [Epochs -> Kinds]
  /\ proc \in [Procs -> Process]
  /\ crashes \in 0..MaxCrashes

\* Whatever order the commits of several processes take, and wherever one dies,
\* a report that is sealed, and a revenue table that is flagged complete, hold
\* the settled payouts of an epoch the network has left behind.
SettledFiguresOnly ==
  \A e \in Epochs :
    /\ revenue[e].complete => revenue[e].kind = "final" /\ e < chain
    /\ \A v \in Versions :
         report[e][v].status = "sealed" => report[e][v].kind = "final" /\ e < chain

\* Where the network and the epoch's row say it is in its life.
Phase == [e \in Epochs |-> IF IsSealed(e) THEN "sealed"
                           ELSE IF e < chain THEN "closed" ELSE "open"]

History == INSTANCE SealedHistory WITH phase <- Phase

\* An epoch moves through the store as the abstract history says: the network
\* closes it before it is sealed, and once sealed no later commit of the worker, over
\* its crashes, restarts and upgrades, takes the seal off.
RefinesHistory == History!Spec

\* A sealed epoch stays sealed, whoever else writes its row (Store.upsert_epoch).
SealStays == [][\A e \in Epochs : IsSealed(e) => IsSealed(e)']_vars

Computing(e) == \E p \in Procs : proc[p].pc \in Commits /\ proc[p].epoch = e

\* A sealed epoch is computed once and then served (qdr/store.py): while nobody is
\* between two commits of it, the page has a sealed report to show for it.
SealedIsServed ==
  \A e \in Epochs :
    IsSealed(e) /\ ~Computing(e) => Charted(e, proc[Worker].version)

\* As long as no process died between two commits, whatever its sources answered.
SealedIsCharted == crashes = 0 => SealedIsServed

\* The worker never rewrites a sealed report, whatever it retries or re-derives.
SealedReportStays ==
  [][\A e \in Epochs, v \in Versions :
       report[e][v].status = "sealed" => report'[e][v] = report[e][v]]_vars

\* The epoch before the last one is sealed in the end, whatever fails on the way.
ClosedIsSealed == <>[]IsSealed(MaxEpoch - 1)

=============================================================================
