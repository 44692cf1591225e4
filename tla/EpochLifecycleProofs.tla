------------------------- MODULE EpochLifecycleProofs -------------------------
(***************************************************************************)
(* Theorems about EpochLifecycle, for any number of epochs, versions and   *)
(* operators.                                                              *)
(***************************************************************************)
EXTENDS EpochLifecycle, TLAPS

\* Only the worker is ever launched by worker.sh, and only with its three jobs.
JobInv ==
  /\ proc[Worker].job \in {"backfill", "refresh", "watch"}
  /\ \A p \in Operators : proc[p].pc # "launch"

TypeInv == TypeOK /\ JobInv

LEMMA IdleIsProcess ==
  ASSUME NEW pc \in Pcs, NEW job \in Jobs, NEW version \in Versions
  PROVE  Idle(pc, job, version) \in Process
BY EpochAssumption DEF Idle, Process, Rev, NoRev, Epochs, Statuses, Kinds

LEMMA JobAfterType ==
  ASSUME NEW job \in {"backfill", "refresh", "watch"}
  PROVE  JobAfter[job] \in {"refresh", "watch"}
BY DEF JobAfter

LEMMA ReturnedIsProcess ==
  ASSUME NEW r \in Process
  PROVE  /\ Returned(r) \in Process
         /\ Returned(r).pc = "next" /\ Returned(r).job = r.job
<1>1. /\ r.job \in Jobs /\ r.version \in Versions /\ r.bob \in BOOLEAN
      /\ r.todo \in SUBSET Epochs
  BY DEF Process
<1>2. Idle("next", r.job, r.version) \in Process
  BY <1>1, IdleIsProcess DEF Pcs
<1>3. QED
  BY <1>1, <1>2 DEF Returned, Idle, Process

LEMMA BobAnswersAreKinds ==
  ASSUME TypeOK, NEW e \in Epochs
  PROVE  BobAnswers(e) \subseteq Kinds
BY SourceAssumption DEF BobAnswers, TypeOK, Kinds

LEMMA DeltaFindsAreKinds ==
  ASSUME NEW e
  PROVE  DeltaFinds(e) \subseteq Kinds
BY SourceAssumption DEF DeltaFinds, Kinds

LEMMA TypeInit == Init => TypeInv
<1> SUFFICES ASSUME Init PROVE TypeInv
  OBVIOUS
<1>1. Idle("launch", "backfill", FirstVersion) \in Process
  BY IdleIsProcess, VersionAssumption DEF Pcs, Jobs
<1>2. Idle("down", "force", FirstVersion) \in Process
  BY IdleIsProcess, VersionAssumption DEF Pcs, Jobs, OperatorJobs
<1>3. proc \in [Procs -> Process]
  BY <1>1, <1>2 DEF Init
<1>4. JobInv
  BY ProcAssumption DEF Init, JobInv, Idle, Procs
<1>5. TypeOK
  BY <1>3, EpochAssumption, VersionAssumption
  DEF Init, TypeOK, Epochs, NoRow, NoReport, NoRev, Rev, Kinds, Statuses
<1>6. QED
  BY <1>4, <1>5 DEF TypeInv

\* A step that gives one process a new state that is well typed, and does not
\* launch an operator's command, keeps every process well typed.
LEMMA OneProcessChanges ==
  ASSUME TypeInv, NEW p \in Procs, NEW r \in Process,
         proc' = [proc EXCEPT ![p] = r],
         p = Worker => r.job \in {"backfill", "refresh", "watch"},
         p # Worker => r.pc # "launch"
  PROVE  proc' \in [Procs -> Process] /\ JobInv'
BY ProcAssumption DEF TypeInv, TypeOK, JobInv, Procs

\* The state process p is given: well typed, and one p may be in.
MayBe(p, r) ==
  /\ r \in Process
  /\ p = Worker => r.job \in {"backfill", "refresh", "watch"}
  /\ p # Worker => r.pc # "launch"

\* Each action of one process leaves that process in a state it may be in.
LEMMA LaunchType ==
  ASSUME TypeInv, NEW p \in Procs, Launch(p)
  PROVE  \E r : MayBe(p, r) /\ proc' = [proc EXCEPT ![p] = r]
<1> DEFINE todo == CASE proc[p].job = "backfill" -> Recent
                     [] proc[p].job = "refresh" -> Stale(proc[p].version)
                     [] OTHER -> {}
           r(up) == [proc[p] EXCEPT !.pc = "next", !.bob = up, !.todo = todo]
<1>1. PICK up \in BobUp :
        proc' = [proc EXCEPT ![p].pc = "next", ![p].bob = up, ![p].todo = todo]
  BY DEF Launch
<1>2. todo \in SUBSET Epochs
  BY DEF Recent, Stale
<1>3. proc[p] \in Process /\ up \in BOOLEAN
  BY SourceAssumption DEF TypeInv, TypeOK
<1>4. r(up) \in Process /\ r(up).job = proc[p].job /\ r(up).pc = "next"
  <2> HIDE DEF todo
  <2>1. QED
    BY <1>2, <1>3 DEF Process, Pcs
<1>5. MayBe(p, r(up))
  <2> HIDE DEF r
  <2>1. QED
    BY <1>4 DEF MayBe, TypeInv, JobInv
<1>6. proc' = [proc EXCEPT ![p] = r(up)]
  BY <1>1 DEF TypeInv, TypeOK
<1>7. QED
  BY <1>5, <1>6

LEMMA LaunchFailsType ==
  ASSUME TypeInv, NEW p \in Procs, LaunchFails(p)
  PROVE  \E r : MayBe(p, r) /\ proc' = [proc EXCEPT ![p] = r]
<1> DEFINE r == [proc[p] EXCEPT !.job = JobAfter[@]]
<1>1. p = Worker /\ proc[p] \in Process
  BY DEF LaunchFails, TypeInv, TypeOK, JobInv, Procs
<1>2. JobAfter[proc[p].job] \in {"refresh", "watch"}
  BY <1>1, JobAfterType DEF TypeInv, JobInv
<1>3. r \in Process /\ r.job \in {"refresh", "watch"}
  BY <1>1, <1>2 DEF Process, Jobs
<1>4. proc' = [proc EXCEPT ![p] = r]
  BY DEF LaunchFails, TypeInv, TypeOK
<1>5. QED
  BY <1>1, <1>3, <1>4 DEF MayBe

LEMMA RunByHandType ==
  ASSUME TypeInv, NEW p \in Procs, RunByHand(p)
  PROVE  \E r : MayBe(p, r) /\ proc' = [proc EXCEPT ![p] = r]
<1> DEFINE todo(j, e) == IF j = "force" THEN Recent ELSE {e}
           r(j, v, up, e) == [Idle("next", j, v) EXCEPT !.bob = up, !.todo = todo(j, e)]
<1>1. PICK j \in ByHand, v \in Versions, up \in BobUp, e \in Epochs :
        proc' = [proc EXCEPT ![p] = r(j, v, up, e)]
  BY DEF RunByHand
<1>2. todo(j, e) \in SUBSET Epochs /\ up \in BOOLEAN /\ j \in Jobs
  BY SourceAssumption, ProcAssumption DEF Recent, Jobs
<1>3. Idle("next", j, v) \in Process /\ Idle("next", j, v).pc = "next"
  BY <1>2, IdleIsProcess DEF Pcs, Idle
<1>4. r(j, v, up, e) \in Process /\ r(j, v, up, e).pc = "next"
  <2> HIDE DEF todo
  <2>1. QED
    BY <1>2, <1>3 DEF Process
<1>5. p # Worker
  BY ProcAssumption DEF RunByHand
<1>6. QED
  <2> HIDE DEF r
  <2>1. MayBe(p, r(j, v, up, e))
    BY <1>4, <1>5 DEF MayBe
  <2>2. QED
    BY <1>1, <2>1

LEMMA PollType ==
  ASSUME TypeInv, NEW p \in Procs, Poll(p)
  PROVE  \E r : MayBe(p, r) /\ proc' = [proc EXCEPT ![p] = r]
<1> DEFINE r == [proc[p] EXCEPT !.pc = "fetch", !.epoch = chain,
                                !.todo = Epochs \cap {chain - 1}]
<1>1. proc[p] \in Process /\ chain \in Epochs
  BY DEF TypeInv, TypeOK
<1>2. r \in Process /\ r.job = proc[p].job /\ r.pc = "fetch"
  BY <1>1 DEF Process, Pcs
<1>3. proc' = [proc EXCEPT ![p] = r]
  BY DEF Poll, TypeInv, TypeOK
<1>4. QED
  BY <1>2, <1>3 DEF MayBe, TypeInv, JobInv

LEMMA BeginType ==
  ASSUME TypeInv, NEW p \in Procs, Begin(p)
  PROVE  \E r : MayBe(p, r) /\ proc' = [proc EXCEPT ![p] = r]
<1> DEFINE r(e) == [proc[p] EXCEPT !.todo = @ \ {e},
                      !.pc = IF Skips(p, e) THEN "next" ELSE "fetch",
                      !.epoch = IF Skips(p, e) THEN @ ELSE e]
<1>1. PICK e \in proc[p].todo :
        proc' = [proc EXCEPT ![p].todo = @ \ {e},
                   ![p].pc = IF Skips(p, e) THEN "next" ELSE "fetch",
                   ![p].epoch = IF Skips(p, e) THEN @ ELSE e]
  BY DEF Begin
<1>2. proc[p] \in Process /\ e \in Epochs
  BY DEF TypeInv, TypeOK, Process
<1>3. r(e) \in Process /\ r(e).job = proc[p].job /\ r(e).pc \in {"next", "fetch"}
  BY <1>2 DEF Process, Pcs
<1>4. proc' = [proc EXCEPT ![p] = r(e)]
  BY <1>1 DEF TypeInv, TypeOK
<1>5. QED
  <2> HIDE DEF r
  <2>1. MayBe(p, r(e))
    BY <1>3 DEF MayBe, TypeInv, JobInv
  <2>2. QED
    BY <1>4, <2>1

LEMMA AfterJobType ==
  ASSUME TypeInv, NEW p \in Procs
  PROVE  MayBe(p, AfterJob(p))
<1>1. CASE p = Worker
  <2>1. JobAfter[proc[p].job] \in {"refresh", "watch"} /\ proc[p].version \in Versions
    BY <1>1, JobAfterType DEF TypeInv, JobInv, TypeOK, Process
  <2>2. AfterJob(p) \in Process
    BY <1>1, <2>1, IdleIsProcess DEF AfterJob, Pcs, Jobs
  <2>3. AfterJob(p).job \in {"refresh", "watch"}
    BY <1>1, <2>1 DEF AfterJob, Idle
  <2>4. QED
    BY <1>1, <2>2, <2>3 DEF MayBe
<1>2. CASE p # Worker
  <2>1. AfterJob(p) \in Process
    BY <1>2, IdleIsProcess, VersionAssumption DEF AfterJob, Pcs, Jobs, OperatorJobs
  <2>2. AfterJob(p).pc = "down"
    BY <1>2 DEF AfterJob, Idle
  <2>3. QED
    BY <1>2, <2>1, <2>2 DEF MayBe
<1>3. QED
  BY <1>1, <1>2

LEMMA RestartType ==
  ASSUME TypeInv, NEW p \in Procs, Restart(p)
  PROVE  \E r : MayBe(p, r) /\ proc' = [proc EXCEPT ![p] = r]
<1>1. PICK v \in Versions : proc' = [proc EXCEPT ![p] = Idle("launch", "backfill", v)]
  BY DEF Restart
<1>2. Idle("launch", "backfill", v) \in Process
  BY IdleIsProcess DEF Pcs, Jobs
<1>3. p = Worker /\ Idle("launch", "backfill", v).job = "backfill"
  BY DEF Restart, Idle
<1>4. MayBe(p, Idle("launch", "backfill", v))
  BY <1>2, <1>3 DEF MayBe
<1>5. QED
  BY <1>1, <1>4

LEMMA FetchType ==
  ASSUME TypeInv, NEW p \in Procs, NEW answered, Fetch(p, answered)
  PROVE  \E r : MayBe(p, r) /\ proc' = [proc EXCEPT ![p] = r]
<1> DEFINE r == [proc[p] EXCEPT !.pc = "derive",
                   !.current = IF answered THEN chain ELSE proc[p].epoch]
<1>1. proc[p] \in Process /\ chain \in Epochs
  BY DEF TypeInv, TypeOK
<1>2. r \in Process /\ r.job = proc[p].job /\ r.pc = "derive"
  BY <1>1 DEF Process, Pcs
<1>3. proc' = [proc EXCEPT ![p] = r]
  BY DEF Fetch, TypeInv, TypeOK
<1>4. QED
  BY <1>2, <1>3 DEF MayBe, TypeInv, JobInv

LEMMA FetchFailsType ==
  ASSUME TypeInv, NEW p \in Procs, FetchFails(p)
  PROVE  \E r : MayBe(p, r) /\ proc' = [proc EXCEPT ![p] = r]
<1> DEFINE r == [proc[p] EXCEPT !.pc = "next",
                   !.todo = IF proc[p].job = "watch" THEN {} ELSE @]
<1>1. proc[p] \in Process
  BY DEF TypeInv, TypeOK
<1>2. r \in Process /\ r.job = proc[p].job /\ r.pc = "next"
  BY <1>1 DEF Process, Pcs
<1>3. proc' = [proc EXCEPT ![p] = r]
  BY DEF FetchFails, TypeInv, TypeOK
<1>4. QED
  BY <1>2, <1>3 DEF MayBe, TypeInv, JobInv

LEMMA DeriveType ==
  ASSUME TypeInv, NEW p \in Procs,
         NEW log \in BobAnswers(proc[p].epoch), NEW delta \in DeltaFinds(proc[p].epoch),
         Derive(p, log, delta)
  PROVE  /\ \E r : MayBe(p, r) /\ proc' = [proc EXCEPT ![p] = r]
         /\ logCache' \in [Epochs -> Kinds]
<1> DEFINE kind == Revenue(proc[p].bob, log, delta)
           complete == kind \in Complete /\ ~IsRunning(p)
           rev == [kind |-> kind, complete |-> complete]
           status == StatusOf(IsRunning(p), complete)
           r == [proc[p] EXCEPT !.pc = "revenue", !.rev = rev, !.status = status]
<1>1. proc[p] \in Process /\ proc[p].epoch \in Epochs
  BY DEF TypeInv, TypeOK, Process
<1>2. log \in Kinds /\ delta \in Kinds
  BY <1>1, BobAnswersAreKinds, DeltaFindsAreKinds DEF TypeInv
<1>3. rev \in Rev /\ status \in Statuses
  BY <1>2 DEF Rev, Revenue, StatusOf, Statuses
<1>4. r \in Process /\ r.job = proc[p].job /\ r.pc = "revenue"
  <2> HIDE DEF rev, status
  <2>1. QED
    BY <1>1, <1>3 DEF Process, Pcs, Commits
<1>5. proc' = [proc EXCEPT ![p] = r]
  BY DEF Derive, TypeInv, TypeOK
<1>6. MayBe(p, r)
  <2> HIDE DEF r
  <2>1. QED
    BY <1>4 DEF MayBe, TypeInv, JobInv
<1>7. logCache' \in [Epochs -> Kinds]
  BY <1>1, <1>2 DEF Derive, TypeInv, TypeOK
<1>8. QED
  BY <1>5, <1>6, <1>7

LEMMA PutRevenueType ==
  ASSUME TypeInv, NEW p \in Procs, PutRevenue(p)
  PROVE  /\ \E r : MayBe(p, r) /\ proc' = [proc EXCEPT ![p] = r]
         /\ revenue' \in [Epochs -> Rev]
<1> DEFINE r == [proc[p] EXCEPT !.pc = "look"]
<1>1. proc[p] \in Process
  BY DEF TypeInv, TypeOK
<1>2. r \in Process /\ r.job = proc[p].job /\ r.pc = "look"
  BY <1>1 DEF Process, Pcs, Commits
<1>3. proc' = [proc EXCEPT ![p] = r]
  BY DEF PutRevenue, TypeInv, TypeOK
<1>4. revenue' \in [Epochs -> Rev]
  BY <1>1 DEF PutRevenue, TypeInv, TypeOK, Process
<1>5. QED
  BY <1>2, <1>3, <1>4 DEF MayBe, TypeInv, JobInv

RowType == [status : Statuses \cup {"none"}, version : Versions \cup {NoVersion}]

LEMMA ReadRowType ==
  ASSUME TypeInv, NEW p \in Procs, ReadRow(p)
  PROVE  \E r : MayBe(p, r) /\ proc' = [proc EXCEPT ![p] = r]
<1> DEFINE r == [proc[p] EXCEPT !.pc = "upsert", !.saw = row[proc[p].epoch].status]
<1>1. proc[p] \in Process /\ row \in [Epochs -> RowType]
  BY DEF TypeInv, TypeOK, RowType
<1>2. row[proc[p].epoch].status \in Statuses \cup {"none"}
  BY <1>1 DEF Process, RowType
<1>3. r \in Process /\ r.job = proc[p].job /\ r.pc = "upsert"
  BY <1>1, <1>2 DEF Process, Pcs, Commits
<1>4. proc' = [proc EXCEPT ![p] = r]
  BY DEF ReadRow, TypeInv, TypeOK
<1>5. QED
  BY <1>3, <1>4 DEF MayBe, TypeInv, JobInv

LEMMA UpsertEpochType ==
  ASSUME TypeInv, NEW p \in Procs, UpsertEpoch(p)
  PROVE  /\ \E r : MayBe(p, r) /\ proc' = [proc EXCEPT ![p] = r]
         /\ row' \in [Epochs -> RowType]
<1> DEFINE r == [proc[p] EXCEPT !.pc = "report"]
<1>1. proc[p] \in Process
  BY DEF TypeInv, TypeOK
<1>2. r \in Process /\ r.job = proc[p].job /\ r.pc = "report"
  BY <1>1 DEF Process, Pcs, Commits
<1>3. proc' = [proc EXCEPT ![p] = r]
  BY DEF UpsertEpoch, TypeInv, TypeOK
<1>4. row' \in [Epochs -> RowType]
  BY <1>1 DEF UpsertEpoch, UpsertRow, TypeInv, TypeOK, Process, RowType
<1>5. QED
  BY <1>2, <1>3, <1>4 DEF MayBe, TypeInv, JobInv

LEMMA ReturnedMayBe ==
  ASSUME TypeInv, NEW p \in Procs
  PROVE  MayBe(p, Returned(proc[p]))
<1>1. proc[p] \in Process
  BY DEF TypeInv, TypeOK
<1>2. QED
  BY <1>1, ReturnedIsProcess DEF MayBe, TypeInv, JobInv

LEMMA PutReportType ==
  ASSUME TypeInv, NEW p \in Procs, PutReport(p)
  PROVE  /\ \E r : MayBe(p, r) /\ proc' = [proc EXCEPT ![p] = r]
         /\ report' \in [Epochs -> [Versions ->
                          [status : Statuses \cup {"none"}, kind : Kinds]]]
         /\ newest' \in [Epochs -> Versions \cup {NoVersion}]
<1> DEFINE sealing == [proc[p] EXCEPT !.pc = "seal"]
           entry == [status |-> proc[p].status, kind |-> proc[p].rev.kind]
<1>1. proc[p] \in Process
  BY DEF TypeInv, TypeOK
<1>2. sealing \in Process /\ sealing.job = proc[p].job /\ sealing.pc = "seal"
  BY <1>1 DEF Process, Pcs, Commits
<1>3. MayBe(p, sealing)
  BY <1>2 DEF MayBe, TypeInv, JobInv
<1>4. \E r : MayBe(p, r) /\ proc' = [proc EXCEPT ![p] = r]
  <2> HIDE DEF sealing
  <2>1. proc' = [proc EXCEPT ![p] = IF proc[p].status = "sealed" THEN sealing
                                                                 ELSE Returned(proc[p])]
    BY DEF PutReport, sealing
  <2>2. QED
    BY <1>3, <2>1, ReturnedMayBe
<1>5. /\ proc[p].epoch \in Epochs /\ proc[p].version \in Versions
      /\ entry \in [status : Statuses \cup {"none"}, kind : Kinds]
  BY <1>1 DEF Process, Rev
<1>6. report' = [report EXCEPT ![proc[p].epoch][proc[p].version] = entry]
  BY DEF PutReport
<1>7. report' \in [Epochs -> [Versions -> [status : Statuses \cup {"none"}, kind : Kinds]]]
  <2> HIDE DEF entry
  <2>1. QED
    BY <1>5, <1>6 DEF TypeInv, TypeOK
<1>8. newest' \in [Epochs -> Versions \cup {NoVersion}]
  BY <1>5 DEF PutReport, TypeInv, TypeOK
<1>9. QED
  BY <1>4, <1>7, <1>8

LEMMA SealEpochType ==
  ASSUME TypeInv, NEW p \in Procs, SealEpoch(p)
  PROVE  /\ \E r : MayBe(p, r) /\ proc' = [proc EXCEPT ![p] = r]
         /\ row' \in [Epochs -> RowType]
<1>1. proc[p].epoch \in Epochs
  BY DEF TypeInv, TypeOK, Process
<1>2. row' \in [Epochs -> RowType]
  BY <1>1 DEF SealEpoch, TypeInv, TypeOK, RowType, Statuses
<1>3. QED
  BY <1>2, ReturnedMayBe DEF SealEpoch

\* Every step keeps the tables and the processes well typed.
LEMMA TypeStep == TypeInv /\ [Next]_vars => TypeInv'
<1> SUFFICES ASSUME TypeInv, [Next]_vars
             PROVE  TypeInv'
  OBVIOUS
<1> DEFINE ProcOK == proc' \in [Procs -> Process] /\ JobInv'
           Moves(p) == \E r : MayBe(p, r) /\ proc' = [proc EXCEPT ![p] = r]
<1>m. ASSUME NEW p \in Procs, Moves(p)
      PROVE  ProcOK
  <2>1. PICK r : MayBe(p, r) /\ proc' = [proc EXCEPT ![p] = r]
    BY <1>m
  <2>2. QED
    BY <2>1, OneProcessChanges DEF MayBe
<1>1. CASE UNCHANGED vars
  BY <1>1 DEF TypeInv, TypeOK, JobInv, vars, store
<1>2. CASE Advance
  BY <1>2, EpochAssumption DEF TypeInv, TypeOK, JobInv, Advance, store, Epochs
<1>3. ASSUME NEW p \in Procs, Launch(p)  PROVE TypeInv'
  BY <1>3, <1>m, LaunchType DEF Launch, TypeInv, TypeOK, store
<1>4. ASSUME NEW p \in Procs, LaunchFails(p)  PROVE TypeInv'
  BY <1>4, <1>m, LaunchFailsType DEF LaunchFails, TypeInv, TypeOK, store
<1>5. ASSUME NEW p \in Procs, RunByHand(p)  PROVE TypeInv'
  BY <1>5, <1>m, RunByHandType DEF RunByHand, TypeInv, TypeOK, store
<1>6. ASSUME NEW p \in Procs, Poll(p)  PROVE TypeInv'
  BY <1>6, <1>m, PollType DEF Poll, TypeInv, TypeOK, store
<1>7. ASSUME NEW p \in Procs, Begin(p)  PROVE TypeInv'
  BY <1>7, <1>m, BeginType DEF Begin, TypeInv, TypeOK, store
<1>8. ASSUME NEW p \in Procs, Finish(p)  PROVE TypeInv'
  <2>1. Moves(p)
    BY <1>8, AfterJobType DEF Finish
  <2>2. QED
    BY <1>8, <1>m, <2>1 DEF Finish, TypeInv, TypeOK, store
<1>9. ASSUME NEW p \in Procs, NEW answered \in BOOLEAN, Fetch(p, answered)
      PROVE  TypeInv'
  BY <1>9, <1>m, FetchType DEF Fetch, TypeInv, TypeOK, store
<1>10. ASSUME NEW p \in Procs, FetchFails(p)  PROVE TypeInv'
  BY <1>10, <1>m, FetchFailsType DEF FetchFails, TypeInv, TypeOK, store
<1>11. ASSUME NEW p \in Procs, NEW log \in BobAnswers(proc[p].epoch),
              NEW delta \in DeltaFinds(proc[p].epoch), Derive(p, log, delta)
       PROVE  TypeInv'
  <2>1. Moves(p) /\ logCache' \in [Epochs -> Kinds]
    BY <1>11, DeriveType
  <2>2. QED
    BY <1>11, <1>m, <2>1 DEF Derive, TypeInv, TypeOK, store
<1>12. ASSUME NEW p \in Procs, PutRevenue(p)  PROVE TypeInv'
  <2>1. Moves(p) /\ revenue' \in [Epochs -> Rev]
    BY <1>12, PutRevenueType
  <2>2. QED
    BY <1>12, <1>m, <2>1 DEF PutRevenue, TypeInv, TypeOK
<1>13. ASSUME NEW p \in Procs, UpsertEpoch(p)  PROVE TypeInv'
  <2>1. Moves(p) /\ row' \in [Epochs -> RowType]
    BY <1>13, UpsertEpochType
  <2>2. QED
    BY <1>13, <1>m, <2>1 DEF UpsertEpoch, TypeInv, TypeOK, RowType
<1>14. ASSUME NEW p \in Procs, PutReport(p)  PROVE TypeInv'
  BY <1>14, <1>m, PutReportType DEF PutReport, TypeInv, TypeOK
<1>15. ASSUME NEW p \in Procs, SealEpoch(p)  PROVE TypeInv'
  <2>1. Moves(p) /\ row' \in [Epochs -> RowType]
    BY <1>15, SealEpochType
  <2>2. QED
    BY <1>15, <1>m, <2>1 DEF SealEpoch, TypeInv, TypeOK, RowType
<1>16. ASSUME NEW p \in Procs, Die(p)  PROVE TypeInv'
  <2>1. Moves(p)
    BY <1>16, AfterJobType DEF Die
  <2>2. crashes' \in 0..MaxCrashes
    BY <1>16, EpochAssumption DEF Die, TypeInv, TypeOK
  <2>3. QED
    BY <1>16, <1>m, <2>1, <2>2 DEF Die, TypeInv, TypeOK, store
<1>17. ASSUME NEW p \in Procs, Restart(p)  PROVE TypeInv'
  <2>1. crashes' \in 0..MaxCrashes
    BY <1>17, EpochAssumption DEF Restart, TypeInv, TypeOK
  <2>2. QED
    BY <1>17, <1>m, <2>1, RestartType DEF Restart, TypeInv, TypeOK, store
<1>18. ASSUME NEW p \in Procs, ReadRow(p)  PROVE TypeInv'
  BY <1>18, <1>m, ReadRowType DEF ReadRow, TypeInv, TypeOK, store
<1>19. ASSUME NEW p \in Procs, InsertFails(p)  PROVE TypeInv'
  <2>1. Moves(p)
    BY <1>19, AfterJobType DEF InsertFails
  <2>2. QED
    BY <1>19, <1>m, <2>1 DEF InsertFails, TypeInv, TypeOK, store
<1>20. QED
  BY <1>1, <1>2, <1>3, <1>4, <1>5, <1>6, <1>7, <1>8, <1>9, <1>10, <1>11, <1>12,
     <1>13, <1>14, <1>15, <1>16, <1>17, <1>18, <1>19
  DEF Next, Control, Compute

\* Whatever the worker, the operators and the network do, in any order, the store's
\* tables and the locals of compute_epoch stay within their types.
THEOREM TypeCorrect == Spec => []TypeOK
<1>1. TypeInv => TypeOK
  BY DEF TypeInv
<1>2. QED
  BY <1>1, TypeInit, TypeStep, PTL DEF Spec

-----------------------------------------------------------------------------
(***************************************************************************)
(* Sealing waits for the network.  A process that is about to commit a     *)
(* sealed epoch read, before it derived anything, a current epoch beyond   *)
(* it; the network only moves forward, so the epoch is still behind it at  *)
(* every later commit.                                                     *)
(***************************************************************************)
ProcClosed(r, now) ==
  /\ r.pc = "derive" => r.current <= now \/ r.current = r.epoch
  /\ r.pc \in Commits /\ r.status = "sealed" => r.epoch < now
  /\ r.pc \in Commits /\ r.rev.complete => r.status = "sealed"
  /\ r.pc = "seal" => r.status = "sealed"

TablesClosed ==
  \A e \in Epochs :
    /\ IsSealed(e) => e < chain
    /\ revenue[e].complete => e < chain
    /\ \A v \in Versions : report[e][v].status = "sealed" => e < chain

ClosedInv == (\A p \in Procs : ProcClosed(proc[p], chain)) /\ TablesClosed

LEMMA ClosedInit == Init => ClosedInv
BY DEF Init, ClosedInv, ProcClosed, TablesClosed, IsSealed, Idle, NoRow, NoReport,
       NoRev, Commits

\* What a process does to its own state before and after the commits of an epoch
\* cannot break ProcClosed.
LEMMA OutsideIsClosed ==
  ASSUME NEW r, NEW now, r.pc \in {"down", "launch", "next", "fetch"}
  PROVE  ProcClosed(r, now)
BY DEF ProcClosed, Commits

\* Outside compute_epoch a step leaves its process outside it.
LEMMA OutsideSteps ==
  ASSUME TypeInv, NEW p \in Procs,
         \/ Launch(p) \/ LaunchFails(p) \/ RunByHand(p) \/ Poll(p) \/ Begin(p)
         \/ Finish(p) \/ FetchFails(p) \/ InsertFails(p) \/ Die(p) \/ Restart(p)
  PROVE  \E r : /\ r.pc \in {"down", "launch", "next", "fetch"}
               /\ proc' = [proc EXCEPT ![p] = r]
<1>a. proc \in [Procs -> Process]
  BY DEF TypeInv, TypeOK
<1>1. CASE Launch(p)
  <2>1. proc'[p].pc = "next" /\ proc' = [proc EXCEPT ![p] = proc'[p]]
    BY <1>a, <1>1 DEF Launch, Process
  <2>2. QED
    BY <2>1
<1>2. CASE LaunchFails(p)
  <2>1. proc'[p].pc = "launch" /\ proc' = [proc EXCEPT ![p] = proc'[p]]
    BY <1>a, <1>2 DEF LaunchFails, Process
  <2>2. QED
    BY <2>1
<1>3. CASE RunByHand(p)
  <2>1. proc'[p].pc = "next" /\ proc' = [proc EXCEPT ![p] = proc'[p]]
    BY <1>a, <1>3 DEF RunByHand, Idle
  <2>2. QED
    BY <2>1
<1>4. CASE Poll(p)
  <2>1. proc'[p].pc = "fetch" /\ proc' = [proc EXCEPT ![p] = proc'[p]]
    BY <1>a, <1>4 DEF Poll, Process
  <2>2. QED
    BY <2>1
<1>5. CASE Begin(p)
  <2>1. PICK e \in proc[p].todo :
          proc' = [proc EXCEPT ![p].todo = @ \ {e},
                     ![p].pc = IF Skips(p, e) THEN "next" ELSE "fetch",
                     ![p].epoch = IF Skips(p, e) THEN @ ELSE e]
    BY <1>5 DEF Begin
  <2>2. proc'[p].pc \in {"next", "fetch"} /\ proc' = [proc EXCEPT ![p] = proc'[p]]
    BY <1>a, <2>1 DEF Process
  <2>3. QED
    BY <2>2
<1>6. CASE Finish(p) \/ InsertFails(p) \/ Die(p)
  <2>1. proc' = [proc EXCEPT ![p] = AfterJob(p)]
    BY <1>6 DEF Finish, InsertFails, Die
  <2>2. AfterJob(p).pc \in {"down", "launch"}
    BY DEF AfterJob, Idle
  <2>3. proc'[p].pc \in {"down", "launch"} /\ proc' = [proc EXCEPT ![p] = proc'[p]]
    BY <1>a, <2>1, <2>2
  <2>4. QED
    BY <2>3
<1>7. CASE FetchFails(p)
  <2>1. proc'[p].pc = "next" /\ proc' = [proc EXCEPT ![p] = proc'[p]]
    BY <1>a, <1>7 DEF FetchFails, Process
  <2>2. QED
    BY <2>1
<1>8. CASE Restart(p)
  <2>1. proc'[p].pc = "launch" /\ proc' = [proc EXCEPT ![p] = proc'[p]]
    BY <1>a, <1>8 DEF Restart, Idle
  <2>2. QED
    BY <2>1
<1>9. QED
  BY <1>1, <1>2, <1>3, <1>4, <1>5, <1>6, <1>7, <1>8

LEMMA ClosedStep == TypeInv /\ ClosedInv /\ [Next]_vars => ClosedInv'
<1> SUFFICES ASSUME TypeInv, ClosedInv, [Next]_vars
             PROVE  ClosedInv'
  OBVIOUS
<1>t. /\ chain \in Epochs /\ Epochs \subseteq Nat /\ proc \in [Procs -> Process]
      /\ \A p \in Procs : proc[p].epoch \in Epochs /\ proc[p].version \in Versions
  BY DEF TypeInv, TypeOK, Process, Epochs
<1>u. ASSUME UNCHANGED <<chain, row, revenue, report>>
      PROVE  TablesClosed'
  BY <1>u DEF ClosedInv, TablesClosed, IsSealed
<1>v. ASSUME NEW p \in Procs, NEW r, ProcClosed(r, chain), UNCHANGED chain,
             proc' = [proc EXCEPT ![p] = r]
      PROVE  \A q \in Procs : ProcClosed(proc'[q], chain')
  BY <1>v, <1>t DEF ClosedInv
<1>1. CASE UNCHANGED vars
  BY <1>1 DEF ClosedInv, ProcClosed, TablesClosed, IsSealed, vars, store
<1>2. CASE Advance
  <2>1. chain' = chain + 1 /\ proc' = proc /\ UNCHANGED store
    BY <1>2 DEF Advance
  <2>2. \A p \in Procs : ProcClosed(proc'[p], chain')
    <3> SUFFICES ASSUME NEW p \in Procs PROVE ProcClosed(proc'[p], chain')
      OBVIOUS
    <3>1. ProcClosed(proc[p], chain) /\ proc[p].epoch \in Nat /\ proc[p].current \in Nat
      BY <1>t DEF ClosedInv, Process
    <3>2. QED
      BY <1>t, <2>1, <3>1 DEF ProcClosed
  <2>3. TablesClosed'
    BY <1>t, <2>1 DEF ClosedInv, TablesClosed, IsSealed, store
  <2>4. QED
    BY <2>2, <2>3 DEF ClosedInv
<1>3. ASSUME NEW p \in Procs,
             \/ Launch(p) \/ LaunchFails(p) \/ RunByHand(p) \/ Poll(p) \/ Begin(p)
             \/ Finish(p) \/ FetchFails(p) \/ InsertFails(p) \/ Die(p) \/ Restart(p)
      PROVE  ClosedInv'
  <2>1. UNCHANGED <<chain, store>>
    BY <1>3 DEF Launch, LaunchFails, RunByHand, Poll, Begin, Finish, FetchFails, InsertFails, Die, Restart
  <2>2. \E r : /\ r.pc \in {"down", "launch", "next", "fetch"}
               /\ proc' = [proc EXCEPT ![p] = r]
    BY <1>3, OutsideSteps
  <2>3. PICK r : /\ r.pc \in {"down", "launch", "next", "fetch"}
                 /\ proc' = [proc EXCEPT ![p] = r]
    BY <2>2
  <2>4. ProcClosed(r, chain)
    BY <2>3, OutsideIsClosed
  <2>5. QED
    BY <1>u, <1>v, <2>1, <2>3, <2>4 DEF ClosedInv, store
<1>4. ASSUME NEW p \in Procs, NEW answered \in BOOLEAN, Fetch(p, answered)
      PROVE  ClosedInv'
  <2>1. /\ proc'[p].pc = "derive" /\ proc' = [proc EXCEPT ![p] = proc'[p]]
        /\ proc'[p].current = chain \/ proc'[p].current = proc'[p].epoch
        /\ UNCHANGED <<chain, store>>
    BY <1>t, <1>4 DEF Fetch, Process
  <2>2. ProcClosed(proc'[p], chain)
    BY <1>t, <2>1 DEF ProcClosed, Commits
  <2>3. QED
    BY <1>u, <1>v, <2>1, <2>2 DEF ClosedInv, store
<1>5. ASSUME NEW p \in Procs, NEW log \in BobAnswers(proc[p].epoch),
             NEW delta \in DeltaFinds(proc[p].epoch), Derive(p, log, delta)
      PROVE  ClosedInv'
  <2> DEFINE kind == Revenue(proc[p].bob, log, delta)
             complete == kind \in Complete /\ ~IsRunning(p)
  <2>1. /\ proc[p].pc = "derive" /\ ProcClosed(proc[p], chain)
        /\ proc[p].epoch \in Nat /\ proc[p].current \in Nat /\ chain \in Nat
    BY <1>t, <1>5 DEF Derive, ClosedInv, Process
  <2>2. /\ proc'[p].pc = "revenue" /\ proc' = [proc EXCEPT ![p] = proc'[p]]
        /\ proc'[p].epoch = proc[p].epoch
        /\ proc'[p].rev.complete = complete
        /\ proc'[p].status = StatusOf(IsRunning(p), complete)
        /\ UNCHANGED <<chain, store>>
    BY <1>t, <1>5 DEF Derive, Process
  <2>3. ~IsRunning(p) => proc[p].epoch < chain
    BY <2>1 DEF IsRunning, ProcClosed
  <2>4. ProcClosed(proc'[p], chain)
    <3> HIDE DEF kind
    <3>1. QED
      BY <2>2, <2>3 DEF ProcClosed, StatusOf, Commits
  <2>5. QED
    BY <1>u, <1>v, <2>2, <2>4 DEF ClosedInv, store
<1>6. ASSUME NEW p \in Procs, PutRevenue(p)
      PROVE  ClosedInv'
  <2>1. /\ proc'[p] = [proc[p] EXCEPT !.pc = "look"]
        /\ proc' = [proc EXCEPT ![p] = proc'[p]] /\ UNCHANGED <<chain, row, report>>
    BY <1>t, <1>6 DEF PutRevenue
  <2>2. ProcClosed(proc[p], chain) /\ proc[p].pc = "revenue" /\ proc[p] \in Process
    BY <1>t, <1>6 DEF ClosedInv, PutRevenue
  <2>3. ProcClosed(proc'[p], chain)
    BY <2>1, <2>2 DEF ProcClosed, Commits, Process
  <2>4. proc[p].rev.complete => proc[p].epoch < chain
    BY <2>2 DEF ProcClosed, Commits
  <2>5. TablesClosed'
    BY <1>t, <1>6, <2>4 DEF PutRevenue, ClosedInv, TablesClosed, IsSealed, TypeInv, TypeOK
  <2>6. QED
    BY <1>v, <2>1, <2>3, <2>5 DEF ClosedInv
<1>7. ASSUME NEW p \in Procs, UpsertEpoch(p)
      PROVE  ClosedInv'
  <2>1. /\ proc'[p] = [proc[p] EXCEPT !.pc = "report"]
        /\ proc' = [proc EXCEPT ![p] = proc'[p]] /\ UNCHANGED <<chain, revenue, report>>
    BY <1>t, <1>7 DEF UpsertEpoch
  <2>2. ProcClosed(proc[p], chain) /\ proc[p].pc = "upsert" /\ proc[p] \in Process
    BY <1>t, <1>7 DEF ClosedInv, UpsertEpoch
  <2>3. ProcClosed(proc'[p], chain)
    BY <2>1, <2>2 DEF ProcClosed, Commits, Process
  <2>4. proc[p].status = "sealed" => proc[p].epoch < chain
    BY <2>2 DEF ProcClosed, Commits
  <2>5. TablesClosed'
    BY <1>t, <1>7, <2>1, <2>4
    DEF UpsertEpoch, UpsertRow, ClosedInv, TablesClosed, IsSealed, TypeInv, TypeOK
  <2>6. QED
    BY <1>v, <2>1, <2>3, <2>5 DEF ClosedInv
<1>8. ASSUME NEW p \in Procs, PutReport(p)
      PROVE  ClosedInv'
  <2>1. ProcClosed(proc[p], chain) /\ proc[p].pc = "report" /\ proc[p] \in Process
    BY <1>t, <1>8 DEF ClosedInv, PutReport
  <2>2. ProcClosed([proc[p] EXCEPT !.pc = "seal"], chain) \/ proc[p].status # "sealed"
    BY <2>1 DEF ProcClosed, Commits, Process
  <2>3. ProcClosed(Returned(proc[p]), chain)
    BY <2>1, ReturnedIsProcess, OutsideIsClosed
  <2>4. \E r : ProcClosed(r, chain) /\ proc' = [proc EXCEPT ![p] = r]
    BY <1>8, <2>2, <2>3 DEF PutReport
  <2>5. proc[p].status = "sealed" => proc[p].epoch < chain
    BY <2>1 DEF ProcClosed, Commits
  <2> DEFINE entry == [status |-> proc[p].status, kind |-> proc[p].rev.kind]
  <2>6. /\ report' = [report EXCEPT ![proc[p].epoch][proc[p].version] = entry]
        /\ UNCHANGED <<chain, row, revenue>> /\ entry.status = proc[p].status
    BY <1>8 DEF PutReport
  <2>7. \A e \in Epochs, v \in Versions : report'[e][v].status = "sealed" => e < chain
    <3> HIDE DEF entry
    <3>1. \A e \in Epochs, v \in Versions :
            report'[e][v] = IF e = proc[p].epoch /\ v = proc[p].version
                              THEN entry ELSE report[e][v]
      BY <1>t, <2>6 DEF TypeInv, TypeOK
    <3>2. QED
      BY <2>5, <2>6, <3>1 DEF ClosedInv, TablesClosed
  <2>8. TablesClosed'
    BY <2>6, <2>7 DEF ClosedInv, TablesClosed, IsSealed
  <2>9. QED
    BY <1>v, <2>4, <2>6, <2>8 DEF ClosedInv
<1>9. ASSUME NEW p \in Procs, SealEpoch(p)
      PROVE  ClosedInv'
  <2>1. ProcClosed(proc[p], chain) /\ proc[p].pc = "seal" /\ proc[p] \in Process
    BY <1>t, <1>9 DEF ClosedInv, SealEpoch
  <2>2. ProcClosed(Returned(proc[p]), chain)
    BY <2>1, ReturnedIsProcess, OutsideIsClosed
  <2>3. proc[p].epoch < chain
    BY <2>1 DEF ProcClosed, Commits
  <2>4. TablesClosed'
    BY <1>t, <1>9, <2>3 DEF SealEpoch, ClosedInv, TablesClosed, IsSealed, TypeInv, TypeOK
  <2>5. QED
    BY <1>9, <1>v, <2>2, <2>4 DEF SealEpoch, ClosedInv
<1>10. ASSUME NEW p \in Procs, ReadRow(p)
       PROVE  ClosedInv'
  <2>1. /\ proc'[p] = [proc[p] EXCEPT !.pc = "upsert", !.saw = row[proc[p].epoch].status]
        /\ proc' = [proc EXCEPT ![p] = proc'[p]] /\ UNCHANGED <<chain, store>>
    BY <1>t, <1>10 DEF ReadRow
  <2>2. ProcClosed(proc[p], chain) /\ proc[p].pc = "look" /\ proc[p] \in Process
    BY <1>t, <1>10 DEF ClosedInv, ReadRow
  <2>3. ProcClosed(proc'[p], chain)
    BY <2>1, <2>2 DEF ProcClosed, Commits, Process
  <2>4. QED
    BY <1>u, <1>v, <2>1, <2>3 DEF ClosedInv, store
<1>11. QED
  BY <1>1, <1>2, <1>3, <1>4, <1>5, <1>6, <1>7, <1>8, <1>9, <1>10 DEF Next, Control, Compute

LEMMA ClosedAlways == Spec => [](TypeInv /\ ClosedInv)
BY TypeInit, TypeStep, ClosedInit, ClosedStep, PTL DEF Spec

\* Whoever commits it, and wherever it dies, a sealed row, a sealed report and a
\* complete revenue table belong to an epoch the network has left behind.
THEOREM SealedMeansClosed == Spec => []TablesClosed
<1>1. ClosedInv => TablesClosed
  BY DEF ClosedInv
<1>2. QED
  BY <1>1, ClosedAlways, PTL

-----------------------------------------------------------------------------
(***************************************************************************)
(* Refinement, for the worker alone: nobody else writes the row between    *)
(* its read and its write, so what it saw is still there (SawInv).         *)
(* Advance closes the current epoch, which cannot be sealed; upsert_epoch  *)
(* and seal_epoch seal an epoch that is closed, or leave the seal as it    *)
(* is; every other step is a stutter of the history.                       *)
(***************************************************************************)
Alone == Operators = {}

SawInv ==
  \A p \in Procs :
    proc[p].pc = "upsert" => proc[p].saw = row[proc[p].epoch].status

LEMMA SawInit == Init => SawInv
BY DEF Init, SawInv, Idle

LEMMA SawStep ==
  ASSUME Alone, TypeInv, SawInv, [Next]_vars
  PROVE  SawInv'
<1>t. proc \in [Procs -> Process] /\ Procs = {Worker}
  BY DEF Alone, Procs, TypeInv, TypeOK
<1>v. ASSUME NEW p \in Procs, proc'[p].pc # "upsert"
      PROVE  SawInv'
  BY <1>t, <1>v DEF SawInv
<1>1. CASE UNCHANGED vars
  BY <1>1 DEF SawInv, vars, store
<1>2. CASE Advance
  BY <1>2 DEF Advance, SawInv, store
<1>3. ASSUME NEW p \in Procs,
             \/ Launch(p) \/ LaunchFails(p) \/ RunByHand(p) \/ Poll(p) \/ Begin(p)
             \/ Finish(p) \/ FetchFails(p) \/ InsertFails(p) \/ Die(p) \/ Restart(p)
      PROVE  SawInv'
  <2>1. PICK r : /\ r.pc \in {"down", "launch", "next", "fetch"}
                 /\ proc' = [proc EXCEPT ![p] = r]
    BY <1>3, OutsideSteps
  <2>2. proc'[p].pc # "upsert"
    BY <1>t, <2>1
  <2>3. QED
    BY <1>v, <2>2
<1>4. ASSUME NEW p \in Procs, NEW answered \in BOOLEAN, Fetch(p, answered)
      PROVE  SawInv'
  <2>1. proc'[p].pc = "derive"
    BY <1>t, <1>4 DEF Fetch, Process
  <2>2. QED
    BY <1>v, <2>1
<1>5. ASSUME NEW p \in Procs, NEW log \in BobAnswers(proc[p].epoch),
             NEW delta \in DeltaFinds(proc[p].epoch), Derive(p, log, delta)
      PROVE  SawInv'
  <2>1. proc'[p].pc = "revenue"
    BY <1>t, <1>5 DEF Derive, Process
  <2>2. QED
    BY <1>v, <2>1
<1>6. ASSUME NEW p \in Procs, PutRevenue(p) \/ UpsertEpoch(p)
      PROVE  SawInv'
  <2>1. proc'[p].pc \in {"look", "report"}
    BY <1>t, <1>6 DEF PutRevenue, UpsertEpoch, Process
  <2>2. QED
    BY <1>v, <2>1
<1>7. ASSUME NEW p \in Procs, ReadRow(p)
      PROVE  SawInv'
  <2>1. /\ proc'[p].saw = row[proc[p].epoch].status /\ proc'[p].epoch = proc[p].epoch
        /\ UNCHANGED row
    BY <1>t, <1>7 DEF ReadRow, Process, store
  <2>2. QED
    BY <1>t, <2>1 DEF SawInv
<1>8. ASSUME NEW p \in Procs, PutReport(p) \/ SealEpoch(p)
      PROVE  SawInv'
  <2>1. Returned(proc[p]).pc = "next"
    BY <1>t, ReturnedIsProcess
  <2>2. proc'[p].pc \in {"seal", "next"}
    BY <1>t, <1>8, <2>1 DEF PutReport, SealEpoch, Process
  <2>3. QED
    BY <1>v, <2>2
<1>9. QED
  BY <1>1, <1>2, <1>3, <1>4, <1>5, <1>6, <1>7, <1>8 DEF Next, Control, Compute

LEMMA HistoryInit == Init => History!Init
BY EpochAssumption DEF Init, History!Init, Phase, IsSealed, NoRow, Epochs

LEMMA SameHistory ==
  ASSUME chain' = chain, \A e \in Epochs : IsSealed(e)' <=> IsSealed(e)
  PROVE  Phase' = Phase
BY DEF Phase

LEMMA AdvanceCloses ==
  ASSUME TypeInv, ClosedInv, Advance
  PROVE  History!Next
<1>1. /\ chain \in Epochs /\ chain' = chain + 1 /\ Epochs \subseteq Nat
      /\ Epochs = 1..MaxEpoch
      /\ \A e \in Epochs : IsSealed(e)' <=> IsSealed(e)
      /\ \A e \in Epochs : IsSealed(e) => e < chain
  BY DEF Advance, TypeInv, TypeOK, ClosedInv, TablesClosed, IsSealed, store, Epochs
<1>2. Phase[chain] = "open"
  BY <1>1 DEF Phase
<1>3. \A d \in Epochs : d < chain => Phase[d] # "open"
  BY <1>1 DEF Phase
<1>4. Phase' = [Phase EXCEPT ![chain] = "closed"]
  <2>1. \A e \in Epochs : Phase'[e] = IF e = chain THEN "closed" ELSE Phase[e]
    BY <1>1 DEF Phase
  <2>2. QED
    BY <2>1 DEF Phase
<1>5. History!Close(chain)
  BY <1>1, <1>2, <1>3, <1>4 DEF History!Close
<1>6. QED
  BY <1>1, <1>5 DEF History!Next

\* A commit that gives one row a status, and never unseals it, is a seal or a stutter.
LEMMA RowSeals ==
  ASSUME NEW e \in Epochs, chain' = chain, e < chain \/ ~IsSealed(e)',
         IsSealed(e) => IsSealed(e)',
         \A d \in Epochs \ {e} : IsSealed(d)' <=> IsSealed(d)
  PROVE  [History!Next]_Phase
<1>1. CASE IsSealed(e) \/ ~IsSealed(e)'
  BY <1>1, SameHistory
<1>2. CASE ~IsSealed(e) /\ IsSealed(e)'
  <2>1. Phase[e] = "closed"
    BY <1>2 DEF Phase
  <2>2. Phase' = [Phase EXCEPT ![e] = "sealed"]
    <3>1. \A d \in Epochs : Phase'[d] = IF d = e THEN "sealed" ELSE Phase[d]
      BY <1>2 DEF Phase
    <3>2. QED
      BY <3>1 DEF Phase
  <2>3. History!Seal(e)
    BY <2>1, <2>2 DEF History!Seal
  <2>4. QED
    BY <2>3 DEF History!Next, Epochs
<1>3. QED
  BY <1>1, <1>2

LEMMA HistoryStep ==
  ASSUME TypeInv, ClosedInv, SawInv, [Next]_vars
  PROVE  [History!Next]_Phase
<1>t. /\ proc \in [Procs -> Process] /\ row \in [Epochs -> RowType]
      /\ \A p \in Procs : proc[p].epoch \in Epochs
  BY DEF TypeInv, TypeOK, Process, RowType
<1>u. ASSUME UNCHANGED <<chain, row>>
      PROVE  [History!Next]_Phase
  BY <1>u, SameHistory DEF IsSealed
<1>1. CASE UNCHANGED vars
  BY <1>1, <1>u DEF vars, store
<1>2. CASE Advance
  BY <1>2, AdvanceCloses
<1>3. ASSUME NEW p \in Procs, UpsertEpoch(p)
      PROVE  [History!Next]_Phase
  <2> DEFINE e == proc[p].epoch
  <2>1. /\ e \in Epochs /\ chain' = chain
        /\ row' = UpsertRow(e, row[e].status, proc[p].status, proc[p].version)
        /\ proc[p].status = "sealed" => e < chain
    BY <1>t, <1>3 DEF UpsertEpoch, SawInv, ClosedInv, ProcClosed, Commits
  <2>2. \A d \in Epochs \ {e} : row'[d] = row[d]
    BY <1>t, <2>1 DEF UpsertRow
  <2>3. row'[e].status = "sealed" => IsSealed(e) \/ proc[p].status = "sealed"
    BY <1>t, <2>1 DEF UpsertRow, IsSealed
  <2>4. IsSealed(e) => row'[e].status = "sealed" /\ e < chain
    BY <1>t, <2>1 DEF UpsertRow, IsSealed, ClosedInv, TablesClosed
  <2> HIDE DEF e
  <2>5. QED
    BY <2>1, <2>2, <2>3, <2>4, RowSeals DEF IsSealed
<1>4. ASSUME NEW p \in Procs, SealEpoch(p)
      PROVE  [History!Next]_Phase
  <2> DEFINE e == proc[p].epoch
  <2>1. /\ e \in Epochs /\ chain' = chain
        /\ row' = [row EXCEPT ![e].status = "sealed"] /\ e < chain
    BY <1>t, <1>4 DEF SealEpoch, ClosedInv, ProcClosed, Commits
  <2>2. \A d \in Epochs \ {e} : row'[d] = row[d]
    BY <1>t, <2>1
  <2>3. row'[e].status = "sealed"
    BY <1>t, <2>1 DEF RowType
  <2> HIDE DEF e
  <2>4. QED
    BY <2>1, <2>2, <2>3, RowSeals DEF IsSealed
<1>5. ASSUME NEW p \in Procs,
             \/ Launch(p) \/ LaunchFails(p) \/ RunByHand(p) \/ Poll(p) \/ Begin(p)
             \/ Finish(p) \/ FetchFails(p) \/ InsertFails(p) \/ Die(p) \/ Restart(p)
      PROVE  [History!Next]_Phase
  BY <1>5, <1>u DEF Launch, LaunchFails, RunByHand, Poll, Begin, Finish, FetchFails,
                    InsertFails, Die, Restart, store
<1>6. ASSUME NEW p \in Procs,
             \/ \E answered \in BOOLEAN : Fetch(p, answered)
             \/ \E log \in BobAnswers(proc[p].epoch), delta \in DeltaFinds(proc[p].epoch) :
                  Derive(p, log, delta)
             \/ PutRevenue(p) \/ ReadRow(p) \/ PutReport(p)
      PROVE  [History!Next]_Phase
  BY <1>6, <1>u DEF Fetch, Derive, PutRevenue, ReadRow, PutReport, store
<1>7. QED
  BY <1>1, <1>2, <1>3, <1>4, <1>5, <1>6 DEF Next, Control, Compute

\* The worker's store implements the abstract history: under any order of its jobs,
\* crashes, restarts and upgrades, epochs close in order, are sealed only once closed,
\* and never lose the seal.
THEOREM EpochImplementsHistory == Alone /\ Spec => RefinesHistory
<1>1. Init => History!Init
  BY HistoryInit
<1>2. TypeInv /\ ClosedInv /\ SawInv /\ [Next]_vars => [History!Next]_Phase
  BY HistoryStep
<1>3. Alone /\ TypeInv /\ SawInv /\ [Next]_vars => SawInv'
  BY SawStep
<1>4. Alone => Alone'
  BY DEF Alone
<1>5. QED
  BY <1>1, <1>2, <1>3, <1>4, SawInit, ClosedAlways, PTL
  DEF Spec, RefinesHistory, History!Spec


-----------------------------------------------------------------------------
(***************************************************************************)
(* Settled figures.  While Bob's log of a running epoch does not already   *)
(* pay every computor, and the balance deltas of a closed one do not       *)
(* mistake an early observation for the payout, nothing that is committed  *)
(* as sealed or complete carries an unsettled figure.                      *)
(***************************************************************************)
NoEarlyFigures == "early" \notin RunningLogs \cup DeltaKinds

ProcSettled(r) ==
  r.pc \in Commits /\ (r.status = "sealed" \/ r.rev.complete) => r.rev.kind = "final"

TablesSettled ==
  \A e \in Epochs :
    /\ revenue[e].complete => revenue[e].kind = "final"
    /\ \A v \in Versions : report[e][v].status = "sealed" => report[e][v].kind = "final"

LogsSettled == \A e \in Epochs : logCache[e] # "early"

SettledInv ==
  (\A p \in Procs : ProcSettled(proc[p])) /\ TablesSettled /\ LogsSettled

LEMMA SettledInit == Init => SettledInv
BY DEF Init, SettledInv, ProcSettled, TablesSettled, LogsSettled, Idle, NoReport, NoRev,
       Commits

LEMMA OutsideIsSettled ==
  ASSUME NEW r, r.pc \notin Commits
  PROVE  ProcSettled(r)
BY DEF ProcSettled

\* Nothing a source of a closed epoch answers is early.
LEMMA NoEarlyAnswer ==
  ASSUME NoEarlyFigures, LogsSettled, NEW e \in Epochs
  PROVE  "early" \notin BobAnswers(e) /\ (e < chain => "early" \notin DeltaFinds(e))
BY SourceAssumption DEF NoEarlyFigures, LogsSettled, BobAnswers, DeltaFinds

LEMMA SettledStep ==
  ASSUME NoEarlyFigures, TypeInv, ClosedInv, SettledInv, [Next]_vars
  PROVE  SettledInv'
<1>t. /\ chain \in Epochs /\ Epochs \subseteq Nat /\ proc \in [Procs -> Process]
      /\ \A p \in Procs : /\ proc[p].epoch \in Epochs /\ proc[p].version \in Versions
                          /\ proc[p].current \in Epochs
  BY DEF TypeInv, TypeOK, Process, Epochs
<1>u. ASSUME UNCHANGED <<revenue, report>>
      PROVE  TablesSettled'
  BY <1>u DEF SettledInv, TablesSettled
<1>v. ASSUME NEW p \in Procs, NEW r, ProcSettled(r), proc' = [proc EXCEPT ![p] = r]
      PROVE  \A q \in Procs : ProcSettled(proc'[q])
  BY <1>v, <1>t DEF SettledInv
<1>1. CASE UNCHANGED vars
  BY <1>1 DEF SettledInv, ProcSettled, TablesSettled, LogsSettled, vars, store
<1>2. CASE Advance
  BY <1>2 DEF Advance, SettledInv, ProcSettled, TablesSettled, LogsSettled, store
<1>3. ASSUME NEW p \in Procs,
             \/ Launch(p) \/ LaunchFails(p) \/ RunByHand(p) \/ Poll(p) \/ Begin(p)
             \/ Finish(p) \/ FetchFails(p) \/ InsertFails(p) \/ Die(p) \/ Restart(p)
             \/ \E answered \in BOOLEAN : Fetch(p, answered)
      PROVE  SettledInv'
  <2>1. UNCHANGED <<revenue, report, logCache>>
    BY <1>3 DEF Launch, LaunchFails, RunByHand, Poll, Begin, Finish, FetchFails,
                InsertFails, Die, Restart, Fetch, store
  <2>2. PICK r : r.pc \notin Commits /\ proc' = [proc EXCEPT ![p] = r]
    <3>1. CASE \E answered \in BOOLEAN : Fetch(p, answered)
      <4>1. proc'[p].pc = "derive" /\ proc' = [proc EXCEPT ![p] = proc'[p]]
        BY <1>t, <3>1 DEF Fetch, Process
      <4>2. QED
        BY <4>1 DEF Commits
    <3>2. CASE ~\E answered \in BOOLEAN : Fetch(p, answered)
      <4>1. \E r : /\ r.pc \in {"down", "launch", "next", "fetch"}
                   /\ proc' = [proc EXCEPT ![p] = r]
        BY <1>3, <3>2, OutsideSteps
      <4>2. QED
        BY <4>1 DEF Commits
    <3>3. QED
      BY <3>1, <3>2
  <2>3. QED
    BY <1>u, <1>v, <2>1, <2>2, OutsideIsSettled DEF SettledInv, LogsSettled
<1>4. ASSUME NEW p \in Procs, NEW log \in BobAnswers(proc[p].epoch),
             NEW delta \in DeltaFinds(proc[p].epoch), Derive(p, log, delta)
      PROVE  SettledInv'
  <2> DEFINE kind == Revenue(proc[p].bob, log, delta)
             complete == kind \in Complete /\ ~IsRunning(p)
  <2>1. /\ proc[p].pc = "derive" /\ ProcClosed(proc[p], chain)
        /\ proc[p].epoch \in Nat /\ proc[p].current \in Nat /\ chain \in Nat
    BY <1>t, <1>4 DEF Derive, ClosedInv
  <2>2. /\ proc' = [proc EXCEPT ![p] = proc'[p]]
        /\ proc'[p].rev.complete = complete /\ proc'[p].rev.kind = kind
        /\ proc'[p].status = StatusOf(IsRunning(p), complete)
        /\ UNCHANGED store
        /\ logCache' = IF proc[p].bob THEN [logCache EXCEPT ![proc[p].epoch] = log]
                                      ELSE logCache
    BY <1>t, <1>4 DEF Derive, Process
  <2>3. ~IsRunning(p) => proc[p].epoch < chain
    BY <2>1 DEF IsRunning, ProcClosed
  <2>4. log # "early" /\ (proc[p].epoch < chain => delta # "early")
    BY <1>t, NoEarlyAnswer DEF SettledInv
  <2>5. complete => kind = "final"
    BY <2>3, <2>4 DEF Revenue, Complete
  <2>6. ProcSettled(proc'[p])
    <3> HIDE DEF complete, kind
    <3>1. QED
      BY <2>2, <2>5 DEF ProcSettled, StatusOf
  <2>7. LogsSettled'
    BY <1>t, <2>2, <2>4 DEF SettledInv, LogsSettled, TypeInv, TypeOK
  <2>8. QED
    BY <1>u, <1>v, <2>2, <2>6, <2>7 DEF SettledInv, store
<1>5. ASSUME NEW p \in Procs, PutRevenue(p)
      PROVE  SettledInv'
  <2>1. /\ proc'[p] = [proc[p] EXCEPT !.pc = "look"]
        /\ proc' = [proc EXCEPT ![p] = proc'[p]] /\ UNCHANGED <<report, logCache>>
    BY <1>t, <1>5 DEF PutRevenue
  <2>2. ProcSettled(proc[p]) /\ proc[p].pc = "revenue" /\ proc[p] \in Process
    BY <1>t, <1>5 DEF SettledInv, PutRevenue
  <2>3. ProcSettled(proc'[p])
    BY <2>1, <2>2 DEF ProcSettled, Commits, Process
  <2>4. proc[p].rev.complete => proc[p].rev.kind = "final"
    BY <2>2 DEF ProcSettled, Commits
  <2>5. TablesSettled'
    BY <1>t, <1>5, <2>4 DEF PutRevenue, SettledInv, TablesSettled, TypeInv, TypeOK
  <2>6. QED
    BY <1>v, <2>1, <2>3, <2>5 DEF SettledInv, LogsSettled
<1>6. ASSUME NEW p \in Procs, UpsertEpoch(p)
      PROVE  SettledInv'
  <2>1. /\ proc'[p] = [proc[p] EXCEPT !.pc = "report"]
        /\ proc' = [proc EXCEPT ![p] = proc'[p]] /\ UNCHANGED <<revenue, report, logCache>>
    BY <1>t, <1>6 DEF UpsertEpoch
  <2>2. ProcSettled(proc[p]) /\ proc[p].pc = "upsert" /\ proc[p] \in Process
    BY <1>t, <1>6 DEF SettledInv, UpsertEpoch
  <2>3. ProcSettled(proc'[p])
    BY <2>1, <2>2 DEF ProcSettled, Commits, Process
  <2>4. QED
    BY <1>u, <1>v, <2>1, <2>3 DEF SettledInv, LogsSettled
<1>7. ASSUME NEW p \in Procs, PutReport(p)
      PROVE  SettledInv'
  <2> DEFINE entry == [status |-> proc[p].status, kind |-> proc[p].rev.kind]
  <2>1. ProcSettled(proc[p]) /\ proc[p].pc = "report" /\ proc[p] \in Process
    BY <1>t, <1>7 DEF SettledInv, PutReport
  <2>2. ProcSettled([proc[p] EXCEPT !.pc = "seal"])
    BY <2>1 DEF ProcSettled, Commits, Process
  <2>3. ProcSettled(Returned(proc[p]))
    BY <2>1, ReturnedIsProcess, OutsideIsSettled DEF Commits
  <2>4. \E r : ProcSettled(r) /\ proc' = [proc EXCEPT ![p] = r]
    BY <1>7, <2>2, <2>3 DEF PutReport
  <2>5. entry.status = "sealed" => entry.kind = "final"
    BY <2>1 DEF ProcSettled, Commits
  <2>6. /\ report' = [report EXCEPT ![proc[p].epoch][proc[p].version] = entry]
        /\ UNCHANGED <<revenue, logCache>>
    BY <1>7 DEF PutReport
  <2>7. TablesSettled'
    <3> HIDE DEF entry
    <3>1. \A e \in Epochs, v \in Versions :
            report'[e][v] = IF e = proc[p].epoch /\ v = proc[p].version
                              THEN entry ELSE report[e][v]
      BY <1>t, <2>6 DEF TypeInv, TypeOK
    <3>2. QED
      BY <2>5, <2>6, <3>1 DEF SettledInv, TablesSettled
  <2>8. QED
    BY <1>v, <2>4, <2>6, <2>7 DEF SettledInv, LogsSettled
<1>8. ASSUME NEW p \in Procs, SealEpoch(p)
      PROVE  SettledInv'
  <2>1. ProcSettled(Returned(proc[p]))
    BY <1>t, ReturnedIsProcess, OutsideIsSettled DEF Commits
  <2>2. QED
    BY <1>8, <1>u, <1>v, <2>1 DEF SealEpoch, SettledInv, LogsSettled
<1>9. ASSUME NEW p \in Procs, ReadRow(p)
      PROVE  SettledInv'
  <2>1. /\ proc'[p] = [proc[p] EXCEPT !.pc = "upsert", !.saw = row[proc[p].epoch].status]
        /\ proc' = [proc EXCEPT ![p] = proc'[p]] /\ UNCHANGED <<store, logCache>>
    BY <1>t, <1>9 DEF ReadRow
  <2>2. ProcSettled(proc[p]) /\ proc[p].pc = "look" /\ proc[p] \in Process
    BY <1>t, <1>9 DEF SettledInv, ReadRow
  <2>3. ProcSettled(proc'[p])
    BY <2>1, <2>2 DEF ProcSettled, Commits, Process
  <2>4. QED
    BY <1>u, <1>v, <2>1, <2>3 DEF SettledInv, LogsSettled, store
<1>10. QED
  BY <1>1, <1>2, <1>3, <1>4, <1>5, <1>6, <1>7, <1>8, <1>9 DEF Next, Control, Compute

\* Under that assumption on the sources, a sealed report and a complete revenue table
\* hold the settled payouts of an epoch that is over, for any number of processes,
\* versions and epochs, and any point at which one of them dies.
THEOREM SettledFigures == NoEarlyFigures /\ Spec => []SettledFiguresOnly
<1>1. TablesClosed /\ TablesSettled => SettledFiguresOnly
  BY DEF TablesClosed, TablesSettled, SettledFiguresOnly
<1>2. ClosedInv /\ SettledInv => SettledFiguresOnly
  BY <1>1 DEF ClosedInv, SettledInv
<1>3. NoEarlyFigures /\ TypeInv /\ ClosedInv /\ SettledInv /\ [Next]_vars => SettledInv'
  BY SettledStep
<1>4. NoEarlyFigures => NoEarlyFigures'
  BY DEF NoEarlyFigures
<1>5. QED
  BY <1>2, <1>3, <1>4, SettledInit, ClosedAlways, PTL DEF Spec


-----------------------------------------------------------------------------
(* What the worker does to its own state, when nobody else writes the store. *)

Me       == proc[Worker]
Deriving == {"fetch", "derive", "revenue", "look", "upsert"}

LEMMA AloneTypes ==
  ASSUME Alone, TypeInv
  PROVE  /\ Procs = {Worker} /\ Me \in Process
         /\ Me.version \in Versions /\ Me.epoch \in Epochs /\ Me.todo \in SUBSET Epochs
         /\ Me.job \in {"backfill", "refresh", "watch"}
         /\ proc \in [Procs -> Process] /\ row \in [Epochs -> RowType]
         /\ chain \in Nat /\ Epochs \subseteq Nat
BY DEF Alone, Procs, TypeInv, TypeOK, JobInv, Me, Process, RowType, Epochs

\* Between two epochs: a list of epochs is made, worked off, given up or left behind.
Listed ==
  /\ Me.pc = "launch" /\ Me'.pc = "next" /\ Me'.job = Me.job
  /\ Me.job = "refresh" => Me'.todo = Stale(Me.version)

Polled ==
  /\ Me'.pc = "fetch" /\ Me'.job = "watch"
  /\ Me'.epoch = chain /\ Me'.todo = Epochs \cap {chain - 1}

Begun ==
  \E e \in Me.todo :
    /\ Me'.job = Me.job /\ Me'.todo = Me.todo \ {e}
    /\ \/ Me'.pc = "next"
       \/ Me'.pc = "fetch" /\ Me'.epoch = e /\ (IsSealed(e) => Me.job = "refresh")

GivenUp == Me'.pc = "next" /\ Me'.job = Me.job /\ Me'.todo \subseteq Me.todo

Passed ==
  /\ Me'.pc = "launch"
  /\ \/ Me'.todo = {}
     \/ Me.pc = "launch" /\ Me'.todo = Me.todo

LEMMA OutsideMoves ==
  ASSUME Alone, TypeInv,
         \/ Launch(Worker) \/ LaunchFails(Worker) \/ Poll(Worker) \/ Begin(Worker)
         \/ Finish(Worker) \/ FetchFails(Worker) \/ InsertFails(Worker) \/ Die(Worker)
  PROVE  /\ UNCHANGED <<row, report>> /\ Me'.version = Me.version
         /\ Listed \/ Polled \/ Begun \/ GivenUp \/ Passed
<1>t. /\ Me \in Process /\ proc \in [Procs -> Process] /\ Worker \in Procs
      /\ Me.job \in {"backfill", "refresh", "watch"}
  BY AloneTypes DEF Procs
<1>u. UNCHANGED <<row, report>>
  BY DEF Launch, LaunchFails, Poll, Begin, Finish, FetchFails, InsertFails, Die, store
<1>1. CASE Launch(Worker)
  <2> DEFINE todo == CASE Me.job = "backfill" -> Recent
                       [] Me.job = "refresh" -> Stale(Me.version)
                       [] OTHER -> {}
  <2>1. /\ Me.pc = "launch"
        /\ \E up \in BobUp :
             proc' = [proc EXCEPT ![Worker].pc = "next", ![Worker].bob = up,
                                  ![Worker].todo = todo]
    BY <1>1 DEF Launch, Me
  <2>2. Me.job = "refresh" => todo = Stale(Me.version)
    OBVIOUS
  <2> HIDE DEF todo
  <2>3. /\ Me'.version = Me.version /\ Me'.pc = "next" /\ Me'.job = Me.job
        /\ Me'.todo = todo
    BY <2>1, <1>t DEF Me, Process
  <2>4. QED
    BY <1>u, <2>1, <2>2, <2>3 DEF Listed
<1>2. CASE LaunchFails(Worker)
  <2>1. /\ Me'.version = Me.version /\ Me.pc = "launch" /\ Me'.pc = "launch"
        /\ Me'.todo = Me.todo
    BY <1>2, <1>t DEF LaunchFails, Me, Process
  <2>2. QED
    BY <1>u, <2>1 DEF Passed
<1>3. CASE Poll(Worker)
  <2>1. Me'.version = Me.version /\ Polled
    BY <1>3, <1>t DEF Poll, Me, Process, Polled
  <2>2. QED
    BY <1>u, <2>1
<1>4. CASE Begin(Worker)
  <2>1. PICK e \in Me.todo :
          proc' = [proc EXCEPT ![Worker].todo = @ \ {e},
                     ![Worker].pc = IF Skips(Worker, e) THEN "next" ELSE "fetch",
                     ![Worker].epoch = IF Skips(Worker, e) THEN @ ELSE e]
    BY <1>4 DEF Begin, Me
  <2>2. /\ Me'.version = Me.version /\ Me'.job = Me.job /\ Me'.todo = Me.todo \ {e}
        /\ Skips(Worker, e) => Me'.pc = "next"
        /\ ~Skips(Worker, e) => Me'.pc = "fetch" /\ Me'.epoch = e
    BY <2>1, <1>t DEF Me, Process
  <2>3. ~Skips(Worker, e) => (IsSealed(e) => Me.job = "refresh")
    BY <1>t DEF Skips, Me
  <2>4. Begun
    BY <2>2, <2>3 DEF Begun
  <2>5. QED
    BY <1>u, <2>2, <2>4
<1>5. CASE Finish(Worker) \/ InsertFails(Worker) \/ Die(Worker)
  <2>1. proc' = [proc EXCEPT ![Worker] = AfterJob(Worker)]
    BY <1>5 DEF Finish, InsertFails, Die
  <2>2. /\ AfterJob(Worker).version = Me.version /\ AfterJob(Worker).pc = "launch"
        /\ AfterJob(Worker).todo = {}
    BY DEF AfterJob, Idle, Me
  <2>3. Me' = AfterJob(Worker)
    BY <1>t, <2>1 DEF Me
  <2>4. QED
    BY <1>u, <2>2, <2>3 DEF Passed
<1>6. CASE FetchFails(Worker)
  <2>1. Me'.version = Me.version /\ GivenUp
    BY <1>6, <1>t DEF FetchFails, Me, Process, GivenUp
  <2>2. QED
    BY <1>u, <2>1
<1>7. QED
  BY <1>1, <1>2, <1>3, <1>4, <1>5, <1>6

SameWork == /\ Me'.version = Me.version /\ Me'.job = Me.job
            /\ Me'.epoch = Me.epoch /\ Me'.todo = Me.todo

LEMMA DerivingMoves ==
  ASSUME Alone, TypeInv,
         \/ \E answered \in BOOLEAN : Fetch(Worker, answered)
         \/ \E log \in BobAnswers(Me.epoch), delta \in DeltaFinds(Me.epoch) :
              Derive(Worker, log, delta)
         \/ PutRevenue(Worker) \/ ReadRow(Worker)
  PROVE  /\ UNCHANGED <<row, report>> /\ SameWork
         /\ Me.pc \in Deriving /\ Me'.pc \in Deriving
<1>t. Me \in Process /\ proc \in [Procs -> Process] /\ Worker \in Procs
  BY AloneTypes DEF Procs
<1>1. ASSUME NEW answered \in BOOLEAN, Fetch(Worker, answered)
      PROVE  UNCHANGED <<row, report>> /\ SameWork /\ Me.pc \in Deriving /\ Me'.pc \in Deriving
  BY <1>1, <1>t DEF Fetch, Me, Process, SameWork, Deriving, store
<1>2. ASSUME NEW log, NEW delta, Derive(Worker, log, delta)
      PROVE  UNCHANGED <<row, report>> /\ SameWork /\ Me.pc \in Deriving /\ Me'.pc \in Deriving
  BY <1>2, <1>t DEF Derive, Me, Process, SameWork, Deriving, store
<1>3. CASE PutRevenue(Worker)
  BY <1>3, <1>t DEF PutRevenue, Me, Process, SameWork, Deriving
<1>4. CASE ReadRow(Worker)
  BY <1>4, <1>t DEF ReadRow, Me, Process, SameWork, Deriving, store
<1>5. QED
  BY <1>1, <1>2, <1>3, <1>4

LEMMA UpsertMoves ==
  ASSUME Alone, TypeInv, SawInv, UpsertEpoch(Worker)
  PROVE  /\ SameWork /\ Me.pc = "upsert" /\ Me'.pc = "report" /\ Me'.status = Me.status
         /\ report' = report
         /\ \A e \in Epochs \ {Me.epoch} : row'[e] = row[e]
         /\ IF IsSealed(Me.epoch) /\ Me.status # "sealed"
              THEN row'[Me.epoch] = row[Me.epoch]
              ELSE row'[Me.epoch] = [status |-> Me.status, version |-> Me.version]
<1>t. /\ Me \in Process /\ proc \in [Procs -> Process] /\ Worker \in Procs
      /\ row \in [Epochs -> RowType] /\ Me.epoch \in Epochs
  BY AloneTypes DEF Procs
<1>1. /\ SameWork /\ Me.pc = "upsert" /\ Me'.pc = "report" /\ Me'.status = Me.status
      /\ report' = report
  BY <1>t DEF UpsertEpoch, Me, Process, SameWork
<1>2. row' = UpsertRow(Me.epoch, row[Me.epoch].status, Me.status, Me.version)
  BY <1>t DEF UpsertEpoch, SawInv, Me
<1>3. QED
  BY <1>1, <1>2, <1>t DEF UpsertRow, IsSealed

LEMMA ReportMoves ==
  ASSUME Alone, TypeInv, PutReport(Worker)
  PROVE  /\ Me.pc = "report" /\ row' = row
         /\ Me'.version = Me.version /\ Me'.job = Me.job /\ Me'.todo = Me.todo
         /\ \A e \in Epochs, v \in Versions :
              report'[e][v] = IF e = Me.epoch /\ v = Me.version
                                THEN [status |-> Me.status, kind |-> Me.rev.kind]
                                ELSE report[e][v]
         /\ IF Me.status = "sealed"
              THEN Me'.pc = "seal" /\ Me'.epoch = Me.epoch /\ Me'.status = Me.status
              ELSE Me'.pc = "next"
<1>t. /\ Me \in Process /\ proc \in [Procs -> Process] /\ Worker \in Procs
      /\ Me.epoch \in Epochs /\ Me.version \in Versions
  BY AloneTypes DEF Procs
<1> DEFINE entry == [status |-> Me.status, kind |-> Me.rev.kind]
<1>1. /\ Me.pc = "report" /\ row' = row
      /\ report' = [report EXCEPT ![Me.epoch][Me.version] = entry]
  BY DEF PutReport, Me
<1>2. \A e \in Epochs, v \in Versions :
        report'[e][v] = IF e = Me.epoch /\ v = Me.version THEN entry ELSE report[e][v]
  <2> HIDE DEF entry
  <2>1. QED
    BY <1>1, <1>t DEF TypeInv, TypeOK
<1>3. Me' = IF Me.status = "sealed" THEN [Me EXCEPT !.pc = "seal"] ELSE Returned(Me)
  BY <1>t DEF PutReport, Me
<1>4. /\ Returned(Me).pc = "next" /\ Returned(Me).version = Me.version
      /\ Returned(Me).job = Me.job /\ Returned(Me).todo = Me.todo
  BY DEF Returned, Idle
<1>5. LET m == [Me EXCEPT !.pc = "seal"] IN
        /\ m.pc = "seal" /\ m.version = Me.version /\ m.job = Me.job /\ m.todo = Me.todo
        /\ m.epoch = Me.epoch /\ m.status = Me.status
  BY <1>t DEF Process
<1>6. QED
  BY <1>1, <1>2, <1>3, <1>4, <1>5

LEMMA SealMoves ==
  ASSUME Alone, TypeInv, SealEpoch(Worker)
  PROVE  /\ Me.pc = "seal" /\ Me'.pc = "next" /\ report' = report
         /\ Me'.version = Me.version /\ Me'.job = Me.job /\ Me'.todo = Me.todo
         /\ \A e \in Epochs \ {Me.epoch} : row'[e] = row[e]
         /\ row'[Me.epoch].status = "sealed" /\ row'[Me.epoch].version = row[Me.epoch].version
<1>t. /\ Me \in Process /\ proc \in [Procs -> Process] /\ Worker \in Procs
      /\ Me.epoch \in Epochs /\ row \in [Epochs -> RowType]
  BY AloneTypes DEF Procs
<1>1. /\ Me.pc = "seal" /\ report' = report
      /\ row' = [row EXCEPT ![Me.epoch].status = "sealed"]
      /\ Me' = Returned(Me)
  BY <1>t DEF SealEpoch, Me
<1>2. /\ Returned(Me).pc = "next" /\ Returned(Me).version = Me.version
      /\ Returned(Me).job = Me.job /\ Returned(Me).todo = Me.todo
  BY DEF Returned, Idle
<1>3. /\ \A e \in Epochs \ {Me.epoch} : row'[e] = row[e]
      /\ row'[Me.epoch].status = "sealed" /\ row'[Me.epoch].version = row[Me.epoch].version
  BY <1>1, <1>t DEF RowType
<1>4. QED
  BY <1>1, <1>2, <1>3

-----------------------------------------------------------------------------
(***************************************************************************)
(* A sealed report stays, for the worker alone.  What the worker starts on *)
(* has no sealed report of its version: backfill and finalize look at the  *)
(* row, which is sealed before its report is; the epoch that runs cannot   *)
(* be sealed; and --refresh-stale picks epochs without a report of the     *)
(* version, or whose row names another version, and a sealed report of the *)
(* version has left that version in the row.  The last holds only while no *)
(* deployment goes back to a version that ran before: Rank orders them.    *)
(***************************************************************************)
Forward(Rank) ==
  /\ Rank \in [Versions -> Nat]
  /\ \A v, x \in Versions : <<v, x>> \in Upgrades => Rank[v] < Rank[x]

NoRollback == \E Rank : Forward(Rank)

HoldsSealed(e, v) == report[e][v].status = "sealed"

\* What the tables say of sealed reports, while version v runs.
ReportsKept(Rank, v) ==
  /\ \A e \in Epochs, x \in Versions :
       HoldsSealed(e, x) => IsSealed(e) /\ (x = v \/ Rank[x] < Rank[v])
  /\ \A e \in Epochs : HoldsSealed(e, v) => row[e].version = v

\* Where the worker is with the epoch it computes and those it has to do.
WorkKept(r) ==
  /\ r.pc \in Deriving \cup Commits => r.epoch \in Epochs \ r.todo
  /\ r.pc \in Deriving \cup {"report"} => ~HoldsSealed(r.epoch, r.version)
  /\ r.pc \in {"report", "seal"} /\ r.status = "sealed" =>
       IsSealed(r.epoch) /\ row[r.epoch].version = r.version
  /\ r.job = "refresh" => \A e \in r.todo : ~HoldsSealed(e, r.version)
  /\ r.pc = "launch" => r.todo = {}

KeptInv(Rank) == ReportsKept(Rank, Me.version) /\ WorkKept(Me)

LEMMA KeptInit ==
  ASSUME Init, NEW Rank
  PROVE  KeptInv(Rank)
<1>1. Me.pc = "launch" /\ Me.job = "backfill" /\ Me.version \in Versions /\ Me.todo = {}
  BY ProcAssumption, VersionAssumption DEF Init, Me, Procs, Idle
<1>2. \A e \in Epochs, v \in Versions : ~HoldsSealed(e, v)
  BY DEF Init, HoldsSealed, NoReport
<1>3. QED
  BY <1>1, <1>2 DEF KeptInv, ReportsKept, WorkKept, Deriving, Commits

LEMMA KeptOutside ==
  ASSUME Alone, TypeInv, ClosedInv, NEW Rank, KeptInv(Rank),
         UNCHANGED <<row, report>>, Me'.version = Me.version,
         Listed \/ Polled \/ Begun \/ GivenUp \/ Passed
  PROVE  KeptInv(Rank)'
<1>t. /\ Me.version \in Versions /\ Me.epoch \in Epochs /\ Me.todo \in SUBSET Epochs
      /\ Me.job \in {"backfill", "refresh", "watch"}
      /\ chain \in Nat /\ Epochs \subseteq Nat
  BY AloneTypes
<1>r. ReportsKept(Rank, Me.version) /\ WorkKept(Me)
  BY DEF KeptInv
<1>h. /\ \A e, v : HoldsSealed(e, v)' <=> HoldsSealed(e, v)
      /\ \A e : IsSealed(e)' <=> IsSealed(e)
  BY DEF HoldsSealed, IsSealed
<1>1. ReportsKept(Rank, Me.version)'
  BY <1>r, <1>h DEF ReportsKept
\* With no epoch under way, only the list matters.
<1>2. ASSUME Me'.pc \in {"launch", "next"}, Me'.pc = "launch" => Me'.todo = {},
             Me'.job = "refresh" => \A e \in Me'.todo : ~HoldsSealed(e, Me.version)
      PROVE  WorkKept(Me)'
  BY <1>2, <1>h DEF WorkKept, Deriving, Commits
<1>3. CASE Listed
  <2>1. \A e \in Stale(Me.version) : ~HoldsSealed(e, Me.version)
    <3> SUFFICES ASSUME NEW e \in Stale(Me.version), HoldsSealed(e, Me.version)
                 PROVE  FALSE
      OBVIOUS
    <3>1. e \in Epochs /\ row[e].version = Me.version
      BY <1>r DEF Stale, ReportsKept
    <3>2. QED
      BY <3>1 DEF Stale, HoldsSealed
  <2>2. WorkKept(Me)'
    BY <1>2, <1>3, <2>1 DEF Listed
  <2>3. QED
    BY <1>1, <2>2 DEF KeptInv
<1>4. CASE Polled
  <2>1. ASSUME chain \in Epochs PROVE ~HoldsSealed(chain, Me.version)
    BY <1>t, <2>1 DEF ClosedInv, TablesClosed, HoldsSealed
  <2>2. chain \in Epochs
    BY DEF TypeInv, TypeOK
  <2>3. WorkKept(Me)'
    BY <1>4, <1>h, <1>t, <2>1, <2>2 DEF Polled, WorkKept, Deriving, Commits
  <2>4. QED
    BY <1>1, <2>3 DEF KeptInv
<1>5. CASE Begun
  <2>1. PICK e \in Me.todo :
          /\ Me'.job = Me.job /\ Me'.todo = Me.todo \ {e}
          /\ \/ Me'.pc = "next"
             \/ Me'.pc = "fetch" /\ Me'.epoch = e /\ (IsSealed(e) => Me.job = "refresh")
    BY <1>5 DEF Begun
  <2>2. Me.job = "refresh" => \A d \in Me.todo : ~HoldsSealed(d, Me.version)
    BY <1>r DEF WorkKept
  <2>3. CASE Me'.pc = "next"
    <3>1. WorkKept(Me)'
      BY <1>2, <2>1, <2>2, <2>3
    <3>2. QED
      BY <1>1, <3>1 DEF KeptInv
  <2>4. CASE Me'.pc = "fetch" /\ Me'.epoch = e /\ (IsSealed(e) => Me.job = "refresh")
    <3>1. ~HoldsSealed(e, Me.version)
      BY <1>r, <1>t, <2>2, <2>4 DEF ReportsKept
    <3>2. WorkKept(Me)'
      BY <1>h, <1>t, <2>1, <2>2, <2>4, <3>1 DEF WorkKept, Deriving, Commits
    <3>3. QED
      BY <1>1, <3>2 DEF KeptInv
  <2>5. QED
    BY <2>1, <2>3, <2>4
<1>6. CASE GivenUp
  <2>1. Me.job = "refresh" => \A d \in Me.todo : ~HoldsSealed(d, Me.version)
    BY <1>r DEF WorkKept
  <2>2. WorkKept(Me)'
    BY <1>2, <1>6, <2>1 DEF GivenUp
  <2>3. QED
    BY <1>1, <2>2 DEF KeptInv
<1>7. CASE Passed
  <2>1. Me'.todo = {}
    BY <1>7, <1>r DEF Passed, WorkKept
  <2>2. WorkKept(Me)'
    BY <1>2, <1>7, <2>1 DEF Passed
  <2>3. QED
    BY <1>1, <2>2 DEF KeptInv
<1>8. QED
  BY <1>3, <1>4, <1>5, <1>6, <1>7

LEMMA KeptDeriving ==
  ASSUME Alone, TypeInv, NEW Rank, KeptInv(Rank),
         UNCHANGED <<row, report>>, SameWork, Me.pc \in Deriving, Me'.pc \in Deriving
  PROVE  KeptInv(Rank)'
<1>r. ReportsKept(Rank, Me.version) /\ WorkKept(Me)
  BY DEF KeptInv
<1>h. /\ \A e, v : HoldsSealed(e, v)' <=> HoldsSealed(e, v)
      /\ \A e : IsSealed(e)' <=> IsSealed(e)
  BY DEF HoldsSealed, IsSealed
<1>1. ReportsKept(Rank, Me.version)'
  BY <1>r, <1>h DEF ReportsKept, SameWork
<1>2. WorkKept(Me)'
  BY <1>r, <1>h DEF WorkKept, SameWork, Deriving, Commits
<1>3. QED
  BY <1>1, <1>2 DEF KeptInv

LEMMA KeptUpsert ==
  ASSUME Alone, TypeInv, SawInv, NEW Rank, KeptInv(Rank), UpsertEpoch(Worker)
  PROVE  KeptInv(Rank)'
<1>t. Me.version \in Versions /\ Me.epoch \in Epochs
  BY AloneTypes
<1>r. ReportsKept(Rank, Me.version) /\ WorkKept(Me)
  BY DEF KeptInv
<1>m. /\ SameWork /\ Me.pc = "upsert" /\ Me'.pc = "report" /\ Me'.status = Me.status
      /\ report' = report
      /\ \A e \in Epochs \ {Me.epoch} : row'[e] = row[e]
      /\ IF IsSealed(Me.epoch) /\ Me.status # "sealed"
           THEN row'[Me.epoch] = row[Me.epoch]
           ELSE row'[Me.epoch] = [status |-> Me.status, version |-> Me.version]
  BY UpsertMoves
<1>h. \A e, v : HoldsSealed(e, v)' <=> HoldsSealed(e, v)
  BY <1>m DEF HoldsSealed
<1>1. \A e \in Epochs : IsSealed(e) => IsSealed(e)'
  BY <1>m DEF IsSealed
<1>2. \A e \in Epochs : row[e].version = Me.version => row'[e].version = Me.version
  BY <1>m
<1>3. ReportsKept(Rank, Me.version)'
  BY <1>r, <1>h, <1>m, <1>1, <1>2 DEF ReportsKept, SameWork
<1>4. Me.status = "sealed" => IsSealed(Me.epoch)' /\ row'[Me.epoch].version = Me.version
  BY <1>m DEF IsSealed, SameWork
<1>5. WorkKept(Me)'
  <2>1. Me.status = "sealed" =>
          row'[Me'.epoch].status = "sealed" /\ row'[Me'.epoch].version = Me'.version
    BY <1>4, <1>m DEF IsSealed, SameWork
  <2>2. QED
    BY <1>r, <1>h, <1>m, <2>1 DEF WorkKept, SameWork, Deriving, Commits, IsSealed
<1>6. QED
  BY <1>3, <1>5 DEF KeptInv

LEMMA KeptReport ==
  ASSUME Alone, TypeInv, ClosedInv, NEW Rank, KeptInv(Rank), PutReport(Worker)
  PROVE  KeptInv(Rank)'
<1>t. Me.version \in Versions /\ Me.epoch \in Epochs /\ Me.todo \in SUBSET Epochs
  BY AloneTypes
<1>r. ReportsKept(Rank, Me.version) /\ WorkKept(Me)
  BY DEF KeptInv
<1>m. /\ Me.pc = "report" /\ row' = row
      /\ Me'.version = Me.version /\ Me'.job = Me.job /\ Me'.todo = Me.todo
      /\ \A e \in Epochs, v \in Versions :
           report'[e][v] = IF e = Me.epoch /\ v = Me.version
                             THEN [status |-> Me.status, kind |-> Me.rev.kind]
                             ELSE report[e][v]
      /\ IF Me.status = "sealed"
           THEN Me'.pc = "seal" /\ Me'.epoch = Me.epoch /\ Me'.status = Me.status
           ELSE Me'.pc = "next"
  BY ReportMoves
<1>1. \A e \in Epochs, v \in Versions :
        HoldsSealed(e, v)' <=> IF e = Me.epoch /\ v = Me.version
                                 THEN Me.status = "sealed" ELSE HoldsSealed(e, v)
  BY <1>m DEF HoldsSealed
<1>2. \A e : IsSealed(e)' <=> IsSealed(e)
  BY <1>m DEF IsSealed
<1>3. Me.status = "sealed" => IsSealed(Me.epoch) /\ row[Me.epoch].version = Me.version
  BY <1>r, <1>m DEF WorkKept
<1>4. Me.epoch \notin Me.todo
  BY <1>r, <1>m DEF WorkKept, Commits
<1>5. ReportsKept(Rank, Me.version)'
  BY <1>r, <1>t, <1>m, <1>1, <1>2, <1>3 DEF ReportsKept
<1>6. WorkKept(Me)'
  <2>1. Me'.job = "refresh" => \A e \in Me'.todo : report'[e][Me'.version].status # "sealed"
    BY <1>r, <1>t, <1>m, <1>1, <1>4 DEF WorkKept, HoldsSealed
  <2>2. Me'.pc = "seal" => /\ Me'.epoch \in Epochs \ Me'.todo
                           /\ row'[Me'.epoch].status = "sealed"
                           /\ row'[Me'.epoch].version = Me'.version
    BY <1>t, <1>m, <1>3, <1>4 DEF IsSealed
  <2>3. Me'.pc \in {"seal", "next"}
    BY <1>m
  <2>4. QED
    BY <2>1, <2>2, <2>3 DEF WorkKept, Deriving, Commits, HoldsSealed, IsSealed
<1>7. QED
  BY <1>5, <1>6 DEF KeptInv

LEMMA KeptSeal ==
  ASSUME Alone, TypeInv, ClosedInv, NEW Rank, KeptInv(Rank), SealEpoch(Worker)
  PROVE  KeptInv(Rank)'
<1>t. Me.version \in Versions /\ Me.epoch \in Epochs /\ Me.todo \in SUBSET Epochs
  BY AloneTypes
<1>r. ReportsKept(Rank, Me.version) /\ WorkKept(Me)
  BY DEF KeptInv
<1>m. /\ Me.pc = "seal" /\ Me'.pc = "next" /\ report' = report
      /\ Me'.version = Me.version /\ Me'.job = Me.job /\ Me'.todo = Me.todo
      /\ \A e \in Epochs \ {Me.epoch} : row'[e] = row[e]
      /\ row'[Me.epoch].status = "sealed" /\ row'[Me.epoch].version = row[Me.epoch].version
  BY SealMoves
<1>h. \A e, v : HoldsSealed(e, v)' <=> HoldsSealed(e, v)
  BY <1>m DEF HoldsSealed
<1>1. \A e \in Epochs : IsSealed(e) => IsSealed(e)'
  BY <1>m DEF IsSealed
<1>2. \A e \in Epochs : row'[e].version = row[e].version
  BY <1>m
<1>3. ReportsKept(Rank, Me.version)'
  BY <1>r, <1>h, <1>m, <1>1, <1>2 DEF ReportsKept
<1>4. WorkKept(Me)'
  BY <1>r, <1>h, <1>m DEF WorkKept, Deriving, Commits
<1>5. QED
  BY <1>3, <1>4 DEF KeptInv

LEMMA KeptRestart ==
  ASSUME Alone, TypeInv, NEW Rank, Forward(Rank), KeptInv(Rank), Restart(Worker)
  PROVE  KeptInv(Rank)'
<1>t. /\ Me.version \in Versions /\ proc \in [Procs -> Process] /\ Worker \in Procs
  BY AloneTypes DEF Procs
<1>r. ReportsKept(Rank, Me.version)
  BY DEF KeptInv
<1>1. PICK v \in Versions : /\ v = Me.version \/ <<Me.version, v>> \in Upgrades
                            /\ proc' = [proc EXCEPT ![Worker] = Idle("launch", "backfill", v)]
  BY DEF Restart, Me
<1>2. Me'.pc = "launch" /\ Me'.job = "backfill" /\ Me'.version = v /\ Me'.todo = {}
  BY <1>1, <1>t DEF Me, Idle
<1>3. /\ Rank \in [Versions -> Nat]
      /\ v = Me.version \/ Rank[Me.version] < Rank[v]
  BY <1>1, <1>t DEF Forward
<1>h. /\ \A e, x : HoldsSealed(e, x)' <=> HoldsSealed(e, x)
      /\ \A e : IsSealed(e)' <=> IsSealed(e)
      /\ row' = row
  BY DEF HoldsSealed, IsSealed, Restart, store
<1>4. \A e \in Epochs, x \in Versions :
        HoldsSealed(e, x) => IsSealed(e) /\ (x = v \/ Rank[x] < Rank[v])
  BY <1>r, <1>t, <1>3 DEF ReportsKept
<1>5. \A e \in Epochs : HoldsSealed(e, v) => row[e].version = v
  <2> SUFFICES ASSUME NEW e \in Epochs, HoldsSealed(e, v) PROVE row[e].version = v
    OBVIOUS
  <2>1. v = Me.version \/ Rank[v] < Rank[Me.version]
    BY <1>r DEF ReportsKept
  <2>2. v = Me.version
    BY <1>t, <1>3, <2>1
  <2>3. QED
    BY <1>r, <2>2 DEF ReportsKept
<1>6. ReportsKept(Rank, Me.version)'
  BY <1>2, <1>4, <1>5, <1>h DEF ReportsKept
<1>7. WorkKept(Me)'
  BY <1>2 DEF WorkKept, Deriving, Commits
<1>8. QED
  BY <1>6, <1>7 DEF KeptInv

LEMMA KeptStep ==
  ASSUME Alone, TypeInv, ClosedInv, SawInv, NEW Rank, Forward(Rank), KeptInv(Rank), [Next]_vars
  PROVE  KeptInv(Rank)'
<1>0. ASSUME UNCHANGED <<row, report, proc>> PROVE KeptInv(Rank)'
  BY <1>0 DEF KeptInv, ReportsKept, WorkKept, Me, HoldsSealed, IsSealed
<1>1. CASE UNCHANGED vars \/ Advance
  BY <1>0, <1>1 DEF vars, store, Advance
<1>2. CASE \/ Launch(Worker) \/ LaunchFails(Worker) \/ Poll(Worker) \/ Begin(Worker)
           \/ Finish(Worker) \/ FetchFails(Worker) \/ InsertFails(Worker) \/ Die(Worker)
  BY <1>2, OutsideMoves, KeptOutside
<1>3. CASE \/ \E answered \in BOOLEAN : Fetch(Worker, answered)
           \/ \E log \in BobAnswers(Me.epoch), delta \in DeltaFinds(Me.epoch) :
                Derive(Worker, log, delta)
           \/ PutRevenue(Worker) \/ ReadRow(Worker)
  BY <1>3, DerivingMoves, KeptDeriving
<1>4. CASE UpsertEpoch(Worker) \/ PutReport(Worker) \/ SealEpoch(Worker)
  BY <1>4, KeptUpsert, KeptReport, KeptSeal
<1>5. CASE Restart(Worker)
  BY <1>5, KeptRestart
<1>6. ~RunByHand(Worker)
  BY ProcAssumption DEF RunByHand
<1>7. Procs = {Worker}
  BY AloneTypes
<1>8. QED
  BY <1>1, <1>2, <1>3, <1>4, <1>5, <1>6, <1>7 DEF Next, Control, Compute, Me

LEMMA SawAlways == Alone /\ Spec => [](TypeInv /\ ClosedInv /\ SawInv)
<1>1. Alone /\ TypeInv /\ SawInv /\ [Next]_vars => SawInv'
  BY SawStep
<1>2. Alone => Alone'
  BY DEF Alone
<1>3. QED
  BY <1>1, <1>2, SawInit, ClosedAlways, PTL DEF Spec

\* Only PutReport writes reports, and it starts from none that is sealed.
LEMMA ReportStays ==
  ASSUME Alone, TypeInv, NEW Rank, KeptInv(Rank), [Next]_vars,
         NEW e \in Epochs, NEW v \in Versions, report[e][v].status = "sealed"
  PROVE  report'[e][v] = report[e][v]
<1>1. ASSUME UNCHANGED report PROVE report'[e][v] = report[e][v]
  BY <1>1
<1>2. CASE UNCHANGED vars \/ Advance
  BY <1>1, <1>2 DEF vars, store, Advance
<1>3. CASE \/ Launch(Worker) \/ LaunchFails(Worker) \/ Poll(Worker) \/ Begin(Worker)
           \/ Finish(Worker) \/ FetchFails(Worker) \/ InsertFails(Worker) \/ Die(Worker)
  BY <1>1, <1>3, OutsideMoves
<1>4. CASE \/ \E answered \in BOOLEAN : Fetch(Worker, answered)
           \/ \E log \in BobAnswers(Me.epoch), delta \in DeltaFinds(Me.epoch) :
                Derive(Worker, log, delta)
           \/ PutRevenue(Worker) \/ ReadRow(Worker)
  BY <1>1, <1>4, DerivingMoves
<1>5. CASE UpsertEpoch(Worker) \/ SealEpoch(Worker) \/ Restart(Worker)
  BY <1>1, <1>5 DEF UpsertEpoch, SealEpoch, Restart, store
<1>6. CASE PutReport(Worker)
  <2>1. ~(e = Me.epoch /\ v = Me.version)
    BY <1>6, ReportMoves DEF KeptInv, WorkKept, HoldsSealed
  <2>2. QED
    BY <1>6, <2>1, ReportMoves
<1>7. ~RunByHand(Worker)
  BY ProcAssumption DEF RunByHand
<1>8. Procs = {Worker}
  BY AloneTypes
<1>9. QED
  BY <1>2, <1>3, <1>4, <1>5, <1>6, <1>7, <1>8 DEF Next, Control, Compute, Me

\* The worker never rewrites a sealed report, whatever its sources answer, wherever
\* it dies and however often it is upgraded, as long as no deployment is rolled back
\* (pipeline.py compute_epoch, store.py stale_epochs).
THEOREM SealedReportsStay ==
  ASSUME NoRollback
  PROVE  Alone /\ Spec => SealedReportStays
<1> PICK Rank : Forward(Rank)
  BY DEF NoRollback
<1> DEFINE Kept  == KeptInv(Rank)
           Stays == \A e \in Epochs, v \in Versions :
                      report[e][v].status = "sealed" => report'[e][v] = report[e][v]
<1>1. Init => Kept
  BY KeptInit
<1>2. Alone /\ TypeInv /\ ClosedInv /\ SawInv /\ Kept /\ [Next]_vars => Kept'
  BY KeptStep
<1>3. Alone /\ TypeInv /\ Kept /\ [Next]_vars => [Stays]_vars
  BY ReportStays
<1>4. Alone => Alone'
  BY DEF Alone
<1>5. SealedReportStays <=> [][Stays]_vars
  BY DEF SealedReportStays
<1> HIDE DEF Kept, Stays
<1>6. Alone /\ Spec => [][Stays]_vars
  BY <1>1, <1>2, <1>3, <1>4, SawAlways, PTL DEF Spec
<1>7. QED
  BY <1>5, <1>6

-----------------------------------------------------------------------------
(***************************************************************************)
(* A sealed epoch has a sealed report to show, for the worker alone and as *)
(* long as nothing died: then one version wrote everything, so nothing is  *)
(* ever stale, and no epoch whose row is sealed is computed again.  Where  *)
(* the row is sealed and the report is not, its commit is the next one.    *)
(***************************************************************************)
OneVersion(v) ==
  /\ \A e \in Epochs : row[e] = NoRow \/ row[e].version = v
  /\ \A e \in Epochs, x \in Versions : report[e][x].status # "none" => x = v

SealedOnes(r) ==
  /\ r.job = "refresh" => r.todo = {}
  /\ r.pc \in Deriving => ~IsSealed(r.epoch)
  /\ r.pc = "launch" => r.todo = {}
  /\ r.pc = "report" => (IsSealed(r.epoch) <=> r.status = "sealed")
  /\ r.pc = "seal" => IsSealed(r.epoch)
  /\ \A e \in Epochs :
       IsSealed(e) => HoldsSealed(e, r.version) \/ (r.pc = "report" /\ r.epoch = e)

ServeInv == crashes = 0 => OneVersion(Me.version) /\ SealedOnes(Me)

LEMMA ServeInit ==
  ASSUME Init
  PROVE  ServeInv
<1>1. Me.pc = "launch" /\ Me.job = "backfill" /\ Me.todo = {}
  BY ProcAssumption DEF Init, Me, Procs, Idle
<1>2. /\ \A e \in Epochs : row[e] = NoRow /\ ~IsSealed(e)
      /\ \A e \in Epochs, v \in Versions : report[e][v].status = "none"
  BY DEF Init, IsSealed, NoRow, NoReport
<1>3. QED
  BY <1>1, <1>2 DEF ServeInv, OneVersion, SealedOnes, Deriving

LEMMA ServeOutside ==
  ASSUME Alone, TypeInv, ClosedInv, OneVersion(Me.version), SealedOnes(Me),
         UNCHANGED <<row, report>>, Me'.version = Me.version,
         Me.pc # "report",
         Listed \/ Polled \/ Begun \/ GivenUp \/ Passed
  PROVE  SealedOnes(Me)'
<1>t. /\ Me.version \in Versions /\ Me.epoch \in Epochs /\ Me.todo \in SUBSET Epochs
      /\ Me.job \in {"backfill", "refresh", "watch"}
      /\ chain \in Nat /\ Epochs \subseteq Nat
  BY AloneTypes
<1>h. /\ \A e, v : HoldsSealed(e, v)' <=> HoldsSealed(e, v)
      /\ \A e : IsSealed(e)' <=> IsSealed(e)
  BY DEF HoldsSealed, IsSealed
<1>1. \A e \in Epochs : IsSealed(e) => HoldsSealed(e, Me.version)
  BY DEF SealedOnes
<1>2. ASSUME Me'.pc \in {"launch", "next", "fetch"},
             Me'.job = "refresh" \/ Me'.pc = "launch" => Me'.todo = {},
             Me'.pc = "fetch" => ~IsSealed(Me'.epoch)
      PROVE  SealedOnes(Me)'
  <2>1. Me'.pc \in Deriving => row'[Me'.epoch].status # "sealed"
    BY <1>2 DEF Deriving, IsSealed
  <2>2. QED
    BY <1>1, <1>2, <1>h, <2>1 DEF SealedOnes, IsSealed
<1>3. CASE Listed
  <2>1. Stale(Me.version) = {}
    <3> SUFFICES ASSUME NEW e \in Stale(Me.version) PROVE FALSE
      OBVIOUS
    <3>1. PICK v \in Versions : report[e][v].status # "none"
      BY DEF Stale, HasReport
    <3>2. e \in Epochs /\ v = Me.version
      BY <3>1 DEF Stale, OneVersion
    <3>3. QED
      BY <3>1, <3>2 DEF Stale, OneVersion
  <2>2. QED
    BY <1>2, <1>3, <2>1 DEF Listed
<1>4. CASE Polled
  <2>1. chain \in Epochs
    BY DEF TypeInv, TypeOK
  <2>2. ~IsSealed(chain)
    BY <1>t, <2>1 DEF ClosedInv, TablesClosed
  <2>3. QED
    BY <1>2, <1>4, <2>2 DEF Polled
<1>5. CASE Begun
  <2>1. PICK e \in Me.todo :
          /\ Me'.job = Me.job /\ Me'.todo = Me.todo \ {e}
          /\ \/ Me'.pc = "next"
             \/ Me'.pc = "fetch" /\ Me'.epoch = e /\ (IsSealed(e) => Me.job = "refresh")
    BY <1>5 DEF Begun
  <2>2. Me.job # "refresh"
    BY <2>1 DEF SealedOnes
  <2>3. QED
    BY <1>2, <2>1, <2>2
<1>6. CASE GivenUp
  BY <1>2, <1>6 DEF GivenUp, SealedOnes
<1>7. CASE Passed
  <2>1. Me'.todo = {}
    BY <1>7 DEF Passed, SealedOnes
  <2>2. QED
    BY <1>2, <1>7, <2>1 DEF Passed
<1>8. QED
  BY <1>3, <1>4, <1>5, <1>6, <1>7

LEMMA ServeDeriving ==
  ASSUME SealedOnes(Me), UNCHANGED <<row, report>>, SameWork,
         Me.pc \in Deriving, Me'.pc \in Deriving
  PROVE  SealedOnes(Me)'
<1>h. /\ \A e, v : HoldsSealed(e, v)' <=> HoldsSealed(e, v)
      /\ \A e : IsSealed(e)' <=> IsSealed(e)
  BY DEF HoldsSealed, IsSealed
<1>1. QED
  BY <1>h DEF SealedOnes, SameWork, Deriving

LEMMA ServeUpsert ==
  ASSUME Alone, TypeInv, SawInv, OneVersion(Me.version), SealedOnes(Me), UpsertEpoch(Worker)
  PROVE  (OneVersion(Me.version) /\ SealedOnes(Me))'
<1>t. Me.version \in Versions /\ Me.epoch \in Epochs
  BY AloneTypes
<1>m. /\ SameWork /\ Me.pc = "upsert" /\ Me'.pc = "report" /\ Me'.status = Me.status
      /\ report' = report
      /\ \A e \in Epochs \ {Me.epoch} : row'[e] = row[e]
      /\ row'[Me.epoch] = [status |-> Me.status, version |-> Me.version]
  <2>1. ~IsSealed(Me.epoch)
    BY UpsertMoves DEF SealedOnes, Deriving
  <2>2. QED
    BY <2>1, UpsertMoves
<1>h. \A e, v : HoldsSealed(e, v)' <=> HoldsSealed(e, v)
  BY <1>m DEF HoldsSealed
<1>1. OneVersion(Me.version)'
  <2>1. \A e \in Epochs : row'[e] = NoRow \/ row'[e].version = Me.version
    BY <1>m DEF OneVersion
  <2>2. QED
    BY <1>m, <2>1 DEF OneVersion, SameWork
<1>2. \A e \in Epochs \ {Me.epoch} : IsSealed(e)' <=> IsSealed(e)
  BY <1>m DEF IsSealed
<1>3. row'[Me.epoch].status = "sealed" <=> Me.status = "sealed"
  BY <1>m
<1>4. \A e \in Epochs :
        IsSealed(e)' => report'[e][Me.version].status = "sealed" \/ e = Me.epoch
  BY <1>m, <1>2 DEF SealedOnes, HoldsSealed
<1>5. SealedOnes(Me)'
  <2>1. row'[Me'.epoch].status = "sealed" <=> Me'.status = "sealed"
    BY <1>3, <1>m DEF SameWork
  <2>2. \A e \in Epochs : row'[e].status = "sealed" =>
          report'[e][Me'.version].status = "sealed" \/ Me'.epoch = e
    BY <1>4, <1>m DEF IsSealed, SameWork
  <2>3. Me'.job = "refresh" => Me'.todo = {}
    BY <1>m DEF SealedOnes, SameWork
  <2>4. QED
    BY <1>m, <2>1, <2>2, <2>3 DEF SealedOnes, Deriving, IsSealed, HoldsSealed
<1>6. QED
  BY <1>1, <1>5

LEMMA ServeReport ==
  ASSUME Alone, TypeInv, OneVersion(Me.version), SealedOnes(Me), PutReport(Worker)
  PROVE  (OneVersion(Me.version) /\ SealedOnes(Me))'
<1>t. Me.version \in Versions /\ Me.epoch \in Epochs
  BY AloneTypes
<1>m. /\ Me.pc = "report" /\ row' = row
      /\ Me'.version = Me.version /\ Me'.job = Me.job /\ Me'.todo = Me.todo
      /\ \A e \in Epochs, v \in Versions :
           report'[e][v] = IF e = Me.epoch /\ v = Me.version
                             THEN [status |-> Me.status, kind |-> Me.rev.kind]
                             ELSE report[e][v]
      /\ IF Me.status = "sealed"
           THEN Me'.pc = "seal" /\ Me'.epoch = Me.epoch /\ Me'.status = Me.status
           ELSE Me'.pc = "next"
  BY ReportMoves
<1>1. OneVersion(Me.version)'
  <2>1. \A e \in Epochs, x \in Versions : report'[e][x].status # "none" => x = Me.version
    BY <1>m DEF OneVersion
  <2>2. QED
    BY <1>m, <2>1 DEF OneVersion
<1>2. \A e \in Epochs : IsSealed(e) => report'[e][Me.version].status = "sealed"
  BY <1>t, <1>m DEF SealedOnes, HoldsSealed
<1>3. Me.status = "sealed" => IsSealed(Me.epoch)
  BY <1>m DEF SealedOnes
<1>4. SealedOnes(Me)'
  <2>1. Me'.pc \in {"seal", "next"} /\ (Me'.job = "refresh" => Me'.todo = {})
    BY <1>m DEF SealedOnes
  <2>2. Me'.pc = "seal" => row'[Me'.epoch].status = "sealed"
    BY <1>3, <1>m DEF IsSealed
  <2>3. \A e \in Epochs :
          row'[e].status = "sealed" => report'[e][Me'.version].status = "sealed"
    BY <1>2, <1>m DEF IsSealed
  <2>4. QED
    BY <2>1, <2>2, <2>3 DEF SealedOnes, Deriving, IsSealed, HoldsSealed
<1>5. QED
  BY <1>1, <1>4

LEMMA ServeSeal ==
  ASSUME Alone, TypeInv, OneVersion(Me.version), SealedOnes(Me), SealEpoch(Worker)
  PROVE  (OneVersion(Me.version) /\ SealedOnes(Me))'
<1>t. Me.version \in Versions /\ Me.epoch \in Epochs
  BY AloneTypes
<1>m. /\ Me.pc = "seal" /\ Me'.pc = "next" /\ report' = report
      /\ Me'.version = Me.version /\ Me'.job = Me.job /\ Me'.todo = Me.todo
      /\ \A e \in Epochs \ {Me.epoch} : row'[e] = row[e]
      /\ row'[Me.epoch].status = "sealed" /\ row'[Me.epoch].version = row[Me.epoch].version
  BY SealMoves
<1>1. IsSealed(Me.epoch)
  BY <1>m DEF SealedOnes
<1>2. OneVersion(Me.version)'
  <2>1. row[Me.epoch] # NoRow
    BY <1>1 DEF IsSealed, NoRow
  <2>2. \A e \in Epochs : row'[e] = NoRow \/ row'[e].version = Me.version
    BY <1>t, <1>m, <2>1 DEF OneVersion
  <2>3. QED
    BY <1>m, <2>2 DEF OneVersion
<1>3. \A e \in Epochs : row'[e].status = "sealed" => report'[e][Me'.version].status = "sealed"
  BY <1>1, <1>m DEF SealedOnes, IsSealed, HoldsSealed
<1>4. SealedOnes(Me)'
  BY <1>m, <1>3 DEF SealedOnes, Deriving, IsSealed, HoldsSealed
<1>5. QED
  BY <1>2, <1>4

LEMMA ServeStep ==
  ASSUME Alone, TypeInv, ClosedInv, SawInv, ServeInv, [Next]_vars
  PROVE  ServeInv'
<1> SUFFICES ASSUME crashes' = 0
             PROVE  (OneVersion(Me.version) /\ SealedOnes(Me))'
  BY DEF ServeInv
<1>c. crashes \in Nat
  BY EpochAssumption DEF TypeInv, TypeOK
<1>n. ~Die(Worker) /\ ~Restart(Worker)
  BY <1>c DEF Die, Restart
<1>7. Procs = {Worker} /\ ~RunByHand(Worker)
  BY AloneTypes, ProcAssumption DEF RunByHand
<1>m. \/ UNCHANGED vars \/ Advance
      \/ Launch(Worker) \/ LaunchFails(Worker) \/ Poll(Worker) \/ Begin(Worker)
      \/ Finish(Worker) \/ FetchFails(Worker) \/ InsertFails(Worker)
      \/ \E answered \in BOOLEAN : Fetch(Worker, answered)
      \/ \E log \in BobAnswers(Me.epoch), delta \in DeltaFinds(Me.epoch) :
           Derive(Worker, log, delta)
      \/ PutRevenue(Worker) \/ ReadRow(Worker)
      \/ UpsertEpoch(Worker) \/ PutReport(Worker) \/ SealEpoch(Worker)
  BY <1>n, <1>7 DEF Next, Control, Compute, Me
<1>s. OneVersion(Me.version) /\ SealedOnes(Me)
  <2>1. crashes = 0
    BY <1>m DEF vars, Advance, Launch, LaunchFails, Poll, Begin, Finish, FetchFails,
                InsertFails, Fetch, Derive, PutRevenue, ReadRow, UpsertEpoch, PutReport,
                SealEpoch
  <2>2. QED
    BY <2>1 DEF ServeInv
<1>v. ASSUME UNCHANGED <<row, report>>, Me'.version = Me.version
      PROVE  OneVersion(Me.version)'
  BY <1>v, <1>s DEF OneVersion
<1>1. CASE UNCHANGED vars \/ Advance
  <2>1. UNCHANGED <<row, report, proc>>
    BY <1>1 DEF vars, store, Advance
  <2>2. QED
    BY <1>s, <2>1 DEF OneVersion, SealedOnes, Me, HoldsSealed, IsSealed
<1>2. CASE \/ Launch(Worker) \/ LaunchFails(Worker) \/ Poll(Worker) \/ Begin(Worker)
           \/ Finish(Worker) \/ FetchFails(Worker) \/ InsertFails(Worker)
  <2>1. Me.pc # "report"
    BY <1>2 DEF Launch, LaunchFails, Poll, Begin, Finish, FetchFails, InsertFails, Me
  <2>2. /\ UNCHANGED <<row, report>> /\ Me'.version = Me.version
        /\ Listed \/ Polled \/ Begun \/ GivenUp \/ Passed
    BY <1>2, OutsideMoves
  <2>3. SealedOnes(Me)'
    BY <1>s, <2>1, <2>2, ServeOutside
  <2>4. QED
    BY <1>v, <2>2, <2>3
<1>3. CASE \/ \E answered \in BOOLEAN : Fetch(Worker, answered)
           \/ \E log \in BobAnswers(Me.epoch), delta \in DeltaFinds(Me.epoch) :
                Derive(Worker, log, delta)
           \/ PutRevenue(Worker) \/ ReadRow(Worker)
  <2>1. /\ UNCHANGED <<row, report>> /\ SameWork
        /\ Me.pc \in Deriving /\ Me'.pc \in Deriving
    BY <1>3, DerivingMoves
  <2>2. SealedOnes(Me)'
    BY <1>s, <2>1, ServeDeriving
  <2>3. QED
    BY <1>v, <2>1, <2>2 DEF SameWork
<1>4. CASE UpsertEpoch(Worker) \/ PutReport(Worker) \/ SealEpoch(Worker)
  BY <1>4, <1>s, ServeUpsert, ServeReport, ServeSeal
<1>5. QED
  BY <1>m, <1>1, <1>2, <1>3, <1>4

\* As long as nothing died, every sealed epoch that nobody is computing has a sealed
\* report of the running version to show, whatever its sources answered and in whatever
\* order the worker took it up (compute_epoch, store.py upsert_epoch, put_report).
THEOREM SealedAreCharted == Alone /\ Spec => []SealedIsCharted
<1>1. Alone /\ TypeInv /\ ClosedInv /\ SawInv /\ ServeInv /\ [Next]_vars => ServeInv'
  BY ServeStep
<1>2. Alone => Alone'
  BY DEF Alone
<1>3. ServeInv => SealedIsCharted
  <2> SUFFICES ASSUME ServeInv, crashes = 0, NEW e \in Epochs, IsSealed(e), ~Computing(e)
               PROVE  Charted(e, Me.version)
    BY DEF SealedIsCharted, SealedIsServed, Me
  <2>1. ~(Me.pc = "report" /\ Me.epoch = e)
    BY DEF Computing, Commits, Me, Procs
  <2>2. report[e][Me.version].status = "sealed"
    BY <2>1 DEF ServeInv, SealedOnes, HoldsSealed
  <2>3. QED
    BY <2>2 DEF Charted, Served
<1>4. QED
  BY <1>1, <1>2, <1>3, ServeInit, SawAlways, PTL DEF Spec
=============================================================================
