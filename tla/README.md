# Verification of qubic-decentralization-report

TLA+ models of the report's ingest worker, the store it writes and the pages it
serves, checked with TLC on small instances and, for the core, proved with TLAPS
for every value of the constants. Paths below are relative to the repository
(`qdr/store.py:456` is line 456 of that file).

## 1. The system

One container runs two kinds of processes on one SQLite file in WAL mode:

* the **ingest worker**: `scripts/worker.sh` runs `scripts/ingest.py` once per job
  (backfill, refresh of stale epochs, burn seed, first mining sample, export) and
  then for ever with `--watch`; beside it, in a process of its own, an hourly burn
  backfill; inside the watch process, two sampler threads (mining, price);
* the **API process** (`api/server.py`): reads the store, never writes it, and hosts
  the tick stream hub.

An operator may run `scripts/ingest.py` by hand next to both.

| component | state | operations | what makes it hard |
|---|---|---|---|
| epoch lifecycle (`pipeline.compute_epoch`, `finalize`, `backfill`, `build_timeseries`; `Store.upsert_epoch`, `put_revenue`, `put_report`, `seal_epoch`, `stale_epochs`, `get_report`) | tables `epochs`, `computor_revenue`, `reports`; Bob's log files | derive an epoch, seal it, re-derive it under a new version, serve it | five commits per epoch; sources that fail or answer early; several processes; upgrades; crashes |
| burn series (`pipeline.scan_burns`, `backfill_burns`, `backfill_burns_days`, `missing_burn_days`; `burn.scan_range`; `dating`) | `burn_buckets`, `burn_scan_state`, `day_ticks`, `burn_backfill_runs` | live scan, rescan, hourly backfill, done check | two writers, budgets, gaps, an index that lags, two commits per pass |
| price series (`Store.put_price_reading`, `reject_prices`, `rollup_price_hours`, `price_at`, `prune_price`; `price_echo`) | `price_points`, `price_rejects`, `price_hours` | poll, judge echoes, heal, fold, repair, prune | intervals extended and merged in place, folding again of hours that are partly pruned, a commit for each step |
| trend lines (`pipeline.update_trendlines`, `replay_trendlines`; `trendlines`) | `price_trendlines` | end, revive, replace, put, replay | one commit per line; a pass must be repeatable |
| mining samples (`antnode.collect`, `Store.put_mining_sample`, `prune_mining`) | `mining_samples`, `mining_epochs` | ask, sample, summarise, prune | two questions to two nodes, summaries recomputed from rows that may be pruned |
| tick stream (`tickstream.TickHub`) | ring of ticks, details, subscribers, node health | connect, poll, ingest, subscribe, switch node | out-of-order and repeated ticks, full queues, failover |
| RPC and Bob clients (`client`, `bob`) | disk caches | fetch, retry, cache | answers that change after they were cached, processes that share the files |
| API (`api/server.py`) | a dictionary per cached endpoint | look, read, answer, store | a pool of threads without a lock, several looks per request |
| views of the price record (`Store.price_days`; `price_days`, `price_average` of the API) | none | days, calendar, average | days nobody watched, days cut by the reach of a query |
| clustering and metrics (`clustering`, `metrics`) | none | assign slots, indices | one confidence for slots that differ, thresholds |
| report, dashboard, task files and wire formats, scripts for images and builds | none | format | none of it writes the store |

How they interact: every component of the worker reads the RPC or Bob through the
clients and writes its own tables; the API reads all tables. The epoch lifecycle
and the price series share no table, the trend lines and the views read the price
series' hours, the burn series' two writers share everything they have, and the
clients of all processes share one cache directory. The ring of ticks takes what the
node in use delivers, and does not know which one it is.

What each component has to get right is stated by its properties (section 3);
the hazards, each at its line, are in `PROJECT.json`.

## 2. Modules

| module | models | role |
|---|---|---|
| `SealedHistory` | the rule at the top of `qdr/store.py`: an epoch is open, closed, sealed, in that order | abstract specification |
| `EpochLifecycle` | the epoch lifecycle, its callers, its processes | detailed specification; `RefinesHistory` is its refinement |
| `MCEpochLifecycle` | values of its constants | for TLC |
| `EpochLifecycleProofs` | theorems about `EpochLifecycle` | for TLAPS |
| `BurnSeries` | the burn series and its two writers | checked directly |
| `TickStream` | the ring of live ticks, its streams and the page that resumes them | checked directly |
| `TickNodes` | the choice of the node the ticks come from | checked beside `TickStream` |
| `MCTicks` | the two halves of `TickHub` | composition, for TLC |
| `TickProofs` | theorems about `TickStream`, `TickNodes` and `MCTicks` | for TLAPS |
| `PriceSeries` | intervals, echoes and hours of the price record | in `MCParts`, and alone in `PriceRepair` |
| `TrendLines` | the rule of the trend lines and their archive | in `MCParts` |
| `TrendProofs` | theorems about `TrendLines` | for TLAPS |
| `PriceViews` | days, calendar and moving average | in `MCParts` |
| `PriceProofs` | theorems about `PriceSeries` and `PriceViews` | for TLAPS |
| `MiningSamples` | the mining record | in `MCParts` |
| `SeriesProofs` | theorems about `BurnSeries` and `MiningSamples`, which share nothing | for TLAPS |
| `RpcClient` | a call through retries and the shared cache directory | in `MCParts` |
| `ApiCache` | the answers the API holds between requests | in `MCParts` |
| `CacheProofs` | theorems about `RpcClient` and `ApiCache` | for TLAPS |
| `Concentration` | clusters of computors and the concentration of revenue | in `MCParts` |
| `ConcentrationProofs` | theorems about `Concentration` | for TLAPS |
| `MCParts` | the parts that share no state, side by side | composition, for TLC |
| `SetOrderTheorems` | lemmas about the least and the greatest of a set of numbers, folds over finite sets, and sums | used by five of the proofs |

### EpochLifecycle

*State.* `row`, `revenue`, `report` and `newest` are the tables `epochs`,
`computor_revenue` and `reports`; `logCache` the files `end_epoch_<e>.json`; `chain`
the network's epoch. `proc[p]` is one process: `pc` says which commit of
`compute_epoch` comes next, the other fields are its locals (`job`, the loop's
remaining epochs `todo`, what `current_epoch()` answered, what was derived).

*Actions.* `Launch` is everything `main` does before it picks epochs; `Poll`,
`Begin`, `Finish` the loops of `--watch` and `backfill`; `Fetch`, `Derive` the reads
of `compute_epoch`, and `PutRevenue`, `ReadRow`, `UpsertEpoch`, `PutReport`,
`SealEpoch` its commits. `upsert_epoch` is two steps: its `SELECT` runs outside a
transaction, because Python's `sqlite3` begins one only at the first statement that
writes, and `Store._lock` is a lock within one process. `InsertFails` is the
`INSERT` that meets a row inserted since the `SELECT`. `put_transfers`,
`put_linkage` and `put_clusters` are left out: no property reads them.

*Data.* A revenue figure is what the properties can tell apart: nothing, some
payouts, all computors paid although the epoch had not settled (`early`), settled
with one computor at zero (`short`), settled with all paid (`final`). Amounts,
identities and the linkage are abstracted away.

*Failures.* Every source may fail at every call: the RPC at launch
(`LaunchFails`), the computor list (`FetchFails`), `current_epoch()` alone (`Fetch`
with `answered = FALSE`), Bob's log (`"none"`), the probe of Bob (`BobUp`). A
process may die between any two commits (`Die`), the container may restart with
the same image or another (`Restart`, `Upgrades`).

### BurnSeries

*State.* `buckets`, `scan`, `dayTicks`, `runs` are the four tables; `live` and
`fill` the locals of a live pass and of a backfill; `head` the chain's tick,
`indexed` the one Bob has indexed; `skipped` what the live scan reported as
`skipped_undatable`. A bucket holds the set of burning ticks it has counted, so
"counted twice" is two buckets that share a tick.

*Actions.* `LiveStart`, `LiveScan`, `LivePut`, `LivePoint` are `scan_burns` from its
reads to its two commits; `FillStart`, `FillDate` (one commit per day), `FillScan`,
`FillPut`, `FillMark` are `backfill_burns_days` and `backfill_burns`. `Rescan` is
`--burn-scan --burn-from`. A tick that is not indexed answers with an empty log.

*Abstractions.* The wall clock's day is the day of the newest tick. Bisection by
timestamps finds the first tick of a day exactly: `dating` is correct when every
tick carries a timestamp, which is assumed. Ordinary tick logs carry no time, so a
live pass finds events of one day, the one it runs on. Bob serves the whole chain
(`initialTick` is 1).

### TickStream

*State.* `buffer` and `details` are the hub's two containers, `buffer` in the order
of ticks and `details` in the order of insertion; `accepted` is a history variable,
the ticks taken since the last clear. `page[p]` is one ticks page: its stream (`pc`,
`sub`, `q`, what is left of the backlog) and what the page remembers (`got`, `last`,
the browser's `id`).

*Actions.* The hub runs on one event loop, so an action is what happens between two
awaits. `Receive` is one delivered tick through `ingest`: refused, a bare tick's
content filled in (`Upgrade`), or taken and fanned out (`Accept`). `Connect`,
`ReadBacklog`, `Send`, `Close` are `ticks_stream`, which subscribes in the handler
and reads the backlog when the response starts; `Poll` is `ticks_recent`. `Idle`
ends the upstream, `EnsureRunning` starts it again, on an empty ring if the gap was
long enough.

The ring is described by what it holds: `Sorted` inserts a tick where it belongs,
`EntriesAt` and `Recent` pick the entries at a set of places, counted, as the code's
sorts and slices do.

*Abstractions.* A tick is its number and whether its content is known. A node or
feed delivers what it likes of the last `MaxLate` ticks, and of ticks too old for
the ring; which node it is is the matter of `TickNodes`.
`RingAssumption` says that the ring is more than twice as long as deliveries are
late: 300 against the 120 ticks (`LAG_TICKS`) that a node in use may lag. It is
needed: `details` forgets in order of insertion, so that with two slots and a
lateness of one a tick still in the ring is taken a second time
(`DetailBehindEveryTick` and `NeverSentTwice` fail).

### TickNodes

*State.* `task` holds the fields of `TickHub` that the failover uses (`downUntil`,
`netTick` and `netAt`, `nodeHead`, `aliveAt`, `failures`, `pollUntil`) and its next
step; `health` says of each node what is true of it: well, frozen (it answers, with
the tick it stopped at) or dead. One unit of time is `HEALTH_EVERY_S`, in which the
network makes one unit of ticks; all limits are in that unit.

*Actions.* `Pick` is `_pick_node`, `OpenSocket` and `Stream` are `_run_ws`,
`PollOnce` the poll mode, `Resume` the end of a wait or of the bare feed, `Checked`
(in `Stream` and `PollOnce`) `_check_health` with `_network_tick` in it, which may
fail to read the network's tick. `Turn` freezes, kills or heals a node.

`PollAssumption` says that polling outlasts two rounds of the stall clock (300 s
against 30 s); `StaleAtMost`, the time within which a node that stopped is left, is a
round of the stall clock for each socket that may fail, and for the polling before or
after them.

### PriceSeries

*State.* `points`, `rejects`, `hours` are the three tables; `pc` and `echoFrom` the
sampler's place in its loop. Histories: `heard`, what was read in each minute and not
set aside since, and `polled`.

*Actions.* `Repair` and `Rebuild` are what each start does, `Sample`, `Echoes`,
`Refold`, `Roll`, `Prune` the commits of a pass, `Sleep` the minute between two.
`Stop` may come between any two of them, `SetBack` sets the host's clock back. The
detector (`FrozenRows`), the healing (`Healed`) and the fold (`RollUp`) are operators,
translated in full: an echo is nothing the model decides, it is what the code finds in
the readings. `Put` and `Written` are the upserts of one row and of many.

### TrendLines

*State.* `bars`, the hours on record; `lines`, the table `price_trendlines`.

*Actions.* `NewHour` brings an hour, `Update` is a pass of `update_trendlines`,
`UpdateStops` a pass that stops between two of its commits, `Correct` narrows a stored
hour, as taking out an echo does, and replays the archive. A pass is the sequence of
its commits (`Commits`), so that "between two of them" is a prefix.

*Data.* A bar is at the time of its index; prices of lines are compared after
multiplying with the distance of the anchors, exactly.

### PriceViews

The record grows by an hour, watched or not; days, calendar (`Calendars`) and average
(`Averages`) are operators on it, as the store's query and the two endpoints compute
them. Averages are fractions; highs, lows and closes are left out. A list of rows in the
order of their days is a function from the days, and a cut at its newest n the days that
have fewer than n after them (`Newest`).

### MiningSamples

`AskColony` and `AskEpoch` are the two questions of `collect`, between which the
network may turn to another epoch and which another node may answer; `Store` is the
transaction of `put_mining_sample`, `PruneSamples` the pruning when it is due and the
sleep. `filed` and `rewritten` are histories.

### RpcClient

*State.* `files`, the cache directory: a path's file is absent, torn or holds an
answer. `calls[c]` is one call of `_get`, in any process; `given` is the history of what
the server answered with status 200.

*Actions.* `Ask` up to the first request, `Request` one request, `OpenFile` and
`FillFile` the two halves of `write_text` (each may fail, which the code forgives),
`Killed`. What the server answers, and for how long it is busy, is an input.

### ApiCache

One endpoint is in view, any of the eleven that cache (`Endpoints`); they differ in
whether they have one slot or an entry per question, how often they look at it, what
they do when it is full and whether they may fail. A request is `Look`, `Check`,
`Again`, `Read`, `Empty`, `Save`, interleaved with those of other threads and with
time. An answer is what it was read for, and when.

### Concentration

One step assigns a computor, as the loop of `cluster_epoch` does. The coefficients are
operators over weights and compare fractions exactly. The code sorts the weights and
adds the first ones; here `Place` says where a weight comes in that order and `Largest`
which are the first n, so that nothing depends on how equal weights are sorted. The
weights of clusters are listed under their first slot. `AttributedSlots` follows the
code's `len(computors) or 1`: without any computor it says one.

### MCParts and MCTicks

The parts in `MCParts` share no state in these modules, and neither do the two halves
in `MCTicks`: `part` (`half`) picks the one that moves, the others stay as they began.
The states add up and do not multiply, and every property is checked on every state
of its part.

## 3. Runs

All bounds are constants in the `.cfg` files; every run finishes within two or three minutes.

| run | instance | checks | what it shows |
|---|---|---|---|
| `EpochShared` | 2 epochs, the worker and one operator with `--backfill --force`, 1 crash | `TypeOK`, `SettledFiguresOnly` | no interleaving of two processes' commits seals or completes an unsettled figure |
| `EpochUpgrade` | 2 epochs, the worker alone, versions v1 then v2, 2 crashes or restarts, logs frozen while the epoch ran, balance deltas | `SealedReportStays`, `RefinesHistory` | over retries and re-derivations the worker never rewrites a sealed report or takes a seal off |
| `EpochLive` | 3 epochs, 1 version, 1 crash, fairness | `ClosedIsSealed`, `SealedIsCharted` | the epoch before the last is sealed in the end; without a crash a sealed epoch can always be shown |
| `BurnSeries` | 5 ticks in days of 3, chunks of 2, backfill of 2 days, gaps, 1 crash, a rescan from tick 1 | `TypeOK`, `ScannedIsCounted`, `CountedStaysCounted`, `RecordedRunIsCounted` | neither writer loses a burn; pointer and run marker tell the truth |
| `BurnFair` | 6 ticks, every tick burns, fairness | `FinishedDaysCounted` | the days of the window are filled in the end |
| `TickStream` | 5 ticks, a ring of 3, lateness 1, a queue of 2, one page; beside it 2 nodes that turn well, frozen or dead twice within 11 units of time | `TicksTypeOK`, `BufferIsNewest`, `DetailBehindEveryTick`, `NothingFallsBetween`, `NeverSentTwice`; `StoppedNodeIsLeft`, `WellNodeIsKept`, `BareFeedEnds` | late, repeated and bare deliveries never disorder the ring or reach a viewer twice, a stream has no hole behind its backlog; a node that stopped is left, a well one kept, and the bare feed gives way |
| `Parts` (price) | 6 minutes in hours of 2, two prices, one missed minute, one stop or clock set back | `PartsTypeOK`, `ReadingsAnswered`, `HoursHoldEveryReading`, `NoEchoInHours`, `NoHoles`, `PollRatioIsShare` | what was read is answered and lies in its hour, over extending, healing, folding again and pruning |
| `Parts` (trend) | 10 hours of 3 shapes, 3 of which differ, 2 scales, one pass that stops or one corrected hour | `OneActive`, `StoppedPassHeals`, `AnchoredOnRecord` | the archive has one line of a kind, and the pass that follows a stop brings it where an undisturbed one does, unless an older line was to come back |
| `Parts` (views) | 10 hours in days of 3 | `CalendarTellsWhatWasSeen`, `CompleteIsComplete` | days nobody watched, or cut by the query, are never told as moves or averaged in |
| `Parts` (mining) | 3 epochs of which 2 are kept, 4 seconds, one restart | `PeakIsHighest`, `NewestAreWhole` | pruning and late samples cost no epoch its peak, and no kept epoch a sample |
| `Parts` (client) | 2 calls at a time, 3 in all, 3 attempts, 2 answers | `ReturnsWhatWasGiven` | no error body, half-written file or other path's answer is returned |
| `Parts` (cache) | 2 threads, 3 requests, 3 questions, a TTL of 2 | `FreshUnlessMarked`, `AnswersTheQuestion`, `CacheBounded` | no interleaving answers with old data or another question's, unless the slot was overwritten between two looks |
| `Parts` (conc) | 4 computors, one operator, one owner, revenues 0, 1 and 3 | `ClustersPartSlots`, `DetectedIsExact`, `NakamotoIsSmallest`, `ClusteringNeverSpreads` | the clusters and what is told of them follow from the slots, in any order |
| `EpochRace` | as `EpochShared`, `--epoch N` by hand | `SealStays` (violated) | finding 1 |
| `EpochCrash` | 2 epochs, 1 crash | `SealedIsServed` (violated) | finding 2 |
| `BurnTwoWriters` | 6 ticks, no failure at all | `CountedOnce` (violated) | finding 3 |
| `TickResume` | 4 ticks, a backlog as long as the ring | `ResumeSkipsNothing` (violated) | finding 4 |
| `PriceRepair` | the price part, 7 minutes | `RepairSettles` (violated) | finding 5 |

*Why the bounds are enough.* Two epochs give one closed and one running epoch,
which is what every job distinguishes; the third epoch of `EpochLive` lets an epoch
fall out of the watch loop's reach. Two versions are an upgrade. One crash splits
one sequence of commits, the second one of `EpochUpgrade` also the repair. In
`BurnSeries` a window is at least two chunks and two days long, the budget is
smaller than the window, and the lag bound is within reach, so that every way a
pass can end occurs. In `TickStream` the network produces two ticks more than the
ring holds, so both containers evict, in different orders; the queue is shorter than
the ring, so a slow viewer is dropped; a second page would meet the first one only
through `Idle` and the clear. Two nodes are the one in use and the one to turn to;
two turns let both stop, or one stop and come back; polling for five units keeps to
`PollAssumption`, and eleven units hold the longest stay on a stopped node.

In the price part two prices a tenth apart make each change a jump, the echo's window
is three minutes and two returns freeze, so four readings make an echo; one hour is
folded while the one before it can still be corrected, a third one lets the roll-up's
span pass and the pruning bite. The trend part's pivots need one bar on each side, so
three tips give two lines that share an anchor, one that takes over and one that
comes back. In the cache part two threads overtake each other in every way two can,
and one more request finds what they left. In the mining part the network names an
epoch before, at or after the count's.

*Fairness.* `FairSpec` of `EpochLifecycle`: the network moves on, the worker's
control flow does (worker.sh starts the next job, the supervisor loop restarts the
watch loop, which polls without end), and infinitely many attempts on an epoch are
answered: strong fairness of an answered `Fetch` and of a `Derive` that finds the
settled log. Neither asks that an attempt is answered, only that a source that is
asked for ever is not down for ever. `EpochLive` fixes `RunningLogs = {"none"}`: if
Bob's cache froze a partial log of the running epoch (see below) the epoch is never
sealed, and `ClosedIsSealed` fails. `FairSpec` of `BurnSeries`: chain, index and
both loops go on; the instance has no gaps and no crash.

`CHECK_DEADLOCK FALSE` in the burn runs: the chain stops at `MaxTick`, and when the
scan is up to date nothing is left to do; in the tick runs it stops there too, and
every other part ends at its bound.

## 4. Findings

1. `EpochRace`: `upsert_epoch` reads the status outside the transaction that writes
   it, so a process that saw `partial` can downgrade a row another one has sealed.
   For the worker alone the seal is never lost; that is the theorem below.
2. `EpochCrash`: the row is sealed one commit before the report is written; after a
   crash in between no job looks at the epoch again.
3. `BurnTwoWriters`: the backfill's last range is the running day, which the live
   scan writes too; a bucket that straddles the range's end stays beside it.
4. `TickResume`: a tick sorted in below what a page has seen, while the page is
   away, is left out of the stream it resumes, although the ring holds it.
5. `PriceRepair`: the repair of the price record is not idempotent, as its comment
   says: healing changes the rows the next check reads, so a second repair finds more.

Further disagreements seen while modelling, each reproducible by the change named:

* An epoch still partial when the next one closes is not retried by the watch loop
  (`qdr/store.py:15` "stays 'partial' and is retried"): `ClosedIsSealed` asks only
  for the last closed epoch.
* `--epoch N` re-derives a sealed epoch without `--force`, against
  `scripts/ingest.py:17`.
* `--backfill --force` under the running version overwrites a sealed report, against
  the docstring of `backfill`: add `SealedReportStays` to `EpochShared`.
* `--refresh-stale` with a failing source puts a partial report of the new version
  in front of the sealed one of the old (`Charted` is lost over the upgrade).
* `BobClient.end_epoch_logs` caches a running epoch's log as soon as one transfer is
  in it: give `EpochLive` the `RunningLogs` `{"none", "some"}`.
* When `bob.status()` fails, `scan_burns` passes ticks that are not indexed: give
  `BurnSeries` `StatusUp = {TRUE, FALSE}`, and `ScannedIsCounted` fails.
* A rescan from beyond the pointer (`--burn-from`) moves the pointer past what was never
  scanned: give `BurnSeries` `Rescans = {5}`, and `ScannedIsCounted` fails.
* A crash between bucket and pointer, then a scan cut short by a gap, leaves two
  overlapping buckets of the live scan alone (`CountedOnce` with `FillDays = 0` and
  one crash).
* A live pass across midnight files the last ticks of a day under the next.
* `missing_burn_days` takes the span between a day's first and last bucket for what
  is covered, so a hole between two buckets is not seen.
* A trend line that was replaced is revived although it is broken in the youngest bars;
  the next pass ends it. A pass that follows a stop may therefore differ from an
  undisturbed one in the lines of that scale and kind, and `StoppedPassHeals` says so.
* A pass that stops after it revived an older line and before it ended the younger one
  leaves both active for good: the next passes take the older one for the current one
  (`active[row["kind"]] = row` over rows newest first) and find nothing to end. The
  docstring of `update_trendlines` calls it idempotent (`qdr/pipeline.py:728`), and
  `docs/CONCEPT_TRENDLINES.de.md:245` allows four active lines a scale. Only a break or
  a replay ends the younger. `StoppedPassHeals` without its exception fails in a
  simulation with 16 hours of eight heights and a second scale that looks back 7 hours.
* A clock set back opens an interval inside the confirmed one before it, or overwrites
  one; `ReadingsAnswered` and `HoursHoldEveryReading` are stated for a clock that is not.
* Two passes in one minute make the fold's intervals overlap by a second.
* A roll-up fills the time between two intervals with the first one's price, hours
  nobody watched included (`scripts/ingest.py:94-97` says a gap stays a gap), and a
  rebuild folds the first hour again from the points that were not pruned.
* A stop between a repair's `rebuild_price_hours` and its replay is not made up for:
  the next start finds nothing to reject and replays nothing.
* `Store.price_days` leaves out the hour that cuts the oldest day only while enough
  days are on record; with two whole days missing a day cut midway is returned, and
  counts for an average. The calendar then shows "first" though an earlier day was seen.
* `ws_failures` is not reset while a socket streams ("in a row", `qdr/tickstream.py:851`),
  and a well node goes after sockets that reconnect in silence, because its last tick
  is then old; `WellNodeIsKept` says so much and no more.
* The RPC client's cache file is filled in place: a process killed in between leaves
  half of it, and every later call raises `ValueError`, which no caller expects. With
  `offline` set, what is always asked raises though it is cached.
* A slot of the API that is overwritten between two looks of a request answers with an
  old entry (`mining`), or with another question's (`price_epochs`); a late read
  overwrites a newer entry; requests that find the same old entry all query a node
  (`api/server.py:491-493` "collapsed into one query").
* `antnode.collect` may file an epoch's last count under the next one, where it stays
  the peak; a second stored again under another epoch leaves the old row's summary, and
  a late sample of a pruned epoch rewrites its last count (`qdr/store.py:1106`).
* A registry that names part of what the chain links to one owner splits that owner
  (`qdr/clustering.py:14`), as `tests/test_report.py` asserts, and
  `onchain_linked_slots` counts declared slots of a cluster that is also linked.

## 5. Proofs

Eight modules hold theorems, one of them (`SetOrderTheorems`) only lemmas the others
share. The only facts used about the constants are the modules' named assumptions, and
for some theorems the one named in the last column.

`EpochLifecycleProofs`, for any number of epochs, versions, operators and crashes:

| theorem | statement | assumption |
|---|---|---|
| `TypeCorrect` | `Spec => []TypeOK` | none |
| `SealedMeansClosed` | a sealed row, a sealed report, a complete revenue table belong to an epoch before `chain` | none |
| `EpochImplementsHistory` | `Spec => RefinesHistory` | no operator beside the worker (`Alone`) |
| `SettledFigures` | `Spec => []SettledFiguresOnly` | no source answers `early` (`NoEarlyFigures`) |
| `SealedReportsStay` | `Spec => SealedReportStays` | `Alone`; no deployment goes back to a version that ran before (`NoRollback`) |
| `SealedAreCharted` | `Spec => []SealedIsCharted` | `Alone` |

`SeriesProofs` on the burn series, for a chain and days of any length, any burns, budgets, gaps and
crashes, under every interleaving of the two writers:

| theorem | statement | assumption |
|---|---|---|
| `BurnInvHolds` | `Spec => []BurnInv` | `bob.status()` answers when asked (`Answering`) |
| `NoBurnIsLost` | `Spec => CountedStaysCounted` | `Answering` |
| `RunsTellTheTruth` | `Spec => []RecordedRunIsCounted` | `Answering` |
| `PointerTellsTheTruth` | `Spec => []ScannedIsCounted` | `Answering`; rescans start at the first tick (`FromTheFirst`) |
| `BurnTypesHold` | `Spec => []TypeOK` | none |

`TickProofs`, for a network and a ring of any size, pages and nodes without number, and
any setting that keeps to `RingAssumption` and `PollAssumption`:

| theorem | statement | assumption |
|---|---|---|
| `RingHoldsNewest` | `Spec => []BufferIsNewest` | none |
| `DetailsBehindTicks` | `Spec => []DetailBehindEveryTick` | none |
| `SentOnlyOnce` | `Spec => NeverSentTwice` | none |
| `StreamsLoseNothing` | `Spec => []NothingFallsBetween` | none |
| `StoppedNodesAreLeft` | `NodesSpec => []StoppedNodeIsLeft` | none |
| `BareFeedsEnd` | `NodesSpec => []BareFeedEnds` | none |
| `WellNodesAreKept` | `NodesSpec => WellNodeIsKept` | none |
| `TicksTypeCorrect` | `TicksSpec => []TicksTypeOK` | none |

`HalvesAreTheirOwn` says that the composition `MCTicks` does in each half what the half
does alone, which carries the theorems over to what the run checks.

`PriceProofs`, for any prices, spans, minutes missed, stops, and whatever the echo
detector finds; and for days of any length, any hours a day must have, and calendars,
windows and spans of any size:

| theorem | statement | assumption |
|---|---|---|
| `ReadingsAreAnswered` | `PriceSpec => []ReadingsAnswered` | none |
| `PollsFitTheSpan` | `PriceSpec => []PollRatioIsShare` | none |
| `HolesLieInFront` | `PriceSpec => [](ReachesBack => NoHoles)` | `ReachesBack`: an interval on record begins by each minute polled within the kept span |
| `HoursShowNoEcho` | `PriceSpec => []NoEchoInHours` | none |
| `HoursHoldWhatWasHeard` | `... => []HoursHoldEveryReading` | `WindowHoldsRolls`, `[]RefoldsWhole` |
| `CalendarTellsTheDay` | `ViewSpec => []CalendarTellsWhatWasSeen` | none |
| `CompleteAveragesAreWhole` | `ViewSpec => []CompleteIsComplete` | none |

`TrendProofs`, for any bars, scales, lookbacks, passes that stop and hours corrected:

| theorem | statement | assumption |
|---|---|---|
| `LinesRestOnBars` | `TrendSpec => []AnchoredOnRecord` | none |
| `OneLineActive` | `TrendSpec => []OneActive` | none |
| `StoppedPassesHeal` | `TrendSpec => []StoppedPassHeals` | none |

`CacheProofs`, for any number of calls, paths, answers and attempts of the RPC client,
and for each cached endpoint of the API, any number of threads and questions and any
TTL:

| theorem | statement | assumption |
|---|---|---|
| `ClientInvHolds` | `ClientSpec => []ClientInv` | none |
| `OnlyGivenAnswers` | `ClientSpec => []ReturnsWhatWasGiven` | none |
| `GivesUpAfterAttempts` | `ClientSpec => []GivesUpInTime` | none |
| `CacheInvHolds` | `CacheSpec => []CacheInv` | none |
| `AnswersAreFresh` | `CacheSpec => []FreshUnlessMarked` | none |
| `AnswersAreAskedFor` | `CacheSpec => []AnswersTheQuestion` | none |
| `DictionariesStaySmall` | `CacheSpec => []CacheBounded` | none |

`SeriesProofs` on the mining record, for any number of epochs, of epochs kept, of
samples and of restarts:

| theorem | statement | assumption |
|---|---|---|
| `MiningInvHolds` | `MiningSpec => []MiningInv` | none |
| `PeakIsKept` | `MiningSpec => []PeakIsHighest` | none |
| `PruningSparesTheNewest` | `MiningSpec => []NewestAreWhole` | none |

`ConcentrationProofs`, for any number of computors, operators and owners and any
revenues:

| theorem | statement | assumption |
|---|---|---|
| `ClustersPart` | `ConcSpec => []ClustersPartSlots` | none |
| `DetectedCounts` | `ConcSpec => []DetectedIsExact` | none |
| `CoefficientIsSmallest` | `ConcSpec => []NakamotoIsSmallest` | none |
| `ClusteringConcentrates` | `ConcSpec => []ClusteringNeverSpreads` | none |

*Argument for the epochs.* `TypeOK` is not inductive by itself: `JobAfter` is applied to a
launching process' job, so the invariant adds that only the worker is ever
launching and only with its three jobs (`JobInv`). Sealing waits for the network:
`ClosedInv` says of a process between the read of `current_epoch()` and its commits
that what it read is at most `chain` (or stands in for the epoch itself, then the
epoch counts as running), and that a status "sealed" it carries is that of an epoch
behind `chain`; since `chain` only grows this survives every interleaving, and the
tables inherit it. `SettledInv` says the same of the figure's kind, from the fact
that an answer about a closed epoch is never early. The refinement adds `SawInv`:
between its `SELECT` and its `UPDATE` nobody else writes the worker's row. This is
where `Alone` is needed, and `EpochRace` shows that the theorem is false without it.

That a sealed report stays as it is (`KeptInv`) follows from what the worker computes at
all: never an epoch that has a sealed report of its own version. Backfill and finalize
look at the row, which is sealed before its report is; `--refresh-stale` picks epochs
without a report of the version or whose row names another one, and a sealed report has
left its version in the row. The last holds only if a version that was replaced does
not come back, since `stale_epochs` compares versions for inequality: `NoRollback` says
that the versions can be ranked so that every upgrade goes up. `EpochUpgrade` with
`Upgrades` both ways violates `SealedReportStays`. `SealedIsCharted` speaks of runs
without a crash, in which one version does everything, so that nothing is stale and no
sealed epoch is computed again (`ServeInv`).

*Argument for the burns.* A bucket may be superseded only by one that has all its burns.
Two facts give that: a bucket counts burns of its own span only (`SpansHold`), and what
a writer is about to put holds every burn of the span it is put over. The second is
what the rest of `BurnInv` follows through the passes: a live pass stays below what is
indexed (`LiveSound`), so that nothing it scanned was still missing from the logs; the
same for the backfill, whose ranges hand over to each other without a hole
(`FillSound`, `BehindCounted`, and `RangeFacts` about days of any length). A step of
one writer disturbs nothing the other relies on, since what is counted stays counted
(`FillStays`, `LiveStays`). The pointer adds that what lies between it and a pass'
start was reported (`GapReported`). Both assumptions are needed: see the entries on
`bob.status()` and on rescans in section 4. The types need neither, but their own
invariant (`TypeInv`): where a pass stands in its window, with the window on the chain.

*Argument for the ring.* Ring and details let go of different ticks: the ring of its
lowest, the details of those inserted first. `RingOrder` says that the ring ascends and
that an accepted tick it does not hold is older than all it does; `DetailsInv` that the
details came in an order that is out by no more than a tick may be late, and still hold
every tick that may be delivered again. With `RingAssumption` a tick pushed out of the
details is then older than all that may come, and those pushed out of the ring cannot
be taken a second time. `PagesInv` says of a stream that what the ring holds from the
stream's first tick on it has got, has in its backlog or has in its queue; a
stream whose queue is full is unsubscribed in the same step.

*Argument for the nodes.* `StoppedNodeIsLeft` bounds a sum of waits. `Deadline` names, for
every step of the hub, the last moment at which a node that is silent from now on may
still be in use: what is left of the stall clock, a round of it for each socket that
may still fail, polling, and one tick from before the stop that may be heard late. No
step moves the deadline of a stopped node beyond `StaleAtMost` (`Leaving`). A first
version of the bound was too small; the proof did not go through, TLC found the longer
stay with more time, and the bound in the module is the one proved.

*Argument for the prices.* `Series` says of the intervals that none reaches beyond the start of
the next; `Answered` adds that what was heard within the kept span stands in the last
interval that began by then. Extending keeps it because the clock moves on, setting an
echo aside because its moments leave `heard` and the interval before it is extended
over none that was heard, pruning because only what ended before the span goes. For
`PollsFitTheSpan` counting from the first interval is not enough, as pruning
and healing take any prefix and any middle away: `CountInv` says it of every suffix, that
the polls from any interval on fit the time from its start to the last end, with one to
spare for each stop. All are stated for a clock that is not set back, as the
properties are. `Unbroken` says of what lies behind the first start that every minute
polled is covered; healing merges the interval before an echo over it, so a hole can
only open in front, where there is no interval before. `HolesLieInFront` says just
that, and `ReachesBack` is its condition.

*Argument for the price hours.* An hour is `Clean` when its four figures are prices of
intervals that stood in it. A fold makes it so (`FoldWrites`), and extending or pruning
leaves it so; taking an echo out does not, so between that commit and the refold
`EchoInv` claims only the hours before the first echo, and that the record reaches up to
that echo, so that the refold meets every hour behind it. A fold that finds no interval
leaves the row it finds: this is why hours over must be reached by the record once it
begins before them (`HoursOver`). The hour the record begins in is left out, as in the
property, since its first points may have been pruned. `HoldInv` adds the other
direction. What was heard is shown however long ago (`HeardShown`), beyond the window of
`ReadingsAnswered`, and lies within its hour's bounds (`HeardHeld`) unless nothing is
stored or on record before that hour. Two conditions remain: the window outlasts the
roll-up (`WindowHoldsRolls`, 90 days against two), and no refold starts in front of what
is on record (`RefoldsWhole`), which could only be when an echo's interval were longer
than the window. The second is not derived: it would need a bound on the length of an
echo, which the detector does not give.

*Argument for the client.* `ReturnsWhatWasGiven` says nothing of the files a call may
read, nor of what a call under way is about to write. `ClientInv` adds both: a file
that is neither absent nor torn holds an answer given for its path (`FilesGiven`), and
a call that opens or fills a file has an answer (`CallSound`). `given` only grows, so
a step of one call leaves the others sound (`OneCall`), and every action is shown to
be a step of one call (`OneCallKeeps`).

*Argument for the cache.* The properties speak of an answer given; `CacheInv` follows it
back. An entry is dated no later than its data was read and lies under the question the
data answers (`Sound`, `HeldSound`), so an entry that is young enough holds data that
is; what a thread saw or read is sound in the same way and no older than its request
(`SawSound`). A thread looks at a slot up to three times, and between two looks others
may overwrite it: `SlotAsSeen` says that it is still as the thread saw it unless
`raced` says otherwise, which is the exception both properties make. The size of a
dictionary is bounded with the threads about to write, as each of them will add an
entry without looking again (`SizeInv`).

*Argument for the mining record.* `PeakIsHighest` is not inductive, since a row is folded
from the samples present. `SamplesFiled` says that each of them was filed under its
epoch, so the highest of them is no higher than the highest filed; `PeaksFiled` that the
peak stored was filed and tops all that was. Together the higher of the two is the
highest filed. For `NewestAreWhole` the same fact says that every epoch with a
sample has a row: an epoch that pruning takes for outdated, because enough newer ones
have samples, has as many newer rows, and is not among the newest.

*Argument for the concentration.* `ConcInv` says that each cluster is made of the slots
with its key, with the sum of their revenue and the strongest of their confidences. What
the reports count over clusters is a sum over parts that share no slot, which is the sum
over the slots (`AddedParts`). That the n largest weights are together at least as
heavy as any n is an exchange: what such a set has beside the largest weighs no more
than what it lacks of them (`LargestMost`). So a coalition beyond a threshold can be
replaced by the largest of its size, and the clusters of the n largest slots, no more
than n, hold at least what those hold (`ClustersHoldMore`).

*Argument for the trend lines.* `TrendInv` says that the archive is a table of rows,
that every row's anchors are tips of the bars on record, and that each scale has one
active line of a kind unless a pass stopped. Anchors: a pass stores only lines it found
(`ChangesListed`), which lie between pivots of the bars (`DetectedOnBars`, where one of
the lines that held must be shown to beat all others), and no other commit touches an
anchor (`ApplyIs`); so they hold after every beginning of a pass's commits, and hours
that follow take none away (`AnchoredOn`). One active line: the commits of a scale are
computed from the table before the pass, but applied after those of the scales before
it. `LinesOne` therefore speaks of two tables and needs only that the second has no
active line of the scale the first has not; what takes over is active alone
(`ChangesOne`), and no scale's or kind's commits make a line of another active
(`ActivesGrow`). A replay is passes over longer and longer beginnings of the hours, from
nothing (`ReplayKept`), so it also ends what an earlier stop left.

*Argument for a pass that stopped.* `NumberedInv` adds that the rows are numbered from 1
without a gap or a repeat, also after every beginning of a pass (`PassNumbered`), so that
a new row's number says only how many rows there are. A pass is cut into blocks: for each
scale the ends of its broken lines, and then for each kind no more than three commits
(`ScaleBlocks`, `Block`). What ends a broken line is the same a second time (`Cleared`);
what a kind commits depends on the lines of that scale and kind alone (`KindAlike`). It
is then enough to look at one kind: its line may stand, come back, be new or be missing,
and for each of these and each place a pass can stop `KindHeals` shows that the next
pass reaches the same rows, or that a line which came back, older or broken,
excuses the difference. `ScaleHeals` and `PassHeals` put the kinds and scales together;
they carry along that both archives have the same rows, so that lines found later get
the same numbers in both.

*Argument for the views.* The state is only the record, so the work is in the operators.
Of n newest days there are n, unless there are fewer, and what is newer than one of them
is one of them (`NewestCount`, `NewestUpward`, from the places of the days,
`NewestPlaces`). From a day on that is read whole every day with a reading has its row,
made of all its hours (`WholeRows`); a watched row is of a day that was watched, cut or
not (`RowsTell`). For the calendar this must hold of every day it shows, which is where
it matters that the record is kept up: the last day read then reaches to the running
hour, and the query two days further back than the newest that are shown
(`ShownAreWhole`).

*Only model-checked.* Liveness (`ClosedIsSealed`, `FinishedDaysCounted`) is out of
the prover's reach, and `PartsTypeOK` joins types of parts that are proved each on its
own where a proof needs them. `NoHoles` is proved under `ReachesBack` only: without it
the first interval kept, taken out as an echo, leaves a hole, for which the checked
instance is too small. `GivesUpInTime` is proved and in no run.

## 6. Plan

1. `EpochLifecycle` with its abstract history, runs and proofs; `BurnSeries`,
   `TickStream` with their runs (done).
2. `PriceSeries`, `TrendLines`, `PriceViews`, `MiningSamples`, `RpcClient`,
   `ApiCache`, `Concentration`, `TickNodes` and their two compositions (done).
3. Proofs of every module (done, but for the properties named at the end of section 5).
4. Open: a bound on an echo's length, from which `RefoldsWhole` would follow.

## 7. Not modelled

* `price_change`, the epoch boundaries and the payout study read the price record once
  and store nothing; the revenue histogram, Gini and HHI are sums over one epoch's figures.
* The day scale of the trend lines (a third list of bars for the same rule) and the
  channel, which is derived when it is served.
* The condensing of a tick to what a viewer is shown, and the on-demand read of a detail.
* `report` puts the other parts' figures into one document; `apply_flags` is not called
  by the pipeline.
* The balance sweep, the transport of `bob`, the wire formats of `antnode`, the task
  files of `antask` and `contracts`: parsing, and caches of answers that never change.
* The dashboard apart from the page that resumes the tick stream; the scripts that build
  pages, icons and samples.

`PROJECT.json` lists each with its sources.
