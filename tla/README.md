# TLA+ models of AdPulse

AdPulse takes advertising events over HTTP, cleans, joins and aggregates them with Flink, stores results in
ClickHouse, and serves them as *releases* that can be recomputed from an archive. This directory models the parts
where ordering, failure and concurrency decide whether the numbers are right.

    tlc -workers 2 -config Releases.cfg MCReleases      # any run of the table below
    tlapm ReleasesProofs.tla                            # the proofs, one module per component

## Inventory

| Component | Source | State | Operations | Interacts with |
| --- | --- | --- | --- | --- |
| Collector | `adpulse/collector.py` | one transactional Kafka producer behind a lock | accept a batch: raw records and a receipt manifest in one transaction | HTTP clients; topics raw, receipts |
| CleanJob | `CleanJob.java` | per event_id and per business key: expiry of deduplication (processing time) | validate, quarantine, filter, deduplicate twice | raw → clean, quality, quarantine |
| AttributionJob | `AttributionJob.java`, `Measurement.java`, `Rules.java` | ExposureJoin: impression, pending clicks; ConversionJoin: click, pending conversions, needs-replay mark; HistoricalDimension: campaign history; Aggregate: contributions, full row, next emission | join by event time, time out, count, signal, emit full rows | clean, CDC → results, quality |
| Sink worker | `worker.py`, `storage.py`, `deployment/clickhouse/init.sql` | consumer position; ClickHouse tables | consume, check, insert per table, commit | results, quality, receipts → ClickHouse |
| Archive | `archive.py`, archive role of `worker.py` | immutable data objects and manifests | put data, put manifest, verify, reconcile | raw, receipts, CDC → S3 |
| Archive index | `archive_index.py` | SQLite tables of verified records | refresh, coverage, packets, trace | S3, ClickHouse |
| Inspection | `inspection.py` | one snapshot file and one lock per role | inspect, publish atomically, read within an age | archive index, ClickHouse → API |
| Releases | `releases.py`, `deployment/postgres/init.sql` | tables releases, active_release, release_audit | register, publish snapshot, wait, validate, activate / roll back | Kafka, ClickHouse, PostgreSQL |
| Query API | `api.py`, `pagination.py` | semaphore; signed cursors held by clients | page, quality, trace, activate | releases, ClickHouse, snapshots |
| Oracle | `oracle.py`, `disk.py`, `reconciliation.py` | none that outlives a run | recompute all results from packets, compare | archive index, ClickHouse |
| Replay CLI | `cli.py` | none | select acknowledged packets, recompute, publish, activate | archive, oracle, releases |
| Generator, scripts, deployment | `generator.py`, `scripts/`, `deployment/` | — | synthetic data, drills, start-up | whole stack |

What is hard, and what makes each correct:

* **Releases** — processes race for a pointer, a status column and an audit table, with crashes and ambiguous
  commits. Correct when the three agree, only complete snapshots are served, and a served release stays as it is.
* **Sink** — at-least-once delivery with several requests per batch, late execution and replaced workers. Correct when
  nothing committed is missing, one offset has one content, one key has one partition, and what is shown moves forward.
* **Joins** — two inputs at different watermarks, timers racing elements, repeats, state that expires. Correct when
  punctual input gives the oracle's result, late input never gives a false match, differences are signalled, and
  state is bounded.
* **Aggregate** — contributions replaced by identity, two kinds of timer on one key. Correct when a row is the sum of
  its latest contributions and is frozen, not restarted, after its window.
* **Collector, CleanJob** — ambiguous commits, two deduplication layers. Correct when every acknowledged receipt gets
  exactly one disposition, and a repeat inside ten minutes counts once.
* **Archive, index, replay** — crashes between two puts, three reads that are not one transaction. Correct when a
  manifest is only ever visible with its data and a replay covers what it says it covers.
* **Inspection, API** — lock files, atomic replacement, clocks, leases. Correct when readers see whole, dated
  snapshots and pages of one cursor visit each key once.

## Modules

| Module | Models | Builds on |
| --- | --- | --- |
| `Releases` | publication, validation and activation of releases | — |
| `Sink` | sink workers, their consumer group, ClickHouse as they see it | — |
| `AttributionOracle` | the reference calculation for the events of one click | — |
| `AttributionJoins` | ExposureJoin and ConversionJoin for one impression and one click | `AttributionOracle` (instance) |
| `MetricRow` | abstract: what the metric rows promise their readers | — |
| `Aggregate` | HistoricalDimension and Aggregate for the contributions of one campaign | refines `MetricRow` (instance) |
| `Collector` | the collector's threads and their one transactional producer | — |
| `CleanJob` | Validate and the two Deduplicate operators | — |
| `Ingest` | clients → collector → raw topic → CleanJob → clean and quality rows | `CleanJob`, `Collector` (instance) |
| `ArchiveStore` | abstract: topics raw and receipts, and an archive whose objects stay | — |
| `Archive` | the archive worker: batches, data object, manifest, commit | extends and refines `ArchiveStore` |
| `Replay` | replay and reconciliation, which read the archive while it is written | `Archive` |
| `Inspection` | the archive index, the coverage inspection and trace | `ArchiveStore` |
| `Pages` | result pages: cursors, leases, query slots | — |
| `MC<module>` | instances for TLC | the module (`MCArchive`: `Replay`) |
| `<module>Proofs` | theorems, for `Releases`, `Sink`, `Aggregate`, `Ingest`, `Archive` with `Replay`, `Inspection`, `Pages`; `JoinsProofs` for `AttributionJoins` | the module, `TLAPS` |

Modules have *wrong variants*: forms of a step with a plausible bug (a dropped guard, a missing timer, a wrong order)
that show that the properties can fail. They are in no next-state relation.

**Releases.** `status`, `pointer` and `audit` are the three tables. A statement outside a transaction block is one
step. `releases.activate` is one transaction: each of its statements is a step (`TakeLock`, `ReadTarget`,
`ReadPointer`, `CommitSwap`), with row locks as guards, and its writes appear at the commit. A publisher is one
`replay --publish --activate` process: it reads the pointer, reads the baseline, registers, publishes in one Kafka
transaction, waits for the sink, validates and activates. Every early exit is an action: name taken, brokers
unreachable, abort, ambiguous commit (`commit_transaction` raises although the broker commits, and so does the abort),
time-out, rejection, crash. A metric row is its key; its values never decide which release is served. The rows of a
release's topic reach ClickHouse one at a time, in any order: `Sink` is the model of how.

**Sink.** A worker's loop is `Consume`, `CheckHashes` and `CheckRoutes` (the two lookups of `write_batch`, two reads of
ClickHouse between which others write), one `Insert` per table in the order of the code, `Commit`. A lookup may return
any one of several rows stored for an offset or a key. A batch whose hashes disagree stays where it is, one whose routes
disagree is looked up anew (`RefuseRoutes`). Other failures are those its `except` catches: a request refused
(`RequestFails`), a request without answer that may still run at any later time (`inflight`, `LateInsert`), a commit
without answer, a commit refused because the generation is over. `Crash` may come between any two of them. The consumer
group, the topics and the merges of the tables (`Merge`: results by key and version, deliveries and quality by offset)
are modelled as the worker depends on them. A topic is recreated (`Recreate`) while no worker runs; nothing orders that
with INSERTs that ClickHouse still executes. Records are `[key, value]`; rows are records with partition and offset,
which is what hashes, routes and `argMax` compare.

**AttributionJoins.** One impression_id and one click_id, so keyed state is a handful of variables named after the
state descriptors. Elements and watermarks travel in two FIFO channels into the union before `ConversionJoin`; its
watermark is the smallest one of the channels that are active and have caught up (`Hears`, what Flink's watermark
valve does). `SourceIdles` is `withIdleness`: idleness travels in both channels, and the next watermark ends it. Flink
emits the record that ends a silence before the watermark it causes, so records may arrive in a channel that still
counts as idle. An operator fires its due timers, in order of time, before it takes another element. Every branch
of `processElement` and `onTimer` is an action or a disjunct. Metric contributions are sets here; `Aggregate` is the
model of how they are counted. Attributes are reduced to what the code compares: user, campaign, time, and one value
`dims` for the dimensions a metric row is keyed by.

**AttributionOracle.** `calculate()` of the Python oracle for the same events, written from the Python code and
sharing no definition with the joins.

**Aggregate, MetricRow.** `HistoricalDimension` looks up the channel of a contribution in the versions that have come
so far and so picks the metric row, a pair of channel and window. In a row, `contributions` keeps each contribution
under its identity, and `CountsAs` replaces an earlier one of the same identity in the incremental `total`. A change of
a row registers a processing-time timer unless one is due (`EmissionTimer`), and the cleanup of its window in event time
(`CleanupTimer`), which shows the row once more and clears it. `Frozen` is the branch for contributions of a row whose
cleanup the watermark has passed. A `Restart` keeps state and timers and begins again with the lowest watermark, as
Flink does. In the refinement, `counted` is the set of contributions a row holds, `shown` its last output, `frozen` the
rows without a cleanup timer whose cleanup the watermark has passed.

**Collector, CleanJob, Ingest.** The threads of the collector share one producer under a lock. A request is `Post`,
`Begin` or `BeginRaises`, `Deliver` or `DeliverFails`, then `Commit`, `CommitRaises` or `CommitUnanswered`, and after
an error `Abort` or `AbortRaises`, whose own error the code drops. `producer` says whether the producer is ready, has a
transaction open (also after an abort that failed), or is stuck in a commit that may still be carried out
(`LateCommit`). Clients send the same events again under a new batch_id when they are answered 503 or not at all. In
CleanJob a raw record is rejected (`Rejects`), or goes through a Deduplicate keyed by event_id (`RefusesId`, `PassesId`)
and, over a channel, one keyed by business key (`RefusesKey`, `Cleans`). Each remembers a key until its processing-time
timer `Fires`; `Tick` is the clock. The verdict of validation is an attribute of the event. `Ingest` adds `normalize()`
of the oracle as reference definition.

**ArchiveStore, Archive.** A record is a pair of topic and offset, an object a set of records: its name is the hash of
its content. The worker's loop is `Consume`, `PutData`, `PutManifest`, `Commit`. After a request that raises
(`PutRaises`, `CommitRaises`: it may or may not have been carried out) the worker keeps its batch and archives it again from
the start. `Crash` goes back to the committed offsets, so that the next batch may be cut elsewhere. What readers rely on
is in `ArchiveStore`: objects have accepted records and stay.

**Replay.** Two tools read the archive and ClickHouse at three moments. `Lists` and `ReadsArchive` are the listing and
the reads of what it named, `ReadsReceipts` and `Calculates` the two queries of ClickHouse with the condition that
archive and lineage are complete; otherwise the tool `Refuses`. The tools differ in their scope: `replay --from-s3`
takes the receipts ClickHouse has, reconciliation adds those acknowledged in the archive. Packets are sorted by
`Received`, the order of their reception, which need not be that of the topic.

**Inspection.** `Start` takes the lock file, `Index` is the transaction of one manifest in SQLite, `ReadReceipts` and
`Covers` are the two queries and the coverage, `Publish` replaces the file and releases the lock. `Fails` publishes a
snapshot with status error from any step, `Dies` leaves the lock to the operating system. `TraceReadsSnapshot` and
`TraceAnswers` are the two reads of the trace endpoint, with inspections in between. The archive is `ArchiveStore`,
which `Archive` is proved to implement.

**Pages.** A request takes a query slot (`Acquire`), decodes and checks its cursor (`Decode`), reads a page (`Page`) or
raises (`Raise`). A client whose cursor is refused begins anew (`StartOver`). Meanwhile releases are activated, rows of
the live release change, time passes (`Tick`) and the API restarts with another cursor secret. `steady` and `ever` are
history: the keys that matched the filter all along and at some time during the walk.

## Runs

| Run | Question | Bounds | Result |
| --- | --- | --- | --- |
| `Releases.cfg` | is exactly one complete release served, with an unbroken audit, and is the lock always freed? | 3 releases, 2 publishers, 1 operator, 1 key, `MaxAudit` 1 | holds, 236 k states |
| `Releases_zero_fill.cfg` | does a new release carry a zero row for each key of its predecessor? | same, with symmetry | violated |
| `Sink_one.cfg` | what does the deployed single worker guarantee over crashes and changed topics? | 2 partitions, 2 keys, 2 values, 2 records each, 2 faults | holds, 1.7 M states |
| `Sink_many.cfg` | and several workers with late requests, rebalances and recreated topics? | 2 workers, 1 key, 2 records, 2 faults | holds, 222 k states |
| `Joins.cfg` | do the staged joins agree with the oracle, never match falsely, and forget in time? | 7 candidate events of 4 keys, 1 repeat or silence, watermarks to 6 | holds, 783 k states |
| `Joins_late_click.cfg` | is a click after a time-out always announced? | 3 events, watermarks to 6, retention 4 | violated |
| `Aggregate.cfg` | are rows sums of what was counted, as the oracle's, and is every update shown? | 2 contributions, 1 repeat of each, 3 versions of a campaign, 1 restart | holds, 52 k states |
| `Aggregate_restart.cfg` | does a row that was emitted and cleared stay as it is? | 2 contributions, 1 restart | violated |
| `Ingest.cfg` | do raw records come whole, are repeats refused as the oracle does, is everything classified? | 2 clients, 3 events, 2 batches, 1 crash, clock to 2 | holds, 85 k states |
| `Archive.cfg` | is everything archived, and does a replay calculate its scope exactly once? | 2 batches, objects of up to 2 records, 1 crash | holds, 415 k states |
| `Inspection.cfg` | are snapshots right in what they claim, and traces no older than they say? | 2 inspectors, 2 inspections, 2 batches | holds, 945 k states |
| `Pages.cfg` | does a walk give every key once, from one release, within its lease? | 2 clients, 2 releases, 3 keys, 1 slot, 1 restart, 1 change | holds, 1.0 M states |

Why the bounds are enough.

* *Releases*: a race needs two activations, a stale baseline two publications, and a rollback three entries of the
  audit; `MaxAudit` bounds when an operator may *start* a call, and a call may then wait for the lock until both
  publications are over, so rollbacks to a retired release do occur.
* *Sink*: an overwritten value needs two offsets of a key, a changed route two partitions, and each hazard one fault to
  cause it and one to disturb its repair.
* *Joins*: with an attribution window of 1, a wait of 2 and a retention of 3 (the least the constructor accepts), event
  times 1 to 4 put conversions before the click, at the closed edge and beyond it; watermarks to 6 pass every wait and
  the retention of impression and click. `MaxFaults` is shared by repeats and silences; that
  matches stay real and state expires with any number of both is proved.
* *Aggregate*: two contributions at the two times of a window of 2 are the least whose sum can be wrong, and a version
  that ends between them sends them to different rows. Watermarks to 3 close the window and pass the retention of 1.
* *Ingest*: a second batch meets whatever the first one left in the producer; a retry repeats both event ids and the
  business key they share. With a deduplication time of 2 the clock reaches the moment at which keys are forgotten.
* *Archive*: records of two batches are cut into objects in every way, with overlaps after the crash; the second batch
  was received first, so that a wrong order shows.
* *Inspection*: the lock needs two inspectors, a step back two inspections; one object holds a receipt's raw record
  with its manifest, and the other batch has its raw record and its manifest archived apart, in either order.
* *Pages*: a page of one row makes three pages; one slot is contended by two clients; a lease of 1 ends within the
  clock, and a lease renewed by the second page would show at the third. Of the replay's rows, one had another field in an
  earlier version, which must not match.

Fairness. `Releases!FairSpec` asks only that PostgreSQL answers statements of an open transaction: weak fairness on
each process's activation steps; nothing obliges a process to start or to survive. `Sink!FairSpec` asks that the
container is restarted, that a running worker polls and retries (its loops have no exit), and that the group rebalances
when a member joins or dies. Faults are bounded, so the sink gets quiet periods; without them a batch may be held for
ever, as the code intends. `Aggregate!FairSpec` asks that Flink fires registered timers; event time need not advance,
so nothing is promised of cleanups that are not due. `Ingest!FairSpec` asks that CleanJob goes on reading what is
committed; collector and clients owe nothing. `Archive` and `Replay` ask that the worker's loop goes on, and, strongly,
that S3 and Kafka do not refuse every put and every commit: a crash in between disables the step again. The joins,
inspections and pages have no liveness property: without new events the watermark rests and pending conversions stay
pending, as `docs/architecture.md` says; inspections and requests may fail any number of times.

Deadlock is not checked: publications end, and a bounded log, clock or last watermark stops the others.

## What the runs show

*Holds.*
* Activation is safe for racing first activations because of the advisory lock, and the unconditional
  `status='failed'` is harmless only because nobody else can validate a release that is being published.
* Writing hashes before outputs is what keeps a recreated topic from mixing contents, as long as no INSERT of the old
  topic is still running (`Drained`, see below). A late INSERT cannot bring an old value back, since readers take the
  largest offset.
* Unless the source was idle, punctual input always yields the oracle's statuses and counters; with silences too, a
  match is never false and state expires.
* A row that never restarts agrees with the oracle whatever the order of contributions, dimensions and timers, as long
  as no dimension changed under contributions already counted and nothing was refused as frozen. Every update has a timer.
* An abort whose error is dropped does no harm: the next begin raises, and no record of one batch ever becomes readable
  with the manifest of another. Two layers of deduplication, whose keys expire apart, refuse what one pass of the
  oracle refuses as long as nothing has expired; afterwards clean rows of a business key are a deduplication time apart.
* Putting the manifest after its data is what lets readers trust a listing. Redelivered records in other batches give
  overlapping objects, and replay removes what overlaps. A reconciliation covers all that the archive worker had
  committed before it began.
* A snapshot that claims completeness is right about all that was acknowledged in the archive when its inspection began,
  although ClickHouse is read later, twice. A trace is never behind the snapshot whose time it carries.
* A walk stays in its release when another is activated, and begins no page after the lease of its first. No error path loses a query slot.

*Does not hold.*
1. Zero rows come from the release that was active when the replay read the pointer (`cli.py:137`). Two overlapping
   replays: the second to be activated lacks zero rows for keys of the first (`PredecessorZeroed`).
2. The needs-replay limit is one value per click. A conversion dated before the click that arrives late replaces the
   limit of one that timed out; the mark is cleared early and the click arrives unannounced (`LateClickSignalled`).
   The run uses a retention of 4: the conversions must be less than retention minus wait apart, which is a day under
   the shipped rules.
3. Whether a row is frozen is decided by the watermark, which a restart sets back. Until events raise it again, a late
   contribution starts an empty aggregate for a row that was cleared, and its emission overwrites the full row
   (`HistoryKept`).

Noted while modelling, as limits of what the properties say:
* The conflict check knows what is stored, not what is still running. When an INSERT of deliveries gets no answer
  (`storage.py:144`) and the topic is recreated before ClickHouse executes it, the new batch passes the check, and then
  two contents are stored for its offsets; a merge of deliveries may keep the old hash, so that a committed one is gone.
  With a worker whose INSERTs may time out and without the condition `Drained` (no such INSERT when a topic is
  recreated) TLC finds both `OneContent` and `CommittedPersisted` violated; with it both hold. Whoever recreates a topic
  has to wait for ClickHouse. `sink_one` has no INSERT in flight, and the theorems state the condition.
* After a silence of every partition, the input of `ConversionJoin` that is first to be active again sets its watermark
  alone (`RuntimeConfig.java:55`, `AttributionJob.java:240`). If the backlog behind the silence spans more than the
  join wait, events that the source read on time are late for the operator. `OnTimeAgreement` is therefore conditioned
  on a source that was never idle.
* The identity under which `converted_clicks` is counted once works within one metric row. Without an impression the
  row's region and app version come from the conversion (`Measurement.java:33-46`), so a click that converts from two
  app versions adds one to each row, where the oracle adds one in all and `docs/architecture.md:67` says once. The
  theorem `ClickConvertsOnceCorrect` shows that events on time count a click twice in no other way.
* A late conversion whose click has been forgotten is decided without any signal (`AttributionJob.java:113`).
* `replay --from-s3` leaves out receipts that are acknowledged in the archive but not yet in ClickHouse, where
  reconciliation includes them; `ReconcileComplete` is about the latter only.

Two limits that documents state are visible in the model too: a repeat beyond deduplication can change a conversion
that was decided late, and a conversion dated before its click may be reported `CLICK_NOT_FOUND` where the oracle says
`CLICK_AFTER_CONVERSION`. Agreement is therefore stated for statuses and counters, not for reasons.

## What is proved

For every value of the constants, from the ASSUMEs of the modules:

| Module | Theorems | Assumptions |
| --- | --- | --- |
| `ReleasesProofs` | `TypeOK`, `OneActive`, `AuditChain`, `ServableComplete`, `ServableStays`, `ServedRowsFrozen` | `Live` is a release, `None` is nothing else, publishers and operators differ |
| `SinkProofs` | `TypeOK`; if `Drained`, `CommittedPersisted` and `OneContent`; if `RoutesKept`, `OneRoute` and `ShownMovesForward` | every key has one kind of record and one partition to begin with |
| `JoinsProofs` | `TypeOK`, `StateExpires`, `MatchesAreReal`; `OnTimeUnitsCorrect`; if `SameDimensions`, `OnTimeAgreement` and `OnTime => ClickConvertsOnce` | retention ≥ attribution + wait (`Rules.java`), finitely many events, one business key each for impressions and clicks, last watermark past every wait, `None` is no click and no association |
| `AggregateProofs` | `TypeOK`, `RowsImplemented`, `RowsAgree`; `HistoryKeptUntilRestart` | finitely many contributions with values and times in `Nat`, a window > 0 |
| `IngestProofs` | `TypeOK`, `RawHasManifest`, `CleanedApart`, `AgreesWithNormalize` | deduplication time > 0, no client sends an empty batch |
| `ArchiveProofs` | `TypeOK`, `ManifestHasData`, `CommittedArchived`, `StoreImplemented`; `ReadersOnlyRead`: `ReplaySpec => Spec`; of `ReplaySpec`, `ScopeExact` and `ReconcileComplete` | batch size > 0, batches are sequences of receipts; for `ReplaySpec`, a receipt names one place in one batch and `Received` lists each once |
| `InspectionProofs` | `TypeOK`, `ClaimHolds`, `TraceAgrees`, `SnapshotForward` | `None` is no inspector and no snapshot |
| `PagesProofs` | `TypeOK`, `LeaseBounded`, `WalkComplete` | page size, slots and lease > 0, finitely many clients |

Each module has one inductive invariant `Inv` (`InvCorrect`; `InvInit` and the step lemmas, one per action, are its
halves), from which the properties follow. What each one adds, and why:

* **Releases.** A process at `swap` acts on what it read, so `Inv` says that the advisory lock is held exactly by the
  process inside a transaction (`LockHeld`), that what it read is still current (`ReadsCurrent`), that a release under
  publication belongs to one publisher and is still building (`TargetOwn`, `StillBuilding`), and that a replay topic is
  filled once and the sink only shows what is in it (`TopicFilledOnce`, `ServableDrained`).
* **Sink.** Whatever happens, batches and committed positions lie in the log (`Base`). A commit is safe if the whole
  batch is stored, so `Inv` follows a batch through the tables: all before it is persisted (`FromPersisted`), and so is
  each part of it whose INSERT has returned (`InsertedStored`). Merges of deliveries keep one row per offset, so this
  rests on offsets having one content, which is `Contents`: each table holds a part of deliveries, deliveries have one
  content per offset, and rows in hand or in flight agree with them. That is where `Drained` is needed. `OneRoute` and
  `ShownMovesForward` do without it, since every row stored or in flight was in some log (`Bounded`), but need `Routed`: a
  key that a partition sends has all its rows and those in flight there, or the only worker has checked that before it
  writes. It is proved under `RoutesKept`: topics keep their partitions, or there is one worker whose INSERTs are
  answered. Outside it TLC finds a counterexample even with one worker: an INSERT of a process that is gone runs after
  its successor has read the routes of a repartitioned topic.
* **Aggregate.** `Sound` says that a total is the sum of the contributions it remembers, that what a row shows is that
  sum or a timer is set, and that a row's state is there or cleared as a whole. Sums are folds over sets; the lemmas that
  adding a contribution adds its value are proved without induction, by a least set that would refute them (`LeastSet`).
  `RowsAgree` adds `Agreed`: what a row remembers is of that row under the versions of its dimension that are known.
* **Joins.** A match happens long after the click came, so `Inv` says that what an operator holds has arrived
  (`Held`), that it has the timer that will clear it (`TimersKept`), that an input's watermark is one the source said
  before (`Caught`), and that associations and decisions follow from clicks that arrived (`Linked`).
  `OnTimeAgreement` needs two more while all is on time. `Prompt`: a channel delivers each event before a watermark that
  would refuse it, and `ConversionJoin` is behind both channels. `Agreeing`: clicks carry the oracle's impression
  (`Enriching`); nothing is decided that a later event on time could change (`Patient`); what arrived is counted or on
  its way (`Accounted`); what waits for a click that has passed would not match it (`WaitsInVain`); and what is counted
  is what the oracle says of the events so far (`RightSoFar`). The oracle's answer changes with each arrival, and the
  heart of the proof is that none of the answers already given changes (`ClickInTime`, `AgreeingImpression`,
  `NoneMissed`). `OnTimeUnitsCorrect` states the agreement without a hypothesis for statuses and all counters but
  `converted_clicks`; that one needs `SameDimensions` (conversions in one campaign are measured in one row), which is
  what the limit noted above is about.
* **Ingest.** `CollectorSound` ties lock, open transaction and readable records together: what is pending is of the
  batch at work, will be dropped by an abort, or is a whole batch whose commit got no answer (`PendingSound`), and a
  batch before its commit has no readable manifest (`Uncommitted`). `CleanSound` says
  that every remembered key has a timer (`Timed`) and that clean rows and remembered keys are apart (`Spaced`).
  `AgreesWithNormalize` adds `PassSound`. Before the first expiry there is a code for each record read, "between" for
  one that waits for the second layer, such that the rows are those of the decided records (`Placed`), a record that
  repeats an id is refused for it (`Sorted`), a key has one clean record and others only after it (`KeysApart`), and
  each layer remembers exactly what passed it (`Known`). When all is decided an order for the oracle is given
  outright: clean records with what came before them under their id, then the rest (`PassAgrees`). That these codes
  are what the oracle's recursion computes follows from the least number at which they would differ (`PassFacts`).
* **Archive.** All the worker consumed is archived or in its hands (`ConsumedKept`), and its batch ends at its position
  (`BatchEnds`), so that a commit covers no more than was put (`PutSoFar`). `StoreCorrect` is the refinement of
  `ArchiveStore`; with `ReadersOnlyRead` all of this holds beside a replay. A reader has its own invariant,
  `ReaderInv`: a receipt is in the raw topic once (`RawOnce`, though a retried batch has other receipts), what a reader
  was promised is in the objects it listed, and its rows are records of the archive, each once (`RowsVerified`).
  `ScopeExact` then rests on `ArrangedFacts`: sorting a finite set gives each member once and in order. It is proved
  without induction: the place of a member is the number of members before it, and these places are an injection into
  a set of the same size.
* **Inspection.** Coverage is computed by one step and published by another, while archive and ClickHouse grow:
  `ScanSound`, `SnapshotSound` and `TraceSound` say that what was claimed then is still true.
* **Pages.** Release and expiry pass from a walk to its request and from a cursor to the next: `LeaseOf` holds of all
  three (`CursorSound`, `RequestSound`), and a walk under way always has a cursor to go on with (`WalkSound`).
  `WalkComplete` adds `Visited`: until a walk ends it has given, in order, every key up to its cursor that matched all
  along, and none beyond it. A page extends that because it is the first matching keys after the cursor, in order
  (`PageFacts`), and one extra key is asked for to know whether there are more.

Every safety property that a passing run checks is thereby proved, five of them under a condition that the table
names. Only model-checked is liveness (`LockFreed`, `AllPersisted`, `AllShown`, `AcknowledgedClassified`,
`EverythingArchived`): fairness is outside the prover's reach.

## Not modelled, and why

* Schema validation, encoding and SQL text: no state of their own. What validation says of an event is an attribute.
* Values of metrics beyond sums; the operations snapshot of inspection, which has the coverage snapshot's protocol and
  figures that relate to no other state; the audit flag and storage limits of the archive index.
* `LocalObjects`, `LocalSnapshotStore`, `replay --local` and the demo: one process, one thread, no failure handling.
* `archived_dimensions` and the disk-backed collections of the oracle: storage of the same calculation.
* Checkpoint and RocksDB settings, Debezium, and Flink, Kafka, PostgreSQL and ClickHouse inside, other than what this
  code relies on.
* Generator, benchmarks, drills and migration scripts: sequential, run by hand, and what they do to the system goes
  through the components above. Metrics and gauges.

## Plan

1. `ResultView`: the table readers see, one row per key that moves forward; `Sink` shown to implement it from `Shown`.
2. Two sink workers with a topic that is repartitioned, where one key may be in two batches at once.
3. The operations snapshot and the dimensions reader, if they come to relate to other state.
