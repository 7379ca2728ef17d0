# A verification project for handuflow-core

handuflow runs batches of *feeds*: each feed copies one source (files, an API, a
Delta table, a query) into one Delta table, by one of several load types, guarded by
data quality checks and followed by reports and retention. This directory holds
TLA+ models of its core, TLC configurations that check them on small instances,
and proofs of the most important results for instances of every size.

All source paths below are relative to `src/src/handuflow/`.

## 1. Inventory

### Components, their state and operations

| Component | State | Operations | Correct when |
|---|---|---|---|
| `orchestrator/` (Orchestrator, run_guard, result) | status, phase errors, load results, DQ manifest | `run`, `_validate_and_load`, `_finalize_run` | no result is lost, gates hold, the finally block runs whatever fails |
| `data_load_controller.py` | groups, thread pool, gathered and published results | `run`, `__run_group`, `__execute` | groups never overlap; one result per feed; bounded workers |
| `load_dispatcher.py` | one `LoadResult` | `dispatch` | every outcome of a strategy becomes a result, none escapes |
| `base_load_strategy.py` | staging tables `t_full`, `t_incr`, `t_incr_cdf_changes` with partitioning and properties; the target's `data.load_type` | the two `_create_…staging_layer`, overwrite, rebuild, `_enforce_load_type_consistency` | "unchanged" is only concluded when it is true; staging describes the source |
| `load_types/full_load.py` | target | `load` | the target is a whole snapshot, at least as recent as the run |
| `load_types/incremental_cdc.py` | target | `load` | the target equals `t_full`, row for row |
| `load_types/append_load.py` | target | `load` | every row new in `t_full` is appended once, in order; the target only grows |
| `load_types/scd_type_2.py` | target with a row per version of a key | `load` (create and fill, or close and insert) | one active version per key, equal to its row of `t_full`; history never lost |
| `load_types/api_extractor.py` | bronze table; attempt number | `load`, retry loop | every run ends; its error code is true of the answers |
| `load_types/storage_fetch.py` | bronze table; path walked so far | `load`, walk to the newest drop | what is loaded is no older than what was there |
| `audit_columns.py`, `load_integrity.py` | — | projections, row hashes, checks | schemas fit; empty sources are refused |
| `data_quality/` | manifest of verdicts | pre-load, post-load checks | a failing check blocks its feed and no other |
| `validation/` | result of the rules, master specs | `validate` | invalid specs never start a batch |
| `system_restore/restore.py` | tables of restore points and of audit rows | create, list, details, initiate | points are complete and restorable; the audit tells the truth |
| `system_cleanup/cleanup.py` | — | retention of logs, files and Delta tables | nothing younger than the retention goes |
| `config/`, `result_generator/`, `data_flow_diagram_generator/`, `exception/`, `api.py` | — | pure functions and I/O | — |

### How they interact

`api.py` builds an Orchestrator. It validates the specs, hands the bronze feeds and
later the approved medallion feeds to a DataLoadController each, which calls one
LoadDispatcher per feed from a thread pool; the dispatcher calls a load strategy.
Strategies share nothing in memory: they communicate through Delta tables, one feed's
target being another's source, and through the properties of those tables. The
restore service and the cleanup act on the same tables, from other processes and
after the batch. Nothing coordinates them but Delta's atomic commits.

### What is hard

- Commits to a source while it is staged, because DataFrames are lazy and scan again
  for each action (`base_load_strategy.py:184`, `:715`).
- Failures and crashes between two commits: the stamp that says "this version is
  loaded" and the load itself are different commits to different tables.
- Overwrites (`base_load_strategy.py:245-260`) drop a table and give it a new Delta
  history; version numbers kept elsewhere (stamps, restore points) then name
  something else.
- Order and loss of results in a thread pool; an exception on the calling thread.
- Verdicts used after what they were about has changed (pre-load checks, retention).
- Row events that exist for one run only: whatever ends that run between the MERGE
  into `t_full` and the target (a failure, a rebuild for a new partitioning) loses them
  (`base_load_strategy.py:777`, `append_load.py:73`, `scd_type_2.py:93`).
- Two MERGEs for one change of a history (`scd_type_2.py:160`, `:184`), and a retention
  that deletes by age what is still current (`cleanup.py:185-199`).
- Two conditions to give up a request (`api_extractor.py:159`, `:171`), and a
  directory tree that grows while it is walked (`storage_fetch.py:125-128`).

`PROJECT.json` lists each of these hazards at its line with the properties about it.

## 2. The modules

| Module | What it is | Checked by | Proved in |
|---|---|---|---|
| `LoadBatch` | abstract: what a caller of a controller relies on | as a property of `DataLoadController` | |
| `DataLoadController` | groups, pool, collection | `MCDataLoadController` | `Orchestration_proofs`, part 1 |
| `BatchRun` | one orchestrator run over two `LoadBatch`es, with data quality | `MCBatchRun` | `Orchestration_proofs`, part 2 |
| `FullLoad` | a FULL_LOAD feed, run repeatedly | `MCFullLoad` | `FullLoad_proofs` |
| `MedallionChain` | two `FullLoad`s, the target of one being the source of the other | `MCMedallionChain` | |
| `StagingLayer` | keyed staging, common to three load types | with its users | `StagingLayer_proofs` (lemmas) |
| `IncrementalCDC` | an INCREMENTAL_CDC feed over `StagingLayer` | `MCIncrementalCDC` | `IncrementalCDC_proofs` |
| `HistoryTable` | abstract: what a target that keeps history promises | as a property of the next two | |
| `AppendLoad` | an APPEND_LOAD feed over `StagingLayer` | `MCAppendLoad` | `AppendLoad_proofs` |
| `SCDType2` | an SCD_TYPE_2 feed over `StagingLayer`, with the retention of the cleanup | `MCSCDType2` | `SCDType2_proofs` |
| `BronzeIngest` | an API_EXTRACTOR or STORAGE_FETCH feed, with the upstream job | `MCBronzeIngest` | `BronzeIngest_proofs` |
| `SystemRestore` | restore points, restores, writers and VACUUM | `MCSystemRestore` | `SystemRestore_proofs` |

### How state and actions correspond to the code

- **DataLoadController.** `state[f]` is where a feed is between the data frame and
  the list of results; `produced` is what its dispatch returned or raised, `executed`
  the list `__execute` builds, `published` is `load_results_list`. `StartGroup`,
  `TakeFeed`, `FinishFeed`/`DispatchRaises`, `Collect` and `EndGroup` are the life of
  a `__run_group`; `Collect` is the body of the `as_completed` loop with its handler,
  or, for a group of one feed, line 117, which has none. `sort_values` is not stable,
  so the order inside a group is left open.
- **FullLoad.** One action per commit or read of a table, in the order of
  `_enforce_load_type_consistency`, `_create_full_load_staging_layer` and
  `FullLoad.load`. Contents are abstracted to *which source commit was copied* and
  *how many rows it had*: that is all the properties tell apart. An overwrite is two
  steps (`PurgeStaging`, `SaveStaging`; `PurgeTarget`, `SaveTarget`) because a crash can
  fall between them. `Fail` is an exception or a crash at any step.
- **StagingLayer, IncrementalCDC.** Contents are functions from keys to values, so
  that inserts, updates and deletes can be told apart. `MergeRows` is the staging
  MERGE, `RowEvents` what its change data feed yields, `ApplyEvents` the MERGE into the
  target. `Live` records that after a first load the code holds lazy scans of the
  source, not copies. An overwrite is one step which a failure may leave half done.
  Staging breaks off in two ways (`FailStaging`): it raises, or a row has no value in a
  partition column (`NullPartition`, for a partitioning that names one), which is logged
  and ends the run with success and skipped.
- **HistoryTable, AppendLoad, SCDType2.** A target that keeps history is a sequence of
  versions per key, in the order in which commits added them. For APPEND_LOAD a
  version is an appended row; for SCD_TYPE_2 it is a row with its activity and with
  `expired`, all that is kept of the timestamps: whether the last modification is past
  the retention. `AppendInserts` is the filter of `prepare_append_inserts`;
  `CloseVersions` and `InsertVersions` are the two MERGEs with their conditions, where
  equal hashes are equal values; `InitialVersions` is the fill of a new target, which
  the code makes in two commits (`CreateTarget`, `FillTarget`). `RebuildTarget` is the
  early return after a change of the partitioning. `Expire` lets the retention pass
  between two runs, `Retention` is the cleanup's DELETE: `Unexpired` keeps the versions
  that are not expired, in the order they had (`InOrder`). `HistoryTable` has an action
  per kind of change a reader may see: a version per key added at the end, versions
  closed, some expired ones deleted, the whole table lost (the drop of an overwrite).
- **BronzeIngest.** The two load types that need no staging. An answer of the API is
  its status (below 400, in `retry_statuses`, any other), whether its type is right,
  and its Retry-After; `NoAnswer` is a `RequestException`. `Retryable` sleeps and goes
  on after the last attempt as well, `Refused` gives up there, as the two branches of
  `__fetch_response` do. For a landing directory `dirs` and `files` are what the
  upstream job has created; `Walk` is one `os.listdir` and one name made from a number,
  so commits of the upstream job fall between the levels; a directory made from a
  number is not found if its name has leading zeros, and a name that is no number
  raises. Neither a payload nor a drop is looked into: the table is where it came from.
- **BatchRun.** `pc` is the phase. A controller is the abstract `LoadBatch`;
  `LoadFeed` finishes one feed and writes its table. A check is a verdict on the rows
  the table has at that moment. `errors` is `_phase_errors`, `manifest` is
  `dq_runner.results`.
- **SystemRestore.** `table[t].log` is the Delta history of a table's present life;
  an entry names the contents and when they were replaced. An overwrite is `Drop` and
  `Create`, which starts a new life; in between, captures, validations and restores find
  no table. `Vacuum` removes contents by age; the history still names them, which is why
  validation cannot see it. A session creates a point entry by entry; a request is
  validated and then restored table by table. Each call has the master specs it is made
  with (`MasterSpecs`), so what a point must contain may have changed since it was
  created; the retention is read when `SystemRestore` is constructed, which is taken to
  be when a point is begun. Only the loop of RESTOREs is in the code's try block, so
  besides `RestoreFails` a request can be cut short by an exception of the validation
  (`ValidationRaises`), by one of any audit update (`AuditRaises`, in `Reject`, `Accept`,
  `RestoreFails` and `Complete`), or by the death of the process (`Crash`), each of which
  leaves the audit row as it is; `cut` records which of them it was.

History variables (marked in the modules) record what no variable of the code does:
`lost`, `begunAt`, `raced`, `disturbed`, `loadedFrom`, `lowest`, `arrivals`, `known`,
`fresh`, `changed`, `torn`, `purged`, `answers`, `begun`, and the contents and lives
noted in rows of restore points, and `cut`. No guard of the code's actions reads them.

### Assumptions

- A `selection_query` reads `source_table_name` and no other table. (A query that
  joins others is only re-run when that one changes; a query without a
  `source_table_name` is outside the models.)
- `BatchRun`: nobody but the feeds of the run writes the tables; specs that passed
  validation parse; within a batch the order of feeds is open (more than the
  controller allows).
- `SystemRestore`: the specs and the configuration of a call do not change while it
  runs, and the same names are meant by them in every call; Delta's history is not truncated during the modelled time; VACUUM
  removes files of contents that no version of the last `hours` hours used; tables in
  a list are worked off in any order; DELETE and OPTIMIZE are writes.
- `AppendLoad`, `SCDType2`: a run is shorter than the retention, so no version expires
  within one; the retention is applied between runs, as `_finalize_run` does.
- `BronzeIngest`: an upstream job names a number in one way (never `7` and `07` in the
  same directory) and removes nothing; the bronze table has no other writer. The
  files of a drop are those of its type (`*.<file_type>`); file 1 is `file_name`.
  `response.format` is spelled in lower case: the check of the type of an answer
  compares it as written (`api_extractor.py:138`), so for another spelling it checks
  nothing, whereas the choice of the extraction ignores case (`:94`).
- Properties that run "except" something name it: `lost` and `disturbed` mark the
  runs in which a failure destroyed a batch for good. What the code does then is not
  hidden: the violation runs below show it. For the keyed load types `disturbed` is set
  when a run ends between the MERGE into `t_full` and the target, when a rebuilt target
  ends a run that had events, when staging starts again next to a target that keeps its
  partitioning (its old rows become inserts once more, and rows that vanished have no
  event), and when a first load races with its source. `torn` is narrower: the source
  changed between the two MERGEs of one run. `purged` names the keys whose active
  version the retention deleted: they stay away until their row changes.

## 3. The runs

Each passing run checks a type invariant and the properties that follow; each of its
properties is broken by a faulty variant of some definition, kept beside the definition
in the module.

**controller** — 3 feeds over 3 group numbers and 0, 2 or 5 configured workers: all
feeds in one pool that is smaller, or larger, than the group; a pool next to a feed
that is alone, before or after it; three feeds alone; and a number of workers that
has to be corrected.
`GroupBarrier`, `WorkerBound`, `NoResultLost`, `RaisesOnlyAlone`, `EveryFeedReported`
(liveness), `ImplementsContract` (refinement of `LoadBatch`).

**full_load** — two partitionings, snapshots with and without rows, source versions
0 to 3, two failures. Three further versions allow a commit before, during and after a
run; two failures allow one in a run and one in the run that should repair it.
`SkipIsSound`, `ReportIsFresh`, `TargetFollowsStaging`, `CatchesUp` (liveness).

**incremental_cdc** — two keys, two values, four source snapshots (none, one row, the
row changed, two rows), both delete policies, with and without a query, two
partitionings, two further versions, one failure or null in a partition column. `SkipIsSound`,
`TargetMirrorsStaging`, `UnmatchedKept` (action property), `CatchesUp` (liveness).

**batch_run** — bronze, silver and gold in a chain, every choice of active feeds,
three configurations of checks, all outcomes of all phases. `BronzeGateHolds`,
`PostLoadIsAboutLoad`, `EveryFeedAccountedFor`, `FinallyRuns` (liveness), and
`CompletedHidesNothing`: the status COMPLETED does not mean what the documentation says
(see below), but the results, the verdicts and the report of such a run are true and
whole.

**system_restore** — a table that is both a target and a source and one that is only
a source and comes into the master specs or goes out of them between calls, two
retentions, time up to 2, two contents for the one table and one for the other, one
point, one request. A point can be captured, go stale, be vacuumed, expire, be asked for
under other specs, and be cut short at every step. `PointsStayValid` says that within
its retention a point is listed and accepted whatever was written, restored, vacuumed
or configured since; it exempts a table that began a new life and specs that expect a
table the point never had, both of which the code refuses or cannot see.
`WithinRetentionIsKept`, `CompletedRestores`, and `RequestSettles` (liveness): a request
ends with COMPLETED or FAILED in its audit row, unless it was `cut` by one of the three
causes that `initiate_restore` does not handle. A request after such a cut begins anew,
so one request is enough.

**append_load** — two keys, two values, three snapshots (none, one row, two rows, so
that a row can come, change, go and come back), both delete policies, with and
without a query, two partitionings, two further versions, one failure, and a target
that belongs to another load type. `AppendedOnce` compares the target with the history
of `t_full`; `ImplementsHistory` (refinement of `HistoryTable`); `CatchesUp` (liveness).

**scd_type_2** — the same instance, with versions that expire and are deleted between
any two runs. `OneActivePerKey` holds in every state but after a torn run, between the
two MERGEs and after failures included; `ActiveMirrorsStaging` between runs;
`ImplementsHistory`.

**bronze_ingest** — 0, 1 or 3 attempts, every answer at every attempt, three payloads;
landing directories of depth 0 (STANDARD) and 2, up to six directories and files under
the numbers 9 and 10 (whose order as text is not theirs), 9 also as `09`, and a name
that is no number, created before and during runs. Depth 2 instead of the code's four:
all levels are walked by one function, and two levels are what it takes for one to
change while the other is listed. `HonestFailure`, `LoadedIsNewest`, `RunEnds`
(liveness).

### Runs that end in a counterexample

They check what the documentation, a comment or a test says and the code does not do;
`PROJECT.json` quotes each line under "findings".

| Run | Property | What happens |
|---|---|---|
| skipped_is_loaded | `SkippedIsLoaded` | staging is stamped, the target write fails, the next run skips successfully |
| gold_chain | `GoldSkipIsSound` | silver's target is overwritten and is at version 0 again; gold takes it for unchanged |
| append_repartition | `NewRowsAppended` | the partitioning and the source change before one run: it rebuilds the target, succeeds, and never appends the new rows |
| rolled_back | `RolledBack` | the captured version number names contents of a later life of the table |

Deadlock is checked except in the controller and batch runs, where the run ends.

Some behaviour of the code that a reader may not expect is in the models without a
run of its own. A row that vanishes during a first load of INCREMENTAL_CDC is in
`t_full` and not in the target, and its later delete event, which matches no target
row, is inserted (`incremental_cdc.py:157`; `raced` and `disturbed` stand for it). A
source that is emptied between its count and the MERGE empties `t_full` although
`allow_empty_source` is not set. The gate of a gold feed checks its source before silver
rewrites it in the same batch, so `BronzeGateHolds` speaks of bronze tables only. `documentation/modules/ORCHESTRATOR.md:77-78` says that COMPLETED means "All feeds
succeeded" and COMPLETED_WITH_ERRORS "Some feeds failed"; the code does not keep to it:
`orchestrator.py:142` counts exceptions of phases only, so a run whose feeds failed or
were blocked is COMPLETED. The models have such runs, and no property claims the
documented meaning; `CompletedHidesNothing` says what COMPLETED can be relied on for.
`documentation/SYSTEM_RESTORE.md:57` says that a request ends as COMPLETED or FAILED; an
exception of the validation or of an audit update (`restore.py:210-258`, outside the try
block at 233), or a crash, leaves it REQUESTED or IN_PROGRESS, after the last RESTORE
too, when all tables are restored. A null in a partition column ends a run of a keyed
load type with success and skipped, although there was something to load
(`base_load_strategy.py:669-678`), and if the staging tables were to be rebuilt they are
dropped by then. The
retention deletes active versions of an SCD_TYPE_2 target that did not change for
longer than the retention (`purged`).

### Bounds and fairness

Bounds are constants (`MaxVersion`, `MaxFaults`, `MaxTime`, `MaxContents`, `MaxPoints`,
`MaxRequests`, `MaxEntries`, `MaxNumber`) and occur only in the surroundings, never in a guard of the code.
Fairness is weak fairness of the code's own steps only: `WF(Run)` says that the
pipeline is started again after each run and that a run in progress goes on;
`WF(Next)` in the controller and in `BatchRun` that a phase ends, i.e. that no load
hangs (the code sets no timeout); `WF(RestoreStep)` that a restore goes on;
`WF(Run)` in `BronzeIngest` that a request is answered or times out (`timeout`, 30 s
unless configured) and a sleep ends (`max_backoff`). `SCDType2` states no liveness. Commits by
others, edits of the specs, failures and crashes have none.

## 4. The proofs

`Orchestration_proofs` is about the two modules that meet in the contract `LoadBatch`.

Its first part is about `DataLoadController` (assuming `ControllerAssumption`: finitely
many feeds, integer group numbers). The invariant `ControllerInv` adds to the type invariant and to
`GroupBarrier` and `WorkerBound` that only feeds of `current` are in flight
(`InFlight`), that a group is submitted as a whole (`Whole`), and what each phase says
of the three lists of results (`PhaseInv`, `Gathered`). `GroupBarrier` alone is not
inductive: starting the smallest pending group preserves it only because between two
groups nothing is in flight and no group is half submitted. `WorkerBound` needs cardinalities of finite sets under `TakeFeed`.
Consequences: `ControllerTypeCorrect`, `Barrier`, `Workforce`, `Completeness`,
`RaiseContained`.
`Implements` shows that initial states map to initial states of `LoadBatch` and each
step to a step or a stutter, hence `Spec => Contract!Spec`.

The second part is about `BatchRun` (assuming `BatchRunAssumption`: bronze and medallion
feeds are disjoint, upstream feeds and check configurations have their sorts, the sentinels are
new). Two of the properties speak of a moment that is past when they are read:
`BronzeGateHolds` compares a load with the verdict of a check that ran before the batch,
and `CompletedHidesNothing` compares the results at the end of a run with the loads that
really happened. `GateInv`
keeps the verdict true from the check to the load: from then on only the batch writes
tables, and no bronze feed is in it (`BatchInv`). `LoadInv` says that a result that was
reported is the outcome of that load, and which table it came from, which is what
`PostLoadIsAboutLoad` needs after a controller that failed. `StatusInv`, `ResultsInv`
and `RunResultInv` say where the results of a feed are in each phase (with the
controller, in the orchestrator's list, in the run result) and which phases may have
failed by then. `TruthInv` follows "the result is loaded exactly if the feed was loaded"
from the controller into the orchestrator's list and the run result: it is false after a
phase that raised, and then there is an error and the run is not COMPLETED.
Consequences: `TypeCorrect`, `GateHolds`, `VerdictsOfLoads`, `Accounted`, `CompletedTrue`.

`FullLoad_proofs` (assuming `FullLoadAssumption`: constants have their sorts, the
sentinels are new). The argument is that a run reads the source's version before it reads
any data, and that versions only grow: a stamp is never ahead of the source, and a
snapshot stamped, or about to be stamped, with the version the source has now is a copy
of its present data (`StampInv`). `SkipIsSound` is not inductive because it says nothing
of a version that has been read and not yet stamped, nor of stamps ahead of the source.
`ReportIsFresh` needs how recent the snapshot is at each step compared with the
beginning of the run (`FreshInv`) and that a stamped snapshot of an earlier run is in
the target unless it was lost (`LoadedInv`); `TargetFollowsStaging` needs that both
are copies of source commits (`Copy`).
Consequences: `TypeCorrect`, `SkipSound`, `ReportFresh`, `TargetFollows`.

`BronzeIngest_proofs` (assuming `BronzeAssumption`: names are numbers up to `MaxNumber` or
no number, with or without leading zeros; formats and load types as in the code).
`HonestFailure` looks at a run that has ended, so the invariant counts attempts while it
goes on: each of them is answered before the next, and in vain (`RequestInv`).
`LoadedIsNewest` compares the table with what there was when the run began, several
directory levels and commits of the upstream job earlier. The walk keeps it true level by
level (`WalkInv`): a drop that had a file then is below the present path or in a
directory left behind as older. That the walk cannot miss the entry it needs rests on the
shape of the landing directory: every directory is below directories, and no two have the
same numbers (`DirsInv`); that the files are found at the end rests on names made from
numbers being the names of the entries that are plain. A set of numbered entries has a
greatest one because numbers are bounded (`LatestIsGreatest`, by a least distance from
`MaxNumber`). Consequences: `TypeCorrect`, `HonestErrors`, `LoadsNewest`.

`StagingLayer_proofs` (assuming `StagingAssumption`: constants have their sorts, the
sentinels are new) has what the proofs about the load types share. Its invariant
`StagingInv` is the type invariant with, for every step of a run, the tables that exist
by then, and `StampInv`: a stamp is never ahead of the source, and if the version that
is stamped, or was read by the run and will be, is still the source's present one, then
a MERGE of the source would change nothing from `SaveFull` or `MergeFull` on. As for
FULL_LOAD, `SkipIsSound` alone says nothing of a version that was read and not yet
stamped. The lemmas `StagingProgress` (every step of staging keeps `StagingInv`) and
`StagingKept` (so does every step that leaves source and staging tables alone) are cited by the
proofs about the three load types, which speak only of their own variables.

`IncrementalCDC_proofs` (also assuming `TargetAssumption`: `NoTable` is no table).
`TargetMirrorsStaging` holds between runs; within a run the target is *behind* `t_full`,
by row events that are in different places at different steps. `MirrorInv` says where:
after a first load, all of `t_full` is to be inserted into a target that does not exist,
or will be copied; after a MERGE, `t_full` is the target with `job.events` applied, and
`t_incr` has these events once it is saved. It also says which of the two ways a run is
on, and that a `t_full` without its change data feed means events were lost.
`UnmatchedKept` needs that the events of a feed that may not delete never contain a
deletion, neither in the run nor in any `t_incr` (`NoDeletes`). Consequences:
`TypeCorrect`, `SkipSound`, `TargetMirrors`, `NoMassDelete`.

`AppendLoad_proofs` (also assuming its `TargetAssumption`: `NoTable` is no table and no
history, and there are finitely many keys, without which a table has no number of rows). `ArrivalInv` relates three things that change at different steps: what came
into `t_full` (`arrivals`, `known`), what this run brought (`fresh`), and the target.
Before rows arrive, and after they are registered, target and arrivals are equal; in
between, the target lacks exactly the inserts of `job.events` or, on a first load, has to
be created from all of `t_full` (`MissingArrivals`); a rebuild may end the run only if
nothing is fresh. `Implements` maps the target to a sequence of versions per key
(`AsTable`) and shows that each step creates, extends or loses that table or leaves it
alone; the only step that extends it appends at most one version per key, because the
events of a run are a function of the key. That the count a load is held to is a number
(`RowCountType`) is a fact about unions of finite sets. Consequences: `TypeCorrect`,
`SkipSound`, `AppendsOnce`, `Implements`.

`SCDType2_proofs` (also assuming its `TargetAssumption`: `NoTable` is no table and no
history). The invariant has three parts. `Typed` says, besides types, which steps need a
target and which need it missing. `OneInv` is `OneActivePerKey` made inductive: the
inserting MERGE adds an active version without looking at how many there are, and keeps
them unique only because, between the two MERGEs, every active version of a key that has
an event agrees with that event (`ClosedBy`); the closing MERGE establishes it
(`CloseFacts`), and `torn` is exactly when the source takes it away. It does not depend
on which events were lost, so the theorem has no other exception. `MirrorInv` is what
`ActiveMirrorsStaging` needs within a run, and only while nothing was lost
(`Undisturbed`): before `t_full` changes, the active values of every key are those of
`t_full`; after it and until both MERGEs are done, those of every key without an event
are; and the events of the run say of the others what `t_full` holds now (`KnownInv`,
`EventsAgree`). Keys whose active version the retention deleted are kept apart, they have
none until they get an event (`Inactive`). The first load needs that no target is next to
it, or one that will be rebuilt (`NotFilled`, `Route`). `Implements` maps the target to its
rows and each step to a step of `HistoryTable`; for `Retention` that means an ascending
choice of positions that covers all versions not expired. That there is one for every
sequence (`OrderExists`) is an induction over the length, by a least counterexample,
because the induction theorems of the library cannot be used.
Consequences: `TypeCorrect`, `SkipSound`, `OneActive`, `MirrorsStaging`, `Implements`.

`SystemRestore_proofs` (assuming `RestoreAssumption`: numbers are natural numbers, a
retention is at least an hour, the sentinels are new). `LogInv` orders contents:
those of one life of a table are younger than those of the lives before, and the current
one is never vacuumed. Hence a row that names a version of another life holds a content
older than this life, and a row of this life names a version that still holds what was
captured (`RowFacts`). `WithinRetentionIsKept` is not inductive: VACUUM would remove
contents nobody needed since the row was saved. `Needed` says that contents of a row
saved in time are current or were so since it was saved; within its retention they
were replaced less than the present retention ago, and VACUUM keeps them.
`CompletedRestores` needs that every row that is no longer to do was restored and that
rows of a request are saved rows (`ReqInv`). `PointsStayValid` needs that the version a
row names stays in the history while its table lives on (`RowFacts`, `Alive`), which a
commit, a restore and VACUUM keep and only a drop ends. Nothing here bounds the number of sessions: the theorems also hold when two of
them save under the same identifier. Consequences: `TypeCorrect`, `PointsValid`,
`RetentionHolds`, `RestoresAreTrue`.

With TLC only: liveness (`EveryFeedReported`, the three `CatchesUp`, `FinallyRuns`,
`RequestSettles`, `RunEnds`), because the prover does not handle fairness and ENABLED, and
`MedallionChain`, which is there for its counterexample. Every other property of a
passing run, invariant, action property or refinement, is stated by a theorem.

## 5. Not modelled

- The rules of launch validation, configuration and catalog names: pure functions of
  spreadsheets and configuration text. `BatchRun` has their outcomes.
- Parsing of feed specs and the choice of a strategy class in the dispatcher.
- The SQL and the thresholds of data quality checks; `BatchRun` has verdicts.
- Projections, casts and the hash function of `audit_columns.py`: rows are equal or not.
- The retention of logs and files, reports, the drawing of the lineage diagram,
  logging, error records and the release script: output and wording on which no
  decision depends.

## 6. Plan

1. Done: controller and contract, FULL_LOAD and its chain, keyed staging and its three
   load types, the abstract history table, bronze ingest, orchestrator run, system
   restore; for each of them, every safety property and refinement its run checks is
   proved.
2. Open in the proofs: that the exceptions `disturbed` and `lost` are as narrow as they
   can be, i.e. that without a failure, a race or a change of the partitioning they never
   become true.
3. Open in the models: two feeds over one staging name (`base_load_strategy.py:574`), two
   sessions that create restore points under one identifier (`restore.py:101`).
