------------------------------ MODULE FullLoad ------------------------------
(***************************************************************************)
(* One FULL_LOAD feed, run again and again by the pipeline: the staging    *)
(* snapshot t_full of _create_full_load_staging_layer and the overwrite of *)
(* the target by FullLoad.load.                                            *)
(*                                                                         *)
(* Every commit to a Delta table is one step, and so is every read that    *)
(* another step may overtake. The contents of a table are abstracted to    *)
(* the source commit they were copied from and the number of rows.         *)
(* DataFrames are lazy: writing one scans the source when the write        *)
(* happens, not when the DataFrame was made (the comment at                *)
(* base_load_strategy.py:184).                                             *)
(*                                                                         *)
(* An exception and a crash of the process look the same to the tables, so *)
(* both are the action Fail.                                               *)
(***************************************************************************)
EXTENDS Integers

CONSTANTS Layouts,          \* the values of partition_keys
          RowCounts,        \* how many rows a source snapshot may have
          AllowEmptySource, \* allow_empty_source of the feed
          SelectionQuery,   \* TRUE iff the feed has a selection_query
          MaxVersion,       \* bound: the source's Delta version
          MaxFaults,        \* bound: failures injected
          NoTable,          \* the table does not exist
          NoStamp           \* _x_latest_source_version is not set

LoadTypes == {"none", "FULL_LOAD", "APPEND_LOAD"}

Data == [at : Nat, rows : Nat]
SourceTable == [ver : Nat, data : Data]
StagingTable == [data : Data, stamp : Nat \cup {NoStamp}, layout : Layouts]
TargetTable == [ver : Nat, data : Data, layout : Layouts, loadType : LoadTypes]

ASSUME FullLoadAssumption ==
    /\ RowCounts \subseteq Nat
    /\ AllowEmptySource \in BOOLEAN /\ SelectionQuery \in BOOLEAN
    /\ MaxVersion \in Nat /\ MaxFaults \in Nat
    /\ NoStamp \notin Int
    /\ NoTable \notin SourceTable \cup StagingTable \cup TargetTable

VARIABLES source,   \* source table: Delta version and data
          layout,   \* partition_keys of the feed specs
          full,     \* staging t_full: data, _x_latest_source_version, layout
          incr,     \* do staging t_incr and t_incr_cdf_changes exist?
          target,   \* target table: Delta version, data, layout, data.load_type
          pc,       \* next step of the run in progress, "idle" between runs
          job,      \* locals of the run: latest_source_version, record_count
          result,   \* LoadResult of the last run that ended
          faults,   \* failures so far
          begunAt,  \* history: the source commit when the last run began
          lost      \* history: a stamped snapshot never reached the target

vars == <<source, layout, full, incr, target, pc, job, result, faults, begunAt, lost>>
env == <<source, layout>>
ghost == <<faults, begunAt, lost>>

Exists(table) == table # NoTable

GoTo(step) == pc' = step /\ UNCHANGED result
EndRun(outcome) == pc' = "idle" /\ result' = outcome

\* A source table at Delta version v holding the n rows of its commit c.
Written(v, c, n) == [ver |-> v, data |-> [at |-> c, rows |-> n]]

-----------------------------------------------------------------------------
(* The feed's surroundings.                                                *)

Init ==
    /\ layout \in Layouts
    /\ source \in {NoTable} \cup {Written(0, 1, n) : n \in RowCounts}
    /\ full = NoTable
    /\ incr \in BOOLEAN
    /\ target \in {NoTable} \cup
         [ver : {0}, data : {[at |-> 0, rows |-> n] : n \in RowCounts},
          layout : {layout}, loadType : LoadTypes]
    /\ pc = "idle"
    /\ job = [ver |-> 0, count |-> 0]
    /\ result = "none"
    /\ faults = 0 /\ begunAt = 0 /\ lost = FALSE

\* A writer of the source table creates it, or commits new contents.
SourceCommit ==
    /\ Exists(source) => source.ver < MaxVersion
    /\ \E n \in RowCounts :
         source' = IF Exists(source)
                   THEN Written(source.ver + 1, source.data.at + 1, n)
                   ELSE Written(0, 1, n)
    /\ UNCHANGED <<layout, full, incr, target, pc, job, result, ghost>>

\* OPTIMIZE, or ALTER TABLE: a Delta version without a change of the data.
SourceMaintenance ==
    /\ Exists(source) /\ source.ver < MaxVersion
    /\ source' = [source EXCEPT !.ver = @ + 1]
    /\ UNCHANGED <<layout, full, incr, target, pc, job, result, ghost>>

\* The feed specs are edited between runs; a run parses them once.
ChangePartitionKeys ==
    /\ pc = "idle"
    /\ layout' \in Layouts \ {layout}
    /\ UNCHANGED <<source, full, incr, target, pc, job, result, ghost>>

-----------------------------------------------------------------------------
(* _enforce_load_type_consistency                                          *)

\* The target is registered for another load type: HF045.
RejectLoadType ==
    /\ pc = "idle"
    /\ Exists(target) /\ target.loadType \notin {"none", "FULL_LOAD"}
    /\ EndRun("failed")
    /\ begunAt' = IF Exists(source) THEN source.data.at ELSE begunAt
    /\ UNCHANGED <<env, full, incr, target, job, faults, lost>>

\* A target without the property is registered by an ALTER TABLE, which is a
\* Delta commit; a target that does not exist yet is left for later.
BeginRun ==
    /\ pc = "idle"
    /\ Exists(target) => target.loadType \in {"none", "FULL_LOAD"}
    /\ target' = IF Exists(target) /\ target.loadType = "none"
                 THEN [target EXCEPT !.ver = @ + 1, !.loadType = "FULL_LOAD"]
                 ELSE target
    /\ begunAt' = IF Exists(source) THEN source.data.at ELSE begunAt
    /\ GoTo("drop")
    /\ UNCHANGED <<env, full, incr, job, faults, lost>>

-----------------------------------------------------------------------------
(* _create_full_load_staging_layer                                         *)

\* FULL_LOAD keeps no incremental staging tables.
DropIncremental ==
    /\ pc = "drop"
    /\ incr' = FALSE
    /\ GoTo("version")
    /\ UNCHANGED <<env, full, target, job, ghost>>

\* DESCRIBE HISTORY of the source; the data is read by later steps.
ReadVersion ==
    /\ pc = "version" /\ Exists(source)
    /\ job' = [job EXCEPT !.ver = source.ver]
    /\ GoTo("count")
    /\ UNCHANGED <<env, full, incr, target, ghost>>

\* Analysis of the source fails: the table does not exist.
SourceMissing ==
    /\ pc \in {"version", "count", "save"} /\ ~ Exists(source)
    /\ EndRun("failed")
    /\ UNCHANGED <<env, full, incr, target, job, ghost>>

\* verify_source_not_empty_for_sync
CountSource ==
    /\ pc = "count" /\ Exists(source)
    /\ IF source.data.rows > 0 \/ AllowEmptySource
       THEN GoTo("compare") ELSE EndRun("failed")
    /\ UNCHANGED <<env, full, incr, target, job, ghost>>

\* Faulty variant: any stamp will do.
UnchangedIfStamped == Exists(full) /\ full.layout = layout /\ full.stamp # NoStamp

Unchanged == Exists(full) /\ full.layout = layout /\ full.stamp = job.ver

\* "Source unchanged; reusing FULL_LOAD staging snapshot.": success, skipped.
SkipUnchanged ==
    /\ pc = "compare" /\ Unchanged
    /\ EndRun("unchanged")
    /\ UNCHANGED <<env, full, incr, target, job, ghost>>

\* Otherwise t_full is dropped: at once if its partitioning is stale, or else
\* as the first half of the overwrite in _overwrite_delta_table.
PurgeStaging ==
    /\ pc = "compare" /\ ~ Unchanged
    /\ full' = NoTable
    /\ GoTo("save")
    /\ UNCHANGED <<env, incr, target, job, ghost>>

\* The second half scans the source and writes a table without properties.
SaveStaging ==
    /\ pc = "save" /\ Exists(source)
    /\ full' = [data |-> source.data, stamp |-> NoStamp, layout |-> layout]
    /\ GoTo("stamp")
    /\ UNCHANGED <<env, incr, target, job, ghost>>

\* Faulty variant: the version is counted from one.
StampPreviousVersion ==
    /\ pc = "stamp"
    /\ full' = [full EXCEPT !.stamp = IF SelectionQuery THEN @ ELSE job.ver - 1]
    /\ GoTo("snapshot")
    /\ UNCHANGED <<env, incr, target, job, ghost>>

\* Faulty variant: the version is read again when the stamp is written.
StampLatestVersion ==
    /\ pc = "stamp"
    /\ full' = [full EXCEPT !.stamp = IF SelectionQuery THEN @ ELSE source.ver]
    /\ GoTo("snapshot")
    /\ UNCHANGED <<env, incr, target, job, ghost>>

\* The version read before the data is recorded, unless the feed has a query.
StampStaging ==
    /\ pc = "stamp"
    /\ full' = [full EXCEPT !.stamp = IF SelectionQuery THEN @ ELSE job.ver]
    /\ GoTo("snapshot")
    /\ UNCHANGED <<env, incr, target, job, ghost>>

-----------------------------------------------------------------------------
(* FullLoad.load                                                           *)

\* record_count; an empty snapshot leaves the target alone.
CountSnapshot ==
    /\ pc = "snapshot"
    /\ job' = [job EXCEPT !.count = full.data.rows]
    /\ IF full.data.rows = 0 THEN EndRun("empty") ELSE GoTo("purgeTarget")
    /\ UNCHANGED <<env, full, incr, target, ghost>>

\* The target is dropped, whether it is overwritten or its partitions rebuilt.
PurgeTarget ==
    /\ pc = "purgeTarget"
    /\ target' = NoTable
    /\ GoTo("saveTarget")
    /\ UNCHANGED <<env, full, incr, job, ghost>>

\* Faulty variant: the DataFrame written is still the one over the source.
SaveTargetFromSource ==
    /\ pc = "saveTarget"
    /\ target' = [ver |-> 0, data |-> source.data, layout |-> layout, loadType |-> "none"]
    /\ lost' = FALSE
    /\ GoTo("verify")
    /\ UNCHANGED <<env, full, incr, job, faults, begunAt>>

\* It comes back as a new Delta table: version 0, no properties.
SaveTarget ==
    /\ pc = "saveTarget"
    /\ target' = [ver |-> 0, data |-> full.data, layout |-> layout, loadType |-> "none"]
    /\ lost' = FALSE
    /\ GoTo("verify")
    /\ UNCHANGED <<env, full, incr, job, faults, begunAt>>

\* verify_row_count(expected = record_count), and the target must exist.
VerifyTarget ==
    /\ pc = "verify"
    /\ EndRun(IF target.data.rows = job.count THEN "loaded" ELSE "failed")
    /\ UNCHANGED <<env, full, incr, target, job, ghost>>

\* Between the stamp and the write of the target the only trace of the new
\* batch is a snapshot the next run will take for already loaded.
Exposed == pc \in {"snapshot", "purgeTarget", "saveTarget"} /\ full.stamp # NoStamp

\* A step raises, or the process dies.
Fail ==
    /\ pc # "idle" /\ faults < MaxFaults
    /\ EndRun("failed")
    /\ faults' = faults + 1
    /\ lost' = (lost \/ Exposed)
    /\ UNCHANGED <<env, full, incr, target, job, begunAt>>

-----------------------------------------------------------------------------

\* What the code does, as opposed to its surroundings.
Run ==
    \/ RejectLoadType \/ BeginRun
    \/ DropIncremental \/ ReadVersion \/ SourceMissing \/ CountSource
    \/ SkipUnchanged \/ PurgeStaging \/ SaveStaging \/ StampStaging
    \/ CountSnapshot \/ PurgeTarget \/ SaveTarget \/ VerifyTarget

Next == SourceCommit \/ SourceMaintenance \/ ChangePartitionKeys \/ Run \/ Fail

\* The pipeline is launched again after every run, and a run goes on.
Spec == Init /\ [][Next]_vars /\ WF_vars(Run)

-----------------------------------------------------------------------------
(* Properties.                                                             *)

Steps == {"idle", "drop", "version", "count", "compare", "save", "stamp",
          "snapshot", "purgeTarget", "saveTarget", "verify"}

\* Every variable has its type.
TypeOK ==
    /\ source \in SourceTable \cup {NoTable}
    /\ layout \in Layouts
    /\ full \in StagingTable \cup {NoTable}
    /\ incr \in BOOLEAN
    /\ target \in TargetTable \cup {NoTable}
    /\ pc \in Steps
    /\ job \in [ver : Nat, count : Nat]
    /\ result \in {"none", "loaded", "unchanged", "empty", "failed"}
    /\ faults \in Nat /\ begunAt \in Nat /\ lost \in BOOLEAN

\* "Source unchanged" is true when the code concludes it: a snapshot stamped
\* with the source's present version is a copy of the source's present data,
\* however commits to the source interleave with staging and wherever earlier
\* runs failed.
SkipIsSound ==
    Exists(full) /\ Exists(source) /\ full.stamp = source.ver => full.data = source.data

\* A run that reports success leaves a target at least as recent as the source
\* was when that run began, also when it reports success by skipping; except
\* that a batch lost to an earlier failure stays lost, and that an empty
\* snapshot is not loaded.
ReportIsFresh ==
    /\ pc = "idle" /\ result \in {"loaded", "unchanged"}
    /\ ~ lost /\ full.data.rows > 0
    => Exists(target) /\ target.data.at >= begunAt

\* A target only ever holds a whole snapshot that staging holds or held: what
\* the failed run left behind is an older snapshot or no table, never a newer
\* one than staging and never rows of two snapshots.
TargetFollowsStaging ==
    Exists(target) /\ Exists(full) =>
        /\ target.data.at <= full.data.at
        /\ target.data.at = full.data.at => target.data = full.data

\* The target keeps catching up with the source, although runs fail and the
\* partitioning changes; unless the batch was lost, the source is empty or the
\* target belongs to another load type.
CatchesUp ==
    []<>(\/ lost
         \/ ~ Exists(source) \/ source.data.rows = 0
         \/ Exists(target) /\ target.loadType \notin {"none", "FULL_LOAD"}
         \/ Exists(target) /\ target.data = source.data)

\* As the module of post-load checks puts it, missed data is detected before a
\* feed is marked successful: success by skipping means the staged snapshot is
\* in the target.
SkippedIsLoaded ==
    pc = "idle" /\ result = "unchanged" =>
        Exists(target) /\ target.data = full.data

=============================================================================
