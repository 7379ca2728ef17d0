---------------------------- MODULE StagingLayer ----------------------------
(***************************************************************************)
(* The keyed staging layer that APPEND_LOAD, INCREMENTAL_CDC and           *)
(* SCD_TYPE_2 share (_create_staging_layer): t_full, a copy of the source  *)
(* kept up to date by MERGE, t_incr, the row events of the last run read   *)
(* back from t_full's change data feed, and t_incr_cdf_changes, a second   *)
(* copy of the events of which only the partitioning is ever looked at.    *)
(*                                                                         *)
(* A table's contents are a function from keys to values. Every commit to  *)
(* a table is one step; between two steps of a run the source may change,  *)
(* because DataFrames are lazy and scan it again for each write. Replacing *)
(* a table (drop, write, register) is one step that a failure may leave    *)
(* half done. The steps of a load after staging, "apply" and later, belong *)
(* to the module of that load type. A selection_query is taken to read     *)
(* source_table_name and no other table.                                   *)
(***************************************************************************)
EXTENDS Integers

CONSTANTS Keys, Vals,    \* primary keys, and contents of a row
          Absent,        \* no row with this key
          Snapshots,     \* the contents the source may have
          Layouts,       \* the values of partition_keys
          Unpartitioned, \* the one that names no column
          Queries,       \* has the feed a selection_query?
          DeletePolicies,\* the values of allow_unmatched_deletes
          AllowEmpty,    \* allow_empty_source
          MaxVersion,    \* bound: the source's Delta version
          MaxFaults,     \* bound: failures injected
          NoTable,       \* the table does not exist
          NoStamp        \* _x_latest_source_version is not set

Rows == [Keys -> Vals \cup {Absent}]

\* A row event of the change data feed: _x_operation and the row.
NoEvent == [op |-> "none", val |-> Absent]
Event == {NoEvent} \cup [op : {"insert", "update", "delete"}, val : Vals]
Events == [Keys -> Event]

FullTable == [rows : Rows, stamp : Nat \cup {NoStamp}, layout : Layouts, cdf : BOOLEAN]
IncrTable == [events : Events, layout : Layouts]

ASSUME StagingAssumption ==
    /\ Absent \notin Vals
    /\ Snapshots \subseteq Rows
    /\ Queries \subseteq BOOLEAN /\ DeletePolicies \subseteq BOOLEAN
    /\ AllowEmpty \in BOOLEAN
    /\ MaxVersion \in Nat /\ MaxFaults \in Nat
    /\ NoStamp \notin Int
    /\ NoTable \notin FullTable \cup IncrTable \cup Layouts

VARIABLES source,   \* source table: Delta version and rows
          feed,     \* feed specs: partition_keys, selection_query, allow_unmatched_deletes
          full,     \* t_full: rows, stamp, partitioning, delta.enableChangeDataFeed
          incr,     \* t_incr: row events, partitioning
          changes,  \* t_incr_cdf_changes: its partitioning
          pc,       \* next step of the run in progress, "idle" between runs
          job,      \* locals of the run
          result,   \* how the last run that ended reported
          faults    \* failures so far

stagingTables == <<full, incr, changes>>
environment == <<source, feed>>
stagingVars == <<environment, stagingTables, pc, job, result, faults>>

Exists(table) == table # NoTable
Empty(rows) == \A k \in Keys : rows[k] = Absent
GoTo(step) == pc' = step /\ UNCHANGED result
EndRun(outcome) == pc' = "idle" /\ result' = outcome

\* The run in progress reads the source again whenever it reads its events.
Live == job.live

-----------------------------------------------------------------------------
(* Rows and row events.                                                    *)

\* First load: every row of the source is an insert.
Inserts(rows) ==
    [k \in Keys |-> IF rows[k] = Absent THEN NoEvent ELSE [op |-> "insert", val |-> rows[k]]]

\* Faulty variant: the MERGE deletes whatever the source lacks.
MergeAlwaysDeletes(rows, incoming) == incoming

\* The staging MERGE: rows that differ by hash are updated, missing ones are
\* inserted, unmatched ones deleted if the feed allows it.
MergeRows(rows, incoming) ==
    [k \in Keys |-> IF incoming[k] = Absent /\ ~ feed.deletes
                    THEN rows[k] ELSE incoming[k]]

\* Faulty variant: true_updates is left out of the union.
EventsWithoutUpdates(before, after) ==
    [k \in Keys |->
        CASE before[k] = Absent /\ after[k] # Absent -> [op |-> "insert", val |-> after[k]]
          [] before[k] # Absent /\ after[k] = Absent -> [op |-> "delete", val |-> before[k]]
          [] OTHER                                   -> NoEvent]

\* true_inserts, true_updates and true_deletes of one MERGE commit.
RowEvents(before, after) ==
    [k \in Keys |->
        CASE before[k] = after[k]                      -> NoEvent
          [] before[k] = Absent /\ after[k] # Absent   -> [op |-> "insert", val |-> after[k]]
          [] before[k] # Absent /\ after[k] = Absent   -> [op |-> "delete", val |-> before[k]]
          [] OTHER                                     -> [op |-> "update", val |-> after[k]]]

NoEvents == [k \in Keys |-> NoEvent]

\* _current_staging_incremental_table_df and _current_staging_table_df
StagedEvents == IF Live THEN Inserts(source.rows) ELSE incr.events
StagedRows == IF Live THEN source.rows ELSE full.rows

-----------------------------------------------------------------------------

StagingInit ==
    /\ source \in [ver : {0}, rows : Snapshots]
    /\ feed \in [layout : Layouts, query : Queries, deletes : DeletePolicies]
    /\ full = NoTable /\ incr = NoTable /\ changes = NoTable
    /\ pc = "idle"
    /\ job = [ver |-> 0, live |-> FALSE, events |-> NoEvents]
    /\ result = "none"
    /\ faults = 0

\* Writers of the source table commit new contents.
SourceCommit ==
    /\ source.ver < MaxVersion
    /\ \E r \in Snapshots : source' = [ver |-> source.ver + 1, rows |-> r]
    /\ UNCHANGED <<feed, stagingTables, pc, job, result, faults>>

\* The feed specs are edited between runs.
ChangePartitionKeys ==
    /\ pc = "idle"
    /\ \E l \in Layouts \ {feed.layout} : feed' = [feed EXCEPT !.layout = l]
    /\ UNCHANGED <<source, stagingTables, pc, job, result, faults>>

-----------------------------------------------------------------------------
(* _create_staging_layer                                                   *)

\* DESCRIBE HISTORY of source_table_name; df itself is not evaluated yet.
ReadVersion ==
    /\ pc = "version"
    /\ job' = [job EXCEPT !.ver = source.ver]
    /\ GoTo("count")
    /\ UNCHANGED <<environment, stagingTables, faults>>

\* verify_source_not_empty_for_sync: HF036
CountSource ==
    /\ pc = "count"
    /\ IF Empty(source.rows) /\ ~ AllowEmpty THEN EndRun("failed") ELSE GoTo("compare")
    /\ UNCHANGED <<environment, stagingTables, job, faults>>

\* _staging_partition_rebuild_needed
Mismatch ==
    \/ Exists(full) /\ full.layout # feed.layout
    \/ Exists(incr) /\ incr.layout # feed.layout
    \/ Exists(changes) /\ changes # feed.layout

SameVersion == Exists(full) /\ full.stamp = job.ver

\* "No new data to load.": the load reports success, skipped.
NoNewData ==
    /\ pc = "compare" /\ SameVersion /\ ~ Mismatch
    /\ EndRun("skipped")
    /\ UNCHANGED <<environment, stagingTables, job, faults>>

\* First load, or new partitioning: staging starts again from the source. If
\* the version is the staged one all three tables are dropped beforehand.
Restage ==
    /\ pc = "compare" /\ (~ Exists(full) \/ Mismatch)
    /\ IF SameVersion
       THEN full' = NoTable /\ incr' = NoTable /\ changes' = NoTable
       ELSE UNCHANGED stagingTables
    /\ job' = [job EXCEPT !.live = TRUE]
    /\ GoTo("saveFull")
    /\ UNCHANGED <<environment, faults>>

\* t_full is overwritten with a scan of the source.
SaveFull ==
    /\ pc = "saveFull"
    /\ full' = [rows |-> source.rows, stamp |-> NoStamp, layout |-> feed.layout, cdf |-> FALSE]
    /\ GoTo("stampFull")
    /\ UNCHANGED <<environment, incr, changes, job, faults>>

\* Faulty variant: the version is read again when the stamp is written.
StampFullLatest ==
    /\ pc = "stampFull"
    /\ full' = [full EXCEPT !.stamp = IF feed.query THEN @ ELSE source.ver]
    /\ GoTo("enableCdf")
    /\ UNCHANGED <<environment, incr, changes, job, faults>>

\* A feed with a query is not stamped on its first load.
StampFull ==
    /\ pc = "stampFull"
    /\ full' = [full EXCEPT !.stamp = IF feed.query THEN @ ELSE job.ver]
    /\ GoTo("enableCdf")
    /\ UNCHANGED <<environment, incr, changes, job, faults>>

EnableChangeDataFeed ==
    /\ pc = "enableCdf"
    /\ full' = [full EXCEPT !.cdf = TRUE]
    /\ GoTo("saveIncr")
    /\ UNCHANGED <<environment, incr, changes, job, faults>>

\* Otherwise the source is merged into t_full.
BeginMerge ==
    /\ pc = "compare" /\ Exists(full) /\ ~ Mismatch /\ ~ SameVersion
    /\ job' = [job EXCEPT !.live = FALSE]
    /\ GoTo("merge")
    /\ UNCHANGED <<environment, stagingTables, faults>>

\* The MERGE commits; its row events wait in the change data feed.
MergeFull ==
    /\ pc = "merge"
    /\ LET rows == MergeRows(full.rows, source.rows)
       IN  /\ full' = [full EXCEPT !.rows = rows]
           /\ job' = [job EXCEPT !.events = RowEvents(full.rows, rows)]
    /\ GoTo("saveIncr")
    /\ UNCHANGED <<environment, incr, changes, faults>>

\* A MERGE that changes nothing may also commit nothing: the range of versions
\* from current_version + 1 to new_version is then empty and cannot be read.
MergeNothing ==
    /\ pc = "merge" /\ MergeRows(full.rows, source.rows) = full.rows
    /\ EndRun("failed")
    /\ UNCHANGED <<environment, stagingTables, job, faults>>

\* The change data feed cannot be read from a table that does not record it.
NoChangeDataFeed ==
    /\ pc = "saveIncr" /\ ~ full.cdf
    /\ EndRun("failed")
    /\ UNCHANGED <<environment, stagingTables, job, faults>>

\* t_incr is overwritten: with the change data feed of the MERGE, or on a first
\* load with another scan of the source.
SaveIncr ==
    /\ pc = "saveIncr" /\ full.cdf
    /\ incr' = [events |-> IF Live THEN Inserts(source.rows) ELSE job.events,
                layout |-> feed.layout]
    /\ GoTo("saveChanges")
    /\ UNCHANGED <<environment, full, changes, job, faults>>

SaveChanges ==
    /\ pc = "saveChanges"
    /\ changes' = feed.layout
    /\ GoTo(IF Live THEN "apply" ELSE "stampMerged")
    /\ UNCHANGED <<environment, full, incr, job, faults>>

\* Faulty variant: versions are counted from one.
StampMergedPrevious ==
    /\ pc = "stampMerged"
    /\ full' = [full EXCEPT !.stamp = job.ver - 1]
    /\ GoTo("apply")
    /\ UNCHANGED <<environment, incr, changes, job, faults>>

\* After a MERGE the version read before it is recorded, query or not.
StampMerged ==
    /\ pc = "stampMerged"
    /\ full' = [full EXCEPT !.stamp = job.ver]
    /\ GoTo("apply")
    /\ UNCHANGED <<environment, incr, changes, job, faults>>

\* A step of staging raises, or the process dies: an overwrite in progress
\* leaves the old table or none.
StagingRaises ==
    /\ pc \in {"version", "count", "compare", "saveFull", "stampFull", "enableCdf",
               "merge", "saveIncr", "saveChanges", "stampMerged"}
    /\ EndRun("failed")
    /\ full' \in IF pc = "saveFull" THEN {full, NoTable} ELSE {full}
    /\ incr' \in IF pc = "saveIncr" THEN {incr, NoTable} ELSE {incr}
    /\ changes' \in IF pc = "saveChanges" THEN {changes, NoTable} ELSE {changes}

\* A row of the source has no value in a partition column: the error is logged and
\* the load reports success, skipped. Tables to be rebuilt are dropped already.
NullPartition ==
    /\ pc = "compare" /\ feed.layout # Unpartitioned
    /\ ~ SameVersion \/ Mismatch
    /\ IF SameVersion
       THEN full' = NoTable /\ incr' = NoTable /\ changes' = NoTable
       ELSE UNCHANGED stagingTables
    /\ EndRun("skipped")

\* Staging breaks off.
FailStaging ==
    /\ faults < MaxFaults
    /\ StagingRaises \/ NullPartition
    /\ faults' = faults + 1
    /\ UNCHANGED <<environment, job>>

StagingStep ==
    \/ ReadVersion \/ CountSource \/ NoNewData
    \/ Restage \/ SaveFull \/ StampFull \/ EnableChangeDataFeed
    \/ BeginMerge \/ MergeFull \/ MergeNothing \/ NoChangeDataFeed
    \/ SaveIncr \/ SaveChanges \/ StampMerged

-----------------------------------------------------------------------------
(* Properties of staging, checked with each load type that uses it.        *)

StagingSteps == {"idle", "version", "count", "compare", "saveFull", "stampFull", "enableCdf",
                 "merge", "saveIncr", "saveChanges", "stampMerged", "apply"}

StagingTypeOK ==
    /\ source \in [ver : Nat, rows : Rows]
    /\ feed \in [layout : Layouts, query : BOOLEAN, deletes : BOOLEAN]
    /\ full \in FullTable \cup {NoTable}
    /\ incr \in IncrTable \cup {NoTable}
    /\ changes \in Layouts \cup {NoTable}
    /\ job \in [ver : Nat, live : BOOLEAN, events : Events]
    /\ faults \in Nat

\* "No new data" is true when the code concludes it: t_full stamped with the
\* source's present version holds every row of the source as it is now, and
\* nothing else if unmatched rows are deleted.
SkipIsSound ==
    Exists(full) /\ full.stamp = source.ver =>
        MergeRows(full.rows, source.rows) = full.rows

=============================================================================
