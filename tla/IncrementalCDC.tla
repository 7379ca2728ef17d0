--------------------------- MODULE IncrementalCDC ---------------------------
(***************************************************************************)
(* One INCREMENTAL_CDC feed, run again and again: the keyed staging layer  *)
(* and IncrementalCDC.load, which merges the staged row events into the    *)
(* target, creates the target from them, or, when the partitioning was     *)
(* changed, rebuilds it from the staged rows.                              *)
(***************************************************************************)
EXTENDS StagingLayer

VARIABLES target,     \* target table: rows, partitioning, data.load_type
          raced,      \* history: the source changed since a first load wrote t_full
          disturbed   \* history: the target may have missed row events

cdcHistory == <<raced, disturbed>>
cdcVars == <<stagingVars, target, cdcHistory>>

LoadTypes == {"none", "INCREMENTAL_CDC", "SCD_TYPE_2"}
TargetTable == [rows : Rows, layout : Layouts, loadType : LoadTypes]

ASSUME TargetAssumption == NoTable \notin TargetTable

-----------------------------------------------------------------------------
(* Row events applied to a target.                                         *)

\* prepare_cdc_initial_table: every event of the stream becomes a row.
InitialRows(events) == [k \in Keys |-> events[k].val]

\* Faulty variant: a delete event is taken for a change of the row.
ApplyEventsKeepDeleted(rows, events) ==
    [k \in Keys |-> IF events[k] = NoEvent THEN rows[k] ELSE events[k].val]

\* The MERGE into the target. A matched row is updated by inserts and updates
\* that differ by hash and deleted by deletes; an event without a matching row
\* is inserted, whatever its operation.
ApplyEvents(rows, events) ==
    [k \in Keys |->
        CASE events[k] = NoEvent                             -> rows[k]
          [] rows[k] # Absent /\ events[k].op = "delete"     -> Absent
          [] OTHER                                           -> events[k].val]

-----------------------------------------------------------------------------

Init ==
    /\ StagingInit
    /\ target \in {NoTable} \cup
         [rows : {source.rows}, layout : {feed.layout}, loadType : {"SCD_TYPE_2"}]
    /\ raced = FALSE /\ disturbed = FALSE

Foreign == Exists(target) /\ target.loadType \notin {"none", "INCREMENTAL_CDC"}

\* _enforce_load_type_consistency: HF045, or the target is registered.
RejectLoadType ==
    /\ pc = "idle" /\ Foreign
    /\ EndRun("failed")
    /\ UNCHANGED <<environment, stagingTables, job, faults, target, cdcHistory>>

BeginRun ==
    /\ pc = "idle" /\ ~ Foreign
    /\ target' = IF Exists(target) THEN [target EXCEPT !.loadType = "INCREMENTAL_CDC"]
                 ELSE target
    /\ GoTo("version")
    /\ UNCHANGED <<environment, stagingTables, job, faults, cdcHistory>>

\* A first load onto a target that keeps its partitioning is the one case in
\* which staging forgets rows the target has.
Overlaid == pc = "saveFull" /\ Exists(target) /\ target.layout = feed.layout

Staging ==
    /\ StagingStep
    /\ raced' = IF pc = "saveFull" THEN FALSE ELSE raced
    /\ disturbed' = (disturbed \/ Overlaid)
    /\ UNCHANGED target

\* The history variables watch the source while a first load is in progress.
SourceStep ==
    /\ SourceCommit
    /\ raced' = (raced \/ source'.rows # source.rows)
    /\ UNCHANGED <<target, disturbed>>

SpecsStep == ChangePartitionKeys /\ UNCHANGED <<target, cdcHistory>>

-----------------------------------------------------------------------------
(* IncrementalCDC.load after staging.                                      *)

\* No row events: not a success, skipped.
NoChanges ==
    /\ pc = "apply" /\ StagedEvents = NoEvents
    /\ EndRun("nochange")
    /\ disturbed' = (disturbed \/ (Live /\ (raced \/ Exists(target))))
    /\ UNCHANGED <<environment, stagingTables, job, faults, target, raced>>

ReadEvents ==
    /\ pc = "apply" /\ StagedEvents # NoEvents
    /\ GoTo("write")
    /\ UNCHANGED <<environment, stagingTables, job, faults, target, cdcHistory>>

\* The partitioning was changed: the target is rebuilt from the staged rows and
\* the run is over.
RebuildTarget ==
    /\ pc = "write" /\ Exists(target) /\ target.layout # feed.layout
    /\ target' = [rows |-> StagedRows, layout |-> feed.layout, loadType |-> "none"]
    /\ disturbed' = (Live /\ raced)
    /\ EndRun("loaded")
    /\ UNCHANGED <<environment, stagingTables, job, faults, raced>>

\* There is no target: it is created from the events and the run is over.
CreateTarget ==
    /\ pc = "write" /\ ~ Exists(target)
    /\ target' = [rows |-> InitialRows(StagedEvents), layout |-> feed.layout,
                  loadType |-> "none"]
    /\ disturbed' = (disturbed \/ (Live /\ raced))
    /\ EndRun("loaded")
    /\ UNCHANGED <<environment, stagingTables, job, faults, raced>>

MergeTarget ==
    /\ pc = "write" /\ Exists(target) /\ target.layout = feed.layout
    /\ target' = [target EXCEPT !.rows = ApplyEvents(@, StagedEvents)]
    /\ disturbed' = (disturbed \/ (Live /\ raced))
    /\ GoTo("register")
    /\ UNCHANGED <<environment, stagingTables, job, faults, raced>>

\* data.load_type is set again; an empty target fails the run, after the fact.
Register ==
    /\ pc = "register"
    /\ target' = [target EXCEPT !.loadType = "INCREMENTAL_CDC"]
    /\ EndRun(IF Empty(target.rows) THEN "failed" ELSE "loaded")
    /\ UNCHANGED <<environment, stagingTables, job, faults, cdcHistory>>

\* A run that fails once t_full has changed and before its events are in the
\* target loses them.
FailInStaging ==
    /\ FailStaging
    /\ disturbed' = (disturbed \/ pc \notin {"version", "count", "compare", "saveFull", "merge"})
    /\ UNCHANGED <<target, raced>>

FailInLoad ==
    /\ pc \in {"apply", "write", "register"} /\ faults < MaxFaults
    /\ EndRun("failed")
    /\ faults' = faults + 1
    /\ target' \in IF pc = "write" /\ Exists(target) /\ target.layout # feed.layout
                   THEN {target, NoTable} ELSE {target}
    /\ disturbed' = (disturbed \/ pc # "register")
    /\ UNCHANGED <<environment, stagingTables, job, raced>>

Run ==
    \/ RejectLoadType \/ BeginRun \/ Staging
    \/ NoChanges \/ ReadEvents
    \/ RebuildTarget \/ CreateTarget \/ MergeTarget \/ Register

Next == SourceStep \/ SpecsStep \/ Run \/ FailInStaging \/ FailInLoad

\* The pipeline is launched again after every run, and a run goes on.
Spec == Init /\ [][Next]_cdcVars /\ WF_cdcVars(Run)

-----------------------------------------------------------------------------
(* Properties.                                                             *)

\* Every variable has its type.
TypeOK ==
    /\ StagingTypeOK
    /\ pc \in StagingSteps \cup {"write", "register"}
    /\ target \in TargetTable \cup {NoTable}
    /\ result \in {"none", "loaded", "skipped", "nochange", "failed"}
    /\ raced \in BOOLEAN /\ disturbed \in BOOLEAN

\* Between runs the target is the copy of the source that t_full is, row for
\* row, after any sequence of inserts, updates and deletes, empty sources and
\* changes of the partitioning; unless row events were lost to a failure, to a
\* commit to the source during a first load, or to a first load that did not
\* start a new target.
TargetMirrorsStaging ==
    pc = "idle" /\ ~ disturbed /\ Exists(full) /\ Exists(target) => target.rows = full.rows

\* A feed that does not allow unmatched deletes loses no row by a MERGE: only
\* changing the partitioning can take a row out of the target.
UnmatchedKept ==
    [][~ feed.deletes /\ Exists(target) /\ Exists(target') /\ target'.layout = target.layout
         => \A k \in Keys : target.rows[k] # Absent => target'.rows[k] # Absent]_cdcVars

\* The target keeps catching up with the source although runs fail, unless row
\* events were lost, the source is refused as empty, or the target belongs to
\* another load type.
CatchesUp ==
    []<>(\/ disturbed \/ Foreign
         \/ Empty(source.rows)
         \/ Exists(target) /\ \A k \in Keys : source.rows[k] \in {Absent, target.rows[k]})

=============================================================================
