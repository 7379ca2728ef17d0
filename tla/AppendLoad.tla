----------------------------- MODULE AppendLoad -----------------------------
(***************************************************************************)
(* One APPEND_LOAD feed, run again and again: the keyed staging layer and  *)
(* AppendLoad.load, which appends to the target the rows that are new in   *)
(* t_full. Updates and deletes of the source never reach the target: each  *)
(* key has the sequence of the values it was appended with.                *)
(***************************************************************************)
EXTENDS StagingLayer, Sequences, FiniteSets

VARIABLES target,     \* target table: rows, partitioning, data.load_type
          counted,    \* local: total rows the target must have after the append
          arrivals,   \* history: the values with which a key came into t_full
          known,      \* history: the rows t_full held last, dropped or not
          fresh,      \* history: the keys that came into t_full in this run
          raced,      \* history: the source changed since this run wrote t_full
          disturbed   \* history: arrivals were lost, or appended again

ofRun == <<counted, fresh, raced>>
appendVars == <<stagingVars, target, ofRun, arrivals, known, disturbed>>

\* What is only about the run in progress.
Forgotten == counted' = 0 /\ fresh' = {} /\ raced' = FALSE

LoadTypes == {"none", "APPEND_LOAD", "SCD_TYPE_2"}
TargetTable == [rows : [Keys -> Seq(Vals)], layout : Layouts, loadType : LoadTypes]

ASSUME TargetAssumption ==
    /\ IsFiniteSet(Keys)
    /\ NoTable \notin TargetTable
    /\ NoTable \notin [Keys -> Seq([val : Vals, open : BOOLEAN, expired : BOOLEAN])]

NoRows == [k \in Keys |-> <<>>]

\* Number of rows of a target: every row is one of the versions of its key.
RowCount(rows) == Cardinality(UNION {{k} \X DOMAIN rows[k] : k \in Keys})

-----------------------------------------------------------------------------
(* Rows to append.                                                         *)

\* Faulty variant: the filter keeps whatever is not a delete.
AppendUpserts(events) ==
    [k \in Keys |-> IF events[k].op \in {"insert", "update"} THEN <<events[k].val>> ELSE <<>>]

\* prepare_append_inserts: of the events only the inserts.
AppendInserts(events) ==
    [k \in Keys |-> IF events[k].op = "insert" THEN <<events[k].val>> ELSE <<>>]

Appended(rows, inserts) == [k \in Keys |-> rows[k] \o inserts[k]]

TargetRows == IF Exists(target) THEN target.rows ELSE NoRows

\* _target_partition_mismatch
TargetMismatch == Exists(target) /\ target.layout # feed.layout

-----------------------------------------------------------------------------

Init ==
    /\ StagingInit
    /\ target \in {NoTable} \cup [rows : {NoRows}, layout : {feed.layout}, loadType : {"SCD_TYPE_2"}]
    /\ counted = 0
    /\ arrivals = NoRows /\ known = [k \in Keys |-> Absent] /\ fresh = {}
    /\ raced = FALSE /\ disturbed = FALSE

Foreign == Exists(target) /\ target.loadType \notin {"none", "APPEND_LOAD"}

\* _enforce_load_type_consistency: HF045, or the target is registered.
RejectLoadType ==
    /\ pc = "idle" /\ Foreign
    /\ EndRun("failed")
    /\ UNCHANGED <<environment, stagingTables, job, faults, target, ofRun, arrivals, known, disturbed>>

BeginRun ==
    /\ pc = "idle" /\ ~ Foreign
    /\ target' = IF Exists(target) THEN [target EXCEPT !.loadType = "APPEND_LOAD"] ELSE target
    /\ GoTo("version")
    /\ UNCHANGED <<environment, stagingTables, job, faults, ofRun, arrivals, known, disturbed>>

\* Rows come into t_full when it is written or merged.
Arriving == IF pc \in {"saveFull", "merge"} /\ Exists(full')
            THEN {k \in Keys : known[k] = Absent /\ full'.rows[k] # Absent} ELSE {}

Arrive ==
    /\ known' = IF pc \in {"saveFull", "merge"} /\ Exists(full') THEN full'.rows ELSE known
    /\ arrivals' = [k \in Keys |-> IF k \in Arriving THEN Append(arrivals[k], full'.rows[k])
                                   ELSE arrivals[k]]

\* Staging starts again next to a target that keeps its partitioning: rows the
\* target has are inserts once more.
Overlaid == pc = "saveFull" /\ Exists(target) /\ ~ TargetMismatch

Staging ==
    /\ StagingStep
    /\ Arrive
    /\ fresh' = IF pc' = "idle" THEN {} ELSE fresh \cup Arriving
    /\ disturbed' = (disturbed \/ Overlaid \/ (pc = "saveIncr" /\ ~ full.cdf))
    /\ raced' = (raced /\ pc \notin {"compare", "saveFull"} /\ pc' # "idle")
    /\ UNCHANGED <<target, counted>>

\* The history variables watch the source while a first load is in progress.
SourceStep ==
    /\ SourceCommit
    /\ raced' = (raced \/ (pc # "idle" /\ Live /\ source'.rows # source.rows))
    /\ UNCHANGED <<target, counted, arrivals, known, fresh, disturbed>>

SpecsStep == ChangePartitionKeys /\ UNCHANGED <<target, ofRun, arrivals, known, disturbed>>

-----------------------------------------------------------------------------
(* AppendLoad.load after staging.                                          *)

\* Faulty variant: the rebuild starts from the staged rows.
RebuildFromStaging ==
    /\ pc = "apply" /\ TargetMismatch
    /\ target' = [rows |-> AppendInserts(Inserts(StagedRows)), layout |-> feed.layout,
                  loadType |-> "none"]
    /\ disturbed' = (disturbed \/ fresh # {})
    /\ EndRun("loaded")
    /\ Forgotten
    /\ UNCHANGED <<environment, stagingTables, job, faults, arrivals, known>>

\* The partitioning was changed: the target is rebuilt from itself, and the run
\* is over although its inserts are not appended.
RebuildTarget ==
    /\ pc = "apply" /\ TargetMismatch
    /\ target' = [rows |-> target.rows, layout |-> feed.layout, loadType |-> "none"]
    /\ disturbed' = (disturbed \/ fresh # {})
    /\ EndRun("loaded")
    /\ Forgotten
    /\ UNCHANGED <<environment, stagingTables, job, faults, arrivals, known>>

\* Faulty variant: any update or delete hides the inserts.
NothingIfMixed ==
    /\ pc = "apply" /\ ~ TargetMismatch
    /\ \/ AppendInserts(StagedEvents) = NoRows
       \/ \E k \in Keys : StagedEvents[k].op \in {"update", "delete"}
    /\ EndRun("nochange")
    /\ disturbed' = (disturbed \/ raced)
    /\ Forgotten
    /\ UNCHANGED <<environment, stagingTables, job, faults, target, arrivals, known>>

\* "No new inserts to append": success, skipped.
NothingToAppend ==
    /\ pc = "apply" /\ ~ TargetMismatch
    /\ AppendInserts(StagedEvents) = NoRows
    /\ EndRun("nochange")
    /\ disturbed' = (disturbed \/ raced)
    /\ Forgotten
    /\ UNCHANGED <<environment, stagingTables, job, faults, target, arrivals, known>>

\* The inserts are counted, and the rows that are there already.
CountInserts ==
    /\ pc = "apply" /\ ~ TargetMismatch
    /\ AppendInserts(StagedEvents) # NoRows
    /\ counted' = RowCount(Appended(TargetRows, AppendInserts(StagedEvents)))
    /\ GoTo("append")
    /\ UNCHANGED <<environment, stagingTables, job, faults, target,
                   fresh, raced, arrivals, known, disturbed>>

\* The append commits; a first load scans the source once more for it.
AppendRows ==
    /\ pc = "append"
    /\ target' = [rows |-> Appended(TargetRows, AppendInserts(StagedEvents)),
                  layout |-> feed.layout,
                  loadType |-> IF Exists(target) THEN target.loadType ELSE "none"]
    /\ disturbed' = (disturbed \/ raced)
    /\ GoTo("register")
    /\ UNCHANGED <<environment, stagingTables, job, faults, ofRun, arrivals, known>>

\* data.load_type is set and the rows are counted: a different number fails the
\* run, after the fact.
Register ==
    /\ pc = "register"
    /\ target' = [target EXCEPT !.loadType = "APPEND_LOAD"]
    /\ EndRun(IF RowCount(target.rows) = counted THEN "loaded" ELSE "failed")
    /\ Forgotten
    /\ UNCHANGED <<environment, stagingTables, job, faults, arrivals, known, disturbed>>

\* A run that fails after rows came into t_full and before they are appended
\* loses them; a rebuild that fails half done loses the target.
FailInStaging ==
    /\ FailStaging
    /\ Arrive
    /\ disturbed' = (disturbed \/ pc \notin {"version", "count", "compare", "saveFull", "merge"})
    /\ Forgotten
    /\ UNCHANGED target

FailInLoad ==
    /\ pc \in {"apply", "append", "register"} /\ faults < MaxFaults
    /\ EndRun("failed")
    /\ faults' = faults + 1
    /\ target' \in IF pc = "apply" /\ TargetMismatch THEN {target, NoTable} ELSE {target}
    /\ disturbed' = (disturbed \/ pc # "register")
    /\ Forgotten
    /\ UNCHANGED <<environment, stagingTables, job, arrivals, known>>

Run ==
    \/ RejectLoadType \/ BeginRun \/ Staging
    \/ RebuildTarget \/ NothingToAppend \/ CountInserts \/ AppendRows \/ Register

Next == SourceStep \/ SpecsStep \/ Run \/ FailInStaging \/ FailInLoad

\* The pipeline is launched again after every run, and a run goes on.
Spec == Init /\ [][Next]_appendVars /\ WF_appendVars(Run)

-----------------------------------------------------------------------------
(* Properties.                                                             *)

\* Every variable has its type.
TypeOK ==
    /\ StagingTypeOK
    /\ pc \in StagingSteps \cup {"append", "register"}
    /\ target \in TargetTable \cup {NoTable}
    /\ counted \in Nat
    /\ result \in {"none", "loaded", "skipped", "nochange", "failed"}
    /\ arrivals \in [Keys -> Seq(Vals)] /\ known \in Rows /\ fresh \subseteq Keys
    /\ raced \in BOOLEAN /\ disturbed \in BOOLEAN

\* Between runs the target holds every row that ever came into t_full, with the
\* value it came with, exactly once and in order: across updates, deletes and
\* returns of the key, skipped runs and changes of the partitioning, as long as
\* those bring no rows of their own. Where the code loses or repeats arrivals
\* (disturbed), all bets are off.
AppendedOnce ==
    pc = "idle" /\ ~ disturbed /\ ~ Foreign => TargetRows = arrivals

\* The target is an append-only history of its keys: "append target row count
\* decreased (should never shrink)" is a failure to the end-to-end validators.
History ==
    INSTANCE HistoryTable WITH
      table <- IF ~ Exists(target) THEN NoTable
               ELSE [k \in Keys |-> [i \in DOMAIN target.rows[k] |->
                       [val |-> target.rows[k][i], open |-> TRUE, expired |-> FALSE]]]
ImplementsHistory == History!Spec

\* The target keeps catching up with new keys of the source although runs fail,
\* unless arrivals were lost, the source is refused as empty, or the target
\* belongs to another load type.
CatchesUp ==
    []<>(\/ disturbed \/ Foreign
         \/ Empty(source.rows)
         \/ Exists(target) /\ \A k \in Keys : source.rows[k] # Absent => target.rows[k] # <<>>)

\* To the end-to-end validators a source row that is not appended is a failure:
\* after a run that loaded the source's present version, every key of the
\* source is in the target.
NewRowsAppended ==
    /\ pc = "idle" /\ result = "loaded"
    /\ Exists(full) /\ full.stamp = source.ver
    => \A k \in Keys : source.rows[k] # Absent => target.rows[k] # <<>>

=============================================================================
