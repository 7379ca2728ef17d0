------------------------------ MODULE SCDType2 ------------------------------
(***************************************************************************)
(* One SCD_TYPE_2 feed, run again and again: the keyed staging layer,      *)
(* SCDType2.load, which closes the active version of a changed row and     *)
(* inserts the new one with two MERGEs, and the retention of the system's  *)
(* cleanup, which deletes old rows of the target between runs. SCD targets *)
(* are the ones with a column it knows, _x_last_modification_timestamp.    *)
(*                                                                         *)
(* Of the timestamps only one thing is kept: whether the last modification *)
(* of a version is past the retention (expired).                           *)
(***************************************************************************)
EXTENDS StagingLayer, Sequences

VARIABLES target,     \* target table: versions of each key, partitioning, data.load_type
          known,      \* history: the rows t_full held last, dropped or not
          changed,    \* history: the keys whose row in t_full changed in this run
          raced,      \* history: the source changed since this run wrote t_full
          torn,       \* history: the two MERGEs of a run saw different events
          disturbed,  \* history: the target may have missed row events
          purged      \* history: keys whose active version the retention deleted

ofRun == <<changed, raced>>
lasting == <<known, torn, disturbed, purged>>
scdVars == <<stagingVars, target, ofRun, lasting>>

\* What is only about the run in progress.
Forgotten == changed' = {} /\ raced' = FALSE

LoadTypes == {"none", "SCD_TYPE_2", "INCREMENTAL_CDC"}
Version == [val : Vals, open : BOOLEAN, expired : BOOLEAN]
TargetTable == [rows : [Keys -> Seq(Version)], layout : Layouts, loadType : LoadTypes]

ASSUME TargetAssumption ==
    /\ NoTable \notin TargetTable
    /\ NoTable \notin [Keys -> Seq(Version)]

NoRows == [k \in Keys |-> <<>>]

Active(versions) == {i \in DOMAIN versions : versions[i].open}

-----------------------------------------------------------------------------
(* Row events applied to the versions of each key.                         *)

\* prepare_scd_stream: an active version that begins now.
NewVersion(event) == [val |-> event.val, open |-> TRUE, expired |-> FALSE]

\* The table is created from all events of the run, deletes included.
InitialVersions(events) ==
    [k \in Keys |-> IF events[k] = NoEvent THEN <<>> ELSE <<NewVersion(events[k])>>]

\* Faulty variant: versions that differ by hash stay active.
CloseDeleted(rows, events) ==
    [k \in Keys |->
        IF events[k].op = "delete"
        THEN [i \in DOMAIN rows[k] |-> [rows[k][i] EXCEPT !.open = FALSE]]
        ELSE rows[k]]

\* The closing MERGE: active versions that differ from the event by hash, or
\* whose row is deleted, are modified to be inactive.
CloseVersions(rows, events) ==
    [k \in Keys |->
        [i \in DOMAIN rows[k] |->
            LET version == rows[k][i]
            IN  IF /\ version.open /\ events[k] # NoEvent
                   /\ version.val # events[k].val \/ events[k].op = "delete"
                THEN [version EXCEPT !.open = FALSE, !.expired = FALSE]
                ELSE version]]

\* Faulty variant: the MERGE inserts whatever it does not match.
InsertAllVersions(rows, events) ==
    [k \in Keys |->
        IF events[k] # NoEvent /\ \A i \in Active(rows[k]) : rows[k][i].val # events[k].val
        THEN Append(rows[k], NewVersion(events[k]))
        ELSE rows[k]]

\* The inserting MERGE: events without an active version of equal hash become
\* one, unless they are deletes.
InsertVersions(rows, events) ==
    [k \in Keys |->
        IF /\ events[k].op \in {"insert", "update"}
           /\ \A i \in Active(rows[k]) : rows[k][i].val # events[k].val
        THEN Append(rows[k], NewVersion(events[k]))
        ELSE rows[k]]

\* Positions in ascending order.
InOrder(positions, n) ==
    CHOOSE at \in UNION {[1 .. m -> positions] : m \in 0 .. n} :
        /\ \A i, j \in DOMAIN at : i < j => at[i] < at[j]
        /\ \A p \in positions : \E i \in DOMAIN at : at[i] = p

\* What a DELETE of the rows last modified before the cutoff leaves of a key.
Unexpired(versions) ==
    LET at == InOrder({i \in DOMAIN versions : ~ versions[i].expired}, Len(versions))
    IN  [i \in DOMAIN at |-> versions[at[i]]]

\* _target_partition_mismatch
TargetMismatch == Exists(target) /\ target.layout # feed.layout

-----------------------------------------------------------------------------

Init ==
    /\ StagingInit
    /\ target \in {NoTable} \cup [rows : {NoRows}, layout : {feed.layout},
                                  loadType : {"INCREMENTAL_CDC"}]
    /\ known = [k \in Keys |-> Absent] /\ changed = {} /\ purged = {}
    /\ raced = FALSE /\ torn = FALSE /\ disturbed = FALSE

Foreign == Exists(target) /\ target.loadType \notin {"none", "SCD_TYPE_2"}

\* _enforce_load_type_consistency: HF045, or the target is registered.
RejectLoadType ==
    /\ pc = "idle" /\ Foreign
    /\ EndRun("failed")
    /\ UNCHANGED <<environment, stagingTables, job, faults, target, ofRun, lasting>>

BeginRun ==
    /\ pc = "idle" /\ ~ Foreign
    /\ target' = IF Exists(target) THEN [target EXCEPT !.loadType = "SCD_TYPE_2"] ELSE target
    /\ GoTo("version")
    /\ UNCHANGED <<environment, stagingTables, job, faults, ofRun, lasting>>

\* The history variables follow the rows of t_full.
Written == pc \in {"saveFull", "merge"} /\ Exists(full')
Changing == IF Written THEN {k \in Keys : known[k] # full'.rows[k]} ELSE {}

\* Staging starts again next to a target that keeps its partitioning: there is
\* no event for a row that is gone.
Overlaid == pc = "saveFull" /\ Exists(target) /\ ~ TargetMismatch

Staging ==
    /\ StagingStep
    /\ known' = IF Written THEN full'.rows ELSE known
    /\ changed' = IF pc' = "idle" THEN {} ELSE changed \cup Changing
    /\ disturbed' = (disturbed \/ Overlaid \/ (pc = "saveIncr" /\ ~ full.cdf))
    /\ raced' = (raced /\ pc \notin {"compare", "saveFull"} /\ pc' # "idle")
    /\ UNCHANGED <<target, torn, purged>>

\* The history variables watch the source while a first load is in progress.
SourceStep ==
    /\ SourceCommit
    /\ LET race == pc # "idle" /\ Live /\ source'.rows # source.rows
       IN  /\ raced' = (raced \/ race)
           /\ torn' = (torn \/ (race /\ pc = "insert"))
    /\ UNCHANGED <<target, known, changed, disturbed, purged>>

SpecsStep == ChangePartitionKeys /\ UNCHANGED <<target, ofRun, lasting>>

-----------------------------------------------------------------------------
(* SCDType2.load after staging.                                            *)

\* No row events: not a success, skipped. Staging that starts again from an
\* empty source has none for the rows that are gone.
NoChanges ==
    /\ pc = "apply" /\ StagedEvents = NoEvents
    /\ EndRun("nochange")
    /\ disturbed' = (disturbed \/ raced \/ changed # {})
    /\ Forgotten
    /\ UNCHANGED <<environment, stagingTables, job, faults, target, known, torn, purged>>

ReadEvents ==
    /\ pc = "apply" /\ StagedEvents # NoEvents
    /\ GoTo(CASE ~ Exists(target) -> "create"
              [] TargetMismatch   -> "rebuild"
              [] OTHER            -> "close")
    /\ UNCHANGED <<environment, stagingTables, job, faults, target, ofRun, lasting>>

\* Faulty variant: closed versions are not carried over.
RebuildActive ==
    /\ pc = "rebuild"
    /\ target' = [rows |-> [k \in Keys |-> SelectSeq(target.rows[k], LAMBDA v : v.open)],
                  layout |-> feed.layout, loadType |-> "none"]
    /\ disturbed' = (disturbed \/ changed # {})
    /\ EndRun(IF target.rows = NoRows THEN "failed" ELSE "loaded")
    /\ Forgotten
    /\ UNCHANGED <<environment, stagingTables, job, faults, known, torn, purged>>

\* The partitioning was changed: the target is rebuilt from itself and the run
\* is over although its events are not applied.
RebuildTarget ==
    /\ pc = "rebuild"
    /\ target' = [rows |-> target.rows, layout |-> feed.layout, loadType |-> "none"]
    /\ disturbed' = (disturbed \/ changed # {})
    /\ EndRun(IF target.rows = NoRows THEN "failed" ELSE "loaded")
    /\ Forgotten
    /\ UNCHANGED <<environment, stagingTables, job, faults, known, torn, purged>>

\* There is no target: CREATE TABLE, and then an append.
CreateTarget ==
    /\ pc = "create"
    /\ target' = [rows |-> NoRows, layout |-> feed.layout, loadType |-> "none"]
    /\ GoTo("fill")
    /\ UNCHANGED <<environment, stagingTables, job, faults, ofRun, lasting>>

FillTarget ==
    /\ pc = "fill"
    /\ target' = [target EXCEPT !.rows = InitialVersions(StagedEvents)]
    /\ disturbed' = (disturbed \/ raced)
    /\ EndRun("loaded")
    /\ Forgotten
    /\ UNCHANGED <<environment, stagingTables, job, faults, known, torn, purged>>

CloseChanged ==
    /\ pc = "close"
    /\ target' = [target EXCEPT !.rows = CloseVersions(@, StagedEvents)]
    /\ GoTo("insert")
    /\ UNCHANGED <<environment, stagingTables, job, faults, ofRun, lasting>>

InsertNew ==
    /\ pc = "insert"
    /\ target' = [target EXCEPT !.rows = InsertVersions(@, StagedEvents)]
    /\ purged' = {k \in purged : Active(target'.rows[k]) = {}}
    /\ disturbed' = (disturbed \/ raced)
    /\ GoTo("register")
    /\ UNCHANGED <<environment, stagingTables, job, faults, ofRun, known, torn>>

\* data.load_type is set; a target without rows fails the run, after the fact.
Register ==
    /\ pc = "register"
    /\ target' = [target EXCEPT !.loadType = "SCD_TYPE_2"]
    /\ EndRun(IF target.rows = NoRows THEN "failed" ELSE "loaded")
    /\ Forgotten
    /\ UNCHANGED <<environment, stagingTables, job, faults, lasting>>

\* A run that fails once t_full has changed and before both MERGEs loses row
\* events; a rebuild that fails half done loses the target.
FailInStaging ==
    /\ FailStaging
    /\ known' = IF Written THEN full'.rows ELSE known
    /\ disturbed' = (disturbed \/ pc \notin {"version", "count", "compare", "saveFull", "merge"})
    /\ Forgotten
    /\ UNCHANGED <<target, torn, purged>>

FailInLoad ==
    /\ pc \in {"apply", "rebuild", "create", "fill", "close", "insert", "register"}
    /\ faults < MaxFaults
    /\ EndRun("failed")
    /\ faults' = faults + 1
    /\ target' \in IF pc = "rebuild" THEN {target, NoTable} ELSE {target}
    /\ disturbed' = (disturbed \/ pc # "register")
    /\ Forgotten
    /\ UNCHANGED <<environment, stagingTables, job, known, torn, purged>>

-----------------------------------------------------------------------------
(* Retention.                                                              *)

\* A week (global_vacuum_hours) passes between two runs.
Expire ==
    /\ pc = "idle" /\ Exists(target)
    /\ target' = [target EXCEPT !.rows =
                    [k \in Keys |-> [i \in DOMAIN @[k] |-> [@[k][i] EXCEPT !.expired = TRUE]]]]
    /\ UNCHANGED <<stagingVars, ofRun, lasting>>

\* Cleanup after the loads of a run: DELETE of the rows last modified before the
\* cutoff, active ones too.
Retention ==
    /\ pc = "idle" /\ Exists(target)
    /\ \E k \in Keys : \E i \in DOMAIN target.rows[k] : target.rows[k][i].expired
    /\ target' = [target EXCEPT !.rows =
                    [k \in Keys |-> Unexpired(@[k])]]
    /\ purged' = purged \cup {k \in Keys : Active(target.rows[k]) # {}
                                           /\ Active(target'.rows[k]) = {}}
    /\ UNCHANGED <<stagingVars, ofRun, known, torn, disturbed>>

Run ==
    \/ RejectLoadType \/ BeginRun \/ Staging
    \/ NoChanges \/ ReadEvents \/ RebuildTarget \/ CreateTarget \/ FillTarget
    \/ CloseChanged \/ InsertNew \/ Register

Next ==
    \/ SourceStep \/ SpecsStep \/ Run \/ FailInStaging \/ FailInLoad
    \/ Expire \/ Retention

Spec == Init /\ [][Next]_scdVars

-----------------------------------------------------------------------------
(* Properties.                                                             *)

\* Every variable has its type.
TypeOK ==
    /\ StagingTypeOK
    /\ pc \in StagingSteps \cup {"rebuild", "create", "fill", "close", "insert", "register"}
    /\ target \in TargetTable \cup {NoTable}
    /\ result \in {"none", "loaded", "skipped", "nochange", "failed"}
    /\ known \in Rows /\ changed \subseteq Keys /\ purged \subseteq Keys
    /\ raced \in BOOLEAN /\ torn \in BOOLEAN /\ disturbed \in BOOLEAN

\* No key ever has two active versions, whatever row events were lost to
\* failures, rebuilds and the retention; the one exception is a source that
\* changes between the two MERGEs of a run that reads its events from it.
OneActivePerKey ==
    Exists(target) /\ ~ torn =>
        \A k \in Keys : \A i, j \in Active(target.rows[k]) : i = j

\* Between runs the active versions are the rows of t_full, value by value,
\* after any sequence of inserts, updates, deletes and returns of a key; except
\* for keys whose active version the retention deleted, which come back only
\* when their row changes, and where row events were lost (disturbed).
ActiveMirrorsStaging ==
    pc = "idle" /\ ~ disturbed /\ Exists(full) /\ Exists(target) /\ ~ Foreign =>
        \A k \in Keys \ purged :
            {target.rows[k][i].val : i \in Active(target.rows[k])} = {full.rows[k]} \ {Absent}

\* SCD Type 2 must retain history rows when attributes change: the target is a
\* history of its keys of which only what is past the retention is deleted.
History == INSTANCE HistoryTable WITH table <- IF Exists(target) THEN target.rows ELSE NoTable
ImplementsHistory == History!Spec

=============================================================================
