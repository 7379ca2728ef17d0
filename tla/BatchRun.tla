------------------------------ MODULE BatchRun ------------------------------
(***************************************************************************)
(* One run of the Orchestrator: launch validation, bronze ingest, pre-load *)
(* data quality, medallion loads, post-load data quality, report, lineage, *)
(* and the shutdown steps of the finally block.                            *)
(*                                                                         *)
(* Each of the two loads is a batch handed to a DataLoadController, of     *)
(* which only the contract LoadBatch is used. Of a table the model keeps   *)
(* whether its rows would pass the checks configured on it.                *)
(*                                                                         *)
(* Nobody but the feeds of the run writes a table while it lasts. Feed     *)
(* specs that passed validation parse, so nothing of the per-feed loops    *)
(* over them raises outside the try blocks of the loops.                   *)
(***************************************************************************)
EXTENDS FiniteSets

CONSTANTS Bronze, Medallion, \* SOURCE_TO_BRONZE feeds, and the others
          Upstream,          \* medallion feed -> the feed whose target is its source
          CheckConfigs,      \* the checks a feed may have: subsets of CheckKinds
          NoResult,          \* no LoadResult for a feed
          NoEntry            \* no row in the data quality manifest

AllFeeds == Bronze \cup Medallion

\* standard_checks, and comprehensive_checks of stage PRE_LOAD and POST_LOAD.
CheckKinds == {"standard", "pre", "post"}

\* The rows of a table: it does not exist, they pass the checks, they fail.
Tables == {"none", "clean", "dirty"}

Loaded    == [success |-> TRUE,  skipped |-> FALSE]
Skipped   == [success |-> TRUE,  skipped |-> TRUE]
NoChanges == [success |-> FALSE, skipped |-> TRUE]
Failed    == [success |-> FALSE, skipped |-> FALSE]
Results   == {Loaded, Skipped, NoChanges, Failed}

Entries == [ingest : BOOLEAN, post : {"none", "passed", "failed"}]

ASSUME BatchRunAssumption ==
    /\ Bronze \cap Medallion = {}
    /\ Upstream \in [Medallion -> AllFeeds]
    /\ CheckConfigs \subseteq SUBSET CheckKinds
    /\ NoResult \notin Results /\ NoEntry \notin Entries

VARIABLES specs,      \* master specs: the active feeds and their checks (never change)
          table,      \* feed -> its target table
          pc,         \* the phase the run is in
          batch, outcome, reported, phase,  \* the controller in use: see LoadBatch
          manifest,   \* dq_runner.results
          results,    \* load_results of _validate_and_load
          errors,     \* the phases recorded in _phase_errors
          runResults, \* _last_load_results, part of the RunResult
          status,     \* RunResult.status
          excel,      \* what the Excel report was last written from
          closed,     \* the steps of _finalize_run that were reached
          loadedFrom  \* history: the rows each load of this run copied

controller == <<batch, outcome, reported, phase>>
locals == <<manifest, results>>
outputs == <<runResults, excel>>
vars == <<specs, table, pc, controller, locals, errors, outputs, status, closed, loadedFrom>>

LB == INSTANCE LoadBatch WITH Feeds <- AllFeeds

ActiveBronze == specs.active \cap Bronze
ActiveMedallion == specs.active \cap Medallion
Checks(f) == specs.checks[f]

-----------------------------------------------------------------------------
(* Running a phase.                                                        *)

\* run_phase records an exception and lets the run go on.
Recorded(name, failed) == errors' = IF failed THEN errors \cup {name} ELSE errors

\* _emit_run_report writes the report, or records that it could not.
EmitReport(content) ==
    \E failed \in BOOLEAN :
        /\ Recorded("result_generator", failed)
        /\ excel' = IF failed THEN excel ELSE content

\* A new DataLoadController.
NewController(feeds) ==
    /\ batch' = feeds
    /\ outcome' = LB!Nothing /\ reported' = LB!Nothing
    /\ phase' = "running"

\* load_results.extend(controller.get_load_results())
Extended == [f \in AllFeeds |-> IF reported[f] = NoResult THEN results[f] ELSE reported[f]]

Init ==
    /\ specs \in [active : SUBSET AllFeeds, checks : [Medallion -> CheckConfigs]]
    /\ table \in [AllFeeds -> Tables]
    /\ pc = "launch"
    /\ batch = {} /\ outcome = LB!Nothing /\ reported = LB!Nothing /\ phase = "returned"
    /\ manifest = [f \in Medallion |-> NoEntry]
    /\ results = LB!Nothing
    /\ errors = {}
    /\ runResults = LB!Nothing
    /\ status = "FAILED"
    /\ excel = "none"
    /\ closed = {}
    /\ loadedFrom = [f \in AllFeeds |-> "none"]

-----------------------------------------------------------------------------
(* _system_prerequisites                                                   *)

LaunchPasses ==
    /\ pc = "launch"
    /\ status' = "COMPLETED_WITH_ERRORS"
    /\ pc' = "bronze"
    /\ UNCHANGED <<specs, table, controller, locals, errors, outputs, closed, loadedFrom>>

\* A rule fails: an empty report, and run() returns through its finally block.
LaunchFails ==
    /\ pc = "launch"
    /\ status' = "VALIDATION_FAILED"
    /\ EmitReport("empty")
    /\ pc' = "summary"
    /\ UNCHANGED <<specs, table, controller, locals, runResults, closed, loadedFrom>>

\* The master specs were never read (the file or a sheet is missing):
\* get_validated_master_specs raises HF091 past the report.
LaunchRaises ==
    /\ pc = "launch"
    /\ errors' = errors \cup {"orchestrator"}
    /\ status' = "FAILED"
    /\ pc' = "summary"
    /\ UNCHANGED <<specs, table, controller, locals, outputs, closed, loadedFrom>>

-----------------------------------------------------------------------------
(* _validate_and_load                                                      *)

StartBronze ==
    /\ pc = "bronze"
    /\ IF ActiveBronze = {}
       THEN pc' = "medallion" /\ UNCHANGED controller
       ELSE pc' = "extract" /\ NewController(ActiveBronze)
    /\ UNCHANGED <<specs, table, locals, errors, outputs, status, closed, loadedFrom>>

\* What feed f reads: files or an API, or its source table.
SourceRows(f) == IF f \in Bronze THEN {"clean", "dirty"} ELSE {table[Upstream[f]]}

\* A feed of the batch ends. A failed load may leave its target as it was,
\* dropped, or written.
LoadFeed(f) ==
    /\ pc \in {"extract", "ingest"}
    /\ LB!Finish(f)
    /\ \E rows \in SourceRows(f) :
         CASE outcome'[f] = Loaded ->
                /\ rows # "none"
                /\ table' = [table EXCEPT ![f] = rows]
                /\ loadedFrom' = [loadedFrom EXCEPT ![f] = rows]
           [] outcome'[f] = Failed ->
                /\ \E t \in {table[f], "none", rows} : table' = [table EXCEPT ![f] = t]
                /\ UNCHANGED loadedFrom
           [] OTHER -> UNCHANGED <<table, loadedFrom>>
    /\ UNCHANGED <<specs, pc, locals, errors, outputs, status, closed>>

ControllerReturns ==
    /\ pc \in {"extract", "ingest"}
    /\ LB!Return
    /\ UNCHANGED <<specs, table, pc, locals, errors, outputs, status, closed, loadedFrom>>

\* The bronze results join the list.
BronzeEnds ==
    /\ pc = "extract" /\ phase = "returned"
    /\ results' = Extended
    /\ pc' = "medallion"
    /\ UNCHANGED <<specs, table, controller, manifest, errors, outputs, status, closed, loadedFrom>>

\* controller.run() raises, which ends _validate_and_load without a report.
BronzeRaises ==
    /\ pc = "extract"
    /\ LB!Raise
    /\ errors' = errors \cup {"validate_and_load"}
    /\ pc' = "lineage"
    /\ UNCHANGED <<specs, table, locals, outputs, status, closed, loadedFrom>>

\* No medallion feed: the results are kept and reported.
NoMedallion ==
    /\ pc = "medallion" /\ ActiveMedallion = {}
    /\ runResults' = results
    /\ EmitReport("results")
    /\ pc' = "lineage"
    /\ UNCHANGED <<specs, table, controller, locals, status, closed, loadedFrom>>

StartPreLoad ==
    /\ pc = "medallion" /\ ActiveMedallion # {}
    /\ pc' = "preLoad"
    /\ UNCHANGED <<specs, table, controller, locals, errors, outputs, status, closed, loadedFrom>>

-----------------------------------------------------------------------------
(* FeedDataQualityRunner                                                   *)

\* Faulty variant: comprehensive checks do not gate.
StandardOnly(f, broken) ==
    "standard" \in Checks(f) => table[Upstream[f]] = "clean" /\ ~ broken

\* _can_ingest: every configured gating check has run and passed. A check on a
\* missing table raises, and any check may raise.
CanIngest(f, broken) ==
    Checks(f) \cap {"standard", "pre"} # {} => table[Upstream[f]] = "clean" /\ ~ broken

\* Faulty variant: the row of a feed that was blocked has no post-load column.
CheckFeedBare(f) ==
    /\ pc = "preLoad" /\ f \in ActiveMedallion /\ manifest[f] = NoEntry
    /\ \E broken \in BOOLEAN :
         manifest' = [manifest EXCEPT ![f] =
            IF CanIngest(f, broken) THEN [ingest |-> TRUE, post |-> "none"] ELSE [ingest |-> FALSE]]
    /\ UNCHANGED <<specs, table, pc, controller, results, errors, outputs, status, closed, loadedFrom>>

\* The gating checks of one feed; exceptions stay with that feed.
CheckFeed(f) ==
    /\ pc = "preLoad" /\ f \in ActiveMedallion /\ manifest[f] = NoEntry
    /\ \E broken \in BOOLEAN :
         manifest' = [manifest EXCEPT ![f] = [ingest |-> CanIngest(f, broken), post |-> "none"]]
    /\ UNCHANGED <<specs, table, pc, controller, results, errors, outputs, status, closed, loadedFrom>>

Ingestible == {f \in ActiveMedallion : manifest[f] # NoEntry /\ manifest[f].ingest}

\* Every feed has been checked: the approved ones go to a new controller.
StartMedallion ==
    /\ pc = "preLoad" /\ \A f \in ActiveMedallion : manifest[f] # NoEntry
    /\ IF Ingestible = {}
       THEN pc' = "postLoad" /\ UNCHANGED controller
       ELSE pc' = "ingest" /\ NewController(Ingestible)
    /\ UNCHANGED <<specs, table, locals, errors, outputs, status, closed, loadedFrom>>

MedallionEnds ==
    /\ pc = "ingest" /\ phase = "returned"
    /\ results' = Extended
    /\ pc' = "postLoad"
    /\ UNCHANGED <<specs, table, controller, manifest, errors, outputs, status, closed, loadedFrom>>

\* Faulty variant: the exception is logged and not recorded.
MedallionRaisesUnrecorded ==
    /\ pc = "ingest"
    /\ LB!Raise
    /\ pc' = "postLoad"
    /\ UNCHANGED <<specs, table, locals, errors, outputs, status, closed, loadedFrom>>

\* controller.run() raises: a phase error, and no result of the batch.
MedallionRaises ==
    /\ pc = "ingest"
    /\ LB!Raise
    /\ errors' = errors \cup {"medallion_load"}
    /\ pc' = "postLoad"
    /\ UNCHANGED <<specs, table, locals, outputs, status, closed, loadedFrom>>

\* Faulty variant: the approved feeds are taken for the loaded ones.
ApprovedFeeds == Ingestible

\* loaded_feed_ids
LoadedFeeds == {f \in ActiveMedallion : reported[f] = Loaded}

\* run_post_load_checks: only loaded feeds are checked, the others NOT_RUN;
\* failures and exceptions are noted and change nothing else.
PostLoadChecks ==
    /\ pc = "postLoad"
    /\ \E broken \in SUBSET Medallion :
         manifest' = [f \in Medallion |->
            IF manifest[f] = NoEntry THEN NoEntry
            ELSE IF "post" \notin Checks(f) \/ f \notin LoadedFeeds THEN manifest[f]
            ELSE [manifest[f] EXCEPT !.post =
                    IF table[f] = "clean" /\ f \notin broken THEN "passed" ELSE "failed"]]
    /\ pc' = "report"
    /\ UNCHANGED <<specs, table, controller, results, errors, outputs, status, closed, loadedFrom>>

\* Faulty variant: the results of the medallion batch replace the others.
ReportMedallion ==
    /\ pc = "report"
    /\ runResults' = reported
    /\ EmitReport("results")
    /\ pc' = "lineage"
    /\ UNCHANGED <<specs, table, controller, locals, status, closed, loadedFrom>>

Report ==
    /\ pc = "report"
    /\ runResults' = results
    /\ EmitReport("results")
    /\ pc' = "lineage"
    /\ UNCHANGED <<specs, table, controller, locals, status, closed, loadedFrom>>

-----------------------------------------------------------------------------
(* The end of run()                                                        *)

Lineage ==
    /\ pc = "lineage"
    /\ \E failed \in BOOLEAN : Recorded("lineage_diagram", failed)
    /\ pc' = "status"
    /\ UNCHANGED <<specs, table, controller, locals, outputs, status, closed, loadedFrom>>

\* COMPLETED, if no phase has recorded an error.
Decide ==
    /\ pc = "status"
    /\ status' = IF errors = {} THEN "COMPLETED" ELSE status
    /\ pc' = "summary"
    /\ UNCHANGED <<specs, table, controller, locals, errors, outputs, closed, loadedFrom>>

\* Faulty variant: a failure to write the summary ends the run.
CloseUnguarded ==
    /\ pc \in {"summary", "archive", "cleanup"}
    /\ closed' = closed \cup {pc}
    /\ \E failed \in BOOLEAN :
         pc' = CASE pc = "summary" /\ ~ failed -> "archive"
                 [] pc = "archive" -> "cleanup"
                 [] OTHER -> "done"
    /\ UNCHANGED <<specs, table, controller, locals, errors, outputs, status, loadedFrom>>

\* _finalize_run: each step is tried, whether or not the one before it failed.
Close ==
    /\ pc \in {"summary", "archive", "cleanup"}
    /\ closed' = closed \cup {pc}
    /\ pc' = CASE pc = "summary" -> "archive"
               [] pc = "archive" -> "cleanup"
               [] OTHER -> "done"
    /\ UNCHANGED <<specs, table, controller, locals, errors, outputs, status, loadedFrom>>

Next ==
    \/ LaunchPasses \/ LaunchFails \/ LaunchRaises
    \/ StartBronze \/ BronzeEnds \/ BronzeRaises \/ NoMedallion
    \/ StartPreLoad \/ (\E f \in Medallion : CheckFeed(f))
    \/ StartMedallion \/ (\E f \in AllFeeds : LoadFeed(f)) \/ ControllerReturns
    \/ MedallionEnds \/ MedallionRaises
    \/ PostLoadChecks \/ Report
    \/ Lineage \/ Decide \/ Close

\* No phase of the run waits for anything but itself.
Spec == Init /\ [][Next]_vars /\ WF_vars(Next)

-----------------------------------------------------------------------------
(* Properties.                                                             *)

Phases == {"launch", "bronze", "extract", "medallion", "preLoad", "ingest", "postLoad",
           "report", "lineage", "status", "summary", "archive", "cleanup", "done"}

\* Every variable has its type.
TypeOK ==
    /\ specs \in [active : SUBSET AllFeeds, checks : [Medallion -> CheckConfigs]]
    /\ table \in [AllFeeds -> Tables]
    /\ pc \in Phases
    /\ batch \subseteq AllFeeds
    /\ outcome \in [AllFeeds -> Results \cup {NoResult}]
    /\ reported \in [AllFeeds -> Results \cup {NoResult}]
    /\ phase \in {"running", "returned", "raised"}
    /\ manifest \in [Medallion -> Entries \cup {NoEntry}]
    /\ results \in [AllFeeds -> Results \cup {NoResult}]
    /\ errors \subseteq {"orchestrator", "validate_and_load", "medallion_load",
                         "result_generator", "lineage_diagram"}
    /\ runResults \in [AllFeeds -> Results \cup {NoResult}]
    /\ status \in {"FAILED", "VALIDATION_FAILED", "COMPLETED_WITH_ERRORS", "COMPLETED"}
    /\ excel \in {"none", "empty", "results"}
    /\ closed \subseteq {"summary", "archive", "cleanup"}
    /\ loadedFrom \in [AllFeeds -> Tables]

Gated(f) == Checks(f) \cap {"standard", "pre"} # {}

\* The pre-load gate holds for what bronze ingest has just brought in: rows that
\* would fail the configured checks are never copied out of a bronze table.
BronzeGateHolds ==
    \A f \in ActiveMedallion :
        Gated(f) /\ Upstream[f] \in Bronze => loadedFrom[f] # "dirty"

\* A post-load verdict is about the rows this very run has loaded: there is none
\* for a feed that was blocked, failed, skipped or was never dispatched, and
\* one that passed is not that of an older table.
PostLoadIsAboutLoad ==
    \A f \in ActiveMedallion :
        manifest[f] # NoEntry /\ manifest[f].post # "none" =>
            /\ loadedFrom[f] # "none"
            /\ manifest[f].post = "passed" => loadedFrom[f] = "clean"

\* No outcome is lost on the way to the RunResult. Unless bronze ingest was cut
\* short, every bronze feed has its result, whatever became of the medallion
\* batch; and unless that was cut short too, every other feed has its result or
\* was blocked by its checks.
EveryFeedAccountedFor ==
    pc = "done" /\ status \in {"COMPLETED", "COMPLETED_WITH_ERRORS"} =>
        /\ "validate_and_load" \notin errors =>
             \A f \in ActiveBronze : runResults[f] # NoResult
        /\ errors \cap {"validate_and_load", "medallion_load"} = {} =>
             \A f \in ActiveMedallion : runResults[f] # NoResult \/ ~ manifest[f].ingest

\* What a run that says COMPLETED can be taken at its word for. It is less than
\* the "All feeds succeeded" of documentation/modules/ORCHESTRATOR.md:77: the code
\* counts exceptions of phases only (orchestrator.py:142), so feeds may have failed
\* or been blocked. But none of that is hidden: the report was written; every
\* feed of either batch has a result unless its checks blocked it; a result says
\* loaded for exactly the feeds that were loaded, in the bronze batch and in the
\* medallion batch that follows; and what was loaded has its post-load verdict.
CompletedHidesNothing ==
    status = "COMPLETED" =>
        /\ excel = "results"
        /\ \A f \in ActiveMedallion : manifest[f] # NoEntry
        /\ \A f \in specs.active :
             /\ runResults[f] = NoResult => f \in Medallion /\ ~ manifest[f].ingest
             /\ runResults[f] = Loaded <=> loadedFrom[f] # "none"
        /\ \A f \in ActiveMedallion :
             runResults[f] = Loaded /\ "post" \in Checks(f) => manifest[f].post # "none"

\* The run always ends, with the summary written, the log archived and the
\* retention applied as far as each of them can be: a failure of one of the
\* steps does not keep the run from the next one.
FinallyRuns == <>(pc = "done" /\ closed = {"summary", "archive", "cleanup"})

=============================================================================
