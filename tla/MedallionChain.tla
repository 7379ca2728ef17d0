--------------------------- MODULE MedallionChain ---------------------------
(***************************************************************************)
(* Two FULL_LOAD feeds of the medallion layout: the target of the silver   *)
(* feed is the source table of the gold feed. The feeds share nothing but  *)
(* that table. The controller runs the silver feed's group first, so a     *)
(* gold run begins and ends while no silver run is in progress.            *)
(***************************************************************************)
EXTENDS Integers

CONSTANTS Layouts, RowCounts, AllowEmptySource, SelectionQuery,
          MaxVersion, MaxFaults, NoTable, NoStamp

VARIABLES source, layout, faults, begunAt,
          full, incr, target, pc, job, result, lost,             \* the silver feed
          gFull, gIncr, gTarget, gPc, gJob, gResult, gLost       \* the gold feed

silverVars == <<full, incr, target, pc, job, result, lost>>
goldVars == <<gFull, gIncr, gTarget, gPc, gJob, gResult, gLost>>
chainVars == <<source, layout, faults, begunAt, silverVars, goldVars>>

Silver == INSTANCE FullLoad

\* What the gold feed sees of the silver target: a table, its Delta version
\* and its rows. Its partitioning and properties do not matter to a reader.
SilverTable == IF target = NoTable THEN NoTable
               ELSE [ver |-> target.ver, data |-> target.data]

Gold == INSTANCE FullLoad
        WITH source <- SilverTable, full <- gFull, incr <- gIncr, target <- gTarget,
             pc <- gPc, job <- gJob, result <- gResult, lost <- gLost

Init ==
    /\ Silver!Init /\ target = NoTable
    /\ gFull = NoTable /\ gTarget = NoTable /\ gIncr = FALSE
    /\ gPc = "idle" /\ gJob = [ver |-> 0, count |-> 0] /\ gResult = "none" /\ gLost = FALSE

SilverStep ==
    /\ gPc = "idle"
    /\ Silver!Run
    /\ UNCHANGED goldVars

GoldStep ==
    /\ pc = "idle"
    /\ UNCHANGED <<source, silverVars>>
    /\ Gold!Run

SourceStep ==
    /\ Silver!SourceCommit
    /\ UNCHANGED goldVars

Next == SilverStep \/ GoldStep \/ SourceStep

Spec == Init /\ [][Next]_chainVars

-----------------------------------------------------------------------------

\* "Source unchanged" is true when the gold feed concludes it: the snapshot it
\* keeps is a copy of the silver target as it is now. The overwrite gives the
\* silver target a new history that starts at version 0 again.
GoldSkipIsSound ==
    [][gPc # "idle" /\ gPc' = "idle" /\ gResult' = "unchanged"
         => gFull.data = SilverTable.data]_chainVars

=============================================================================
