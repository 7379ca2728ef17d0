--------------------------- MODULE FullLoad_proofs ---------------------------
(***************************************************************************)
(* Proofs about FullLoad: the safety properties its run checks hold for    *)
(* every number of commits, rows, partitionings and failures.              *)
(*                                                                         *)
(* The argument is about the source version a run reads before it reads    *)
(* any data. As versions only grow, a snapshot that was scanned later and  *)
(* is stamped with that version is either older than the source by version *)
(* number, or was scanned while the source had that very version.          *)
(***************************************************************************)
EXTENDS FullLoad, TLAPS

\* A run past the step "version" knows a version the source has reached.
Versioned == {"count", "compare", "save", "stamp", "snapshot", "purgeTarget",
              "saveTarget", "verify"}

\* A run past the step "save" works on the snapshot it has just written.
Staged == {"stamp", "snapshot", "purgeTarget", "saveTarget", "verify"}

\* Until a run replaces it, staging is the snapshot of an earlier run.
Settled == {"idle", "drop", "version", "count", "compare"}

\* The source is not dropped; a run knows a version it has had.
SourceInv ==
    /\ ~ Exists(source) => full = NoTable /\ pc \notin Versioned
    /\ pc \in Versioned => job.ver <= source.ver

\* What is staged is a copy of a source commit.
Copy(table) ==
    Exists(table) =>
        IF Exists(source)
        THEN /\ table.data.at <= source.data.at
             /\ table.data.at = source.data.at => table.data = source.data
        ELSE table.data.at = 0

\* A stamp is never ahead of the source, and while the source has the stamped
\* version the snapshot is its data. The same holds of the version a run is
\* about to stamp.
StampInv ==
    /\ Exists(full) /\ full.stamp # NoStamp =>
         /\ full.stamp <= source.ver
         /\ full.stamp = source.ver => full.data = source.data
    /\ pc = "stamp" /\ job.ver = source.ver => full.data = source.data

\* What is staged at each step of a run.
StagedInv ==
    /\ pc \in Staged => Exists(full)
    /\ pc = "save" => full = NoTable
    /\ pc = "stamp" => full.stamp = NoStamp
    /\ pc = "verify" => Exists(target) /\ target.data = full.data
    /\ pc \in {"purgeTarget", "saveTarget"} => full.data.rows > 0

\* How recent the snapshot is, compared with the beginning of the run.
FreshInv ==
    /\ IF Exists(source) THEN begunAt <= source.data.at ELSE begunAt = 0
    /\ pc \in Staged => full.data.at >= begunAt
    /\ pc \in {"count", "compare"} /\ Exists(full) /\ full.stamp = job.ver =>
         full.data.at >= begunAt

\* Unless a batch was lost, a stamped snapshot is in the target.
LoadedInv ==
    /\ pc \in Settled /\ Exists(full) /\ full.stamp # NoStamp
         /\ ~ lost /\ full.data.rows > 0
       => Exists(target) /\ target.data = full.data
    /\ pc = "idle" /\ result \in {"loaded", "unchanged"} => Exists(full)

IInv == TypeOK /\ SourceInv /\ Copy(full) /\ Copy(target) /\ StampInv /\ StagedInv
               /\ FreshInv /\ LoadedInv /\ ReportIsFresh /\ TargetFollowsStaging

-----------------------------------------------------------------------------

\* Tables are told apart from NoTable, stamps from NoStamp.
LEMMA Tables ==
    /\ \A t \in SourceTable \cup StagingTable \cup TargetTable : Exists(t)
    /\ ~ Exists(NoTable)
BY FullLoadAssumption DEF Exists

\* A source table that exists is a record with its fields typed.
LEMMA SourceFields ==
    ASSUME TypeOK, Exists(source)
    PROVE  source \in SourceTable /\ source.ver \in Nat /\ source.data \in Data
           /\ source.data.at \in Nat /\ source.data.rows \in Nat
BY DEF TypeOK, Exists, SourceTable, Data

\* So are a staging table and a target table.
LEMMA FullFields ==
    ASSUME TypeOK, Exists(full)
    PROVE  full \in StagingTable /\ full.data \in Data /\ full.layout \in Layouts
           /\ full.stamp \in Nat \cup {NoStamp}
           /\ full.data.at \in Nat /\ full.data.rows \in Nat
BY DEF TypeOK, Exists, StagingTable, Data

\* A target that exists is a record with its fields typed.
LEMMA TargetFields ==
    ASSUME TypeOK, Exists(target)
    PROVE  target \in TargetTable /\ target.ver \in Nat /\ target.data \in Data
           /\ target.layout \in Layouts /\ target.loadType \in LoadTypes
           /\ target.data.at \in Nat /\ target.data.rows \in Nat
BY DEF TypeOK, Exists, TargetTable, Data

-----------------------------------------------------------------------------

\* Type correctness of every step.
LEMMA TypeStep == TypeOK /\ SourceInv /\ StagedInv /\ [Next]_vars => TypeOK'
<1> SUFFICES ASSUME TypeOK, SourceInv, StagedInv, [Next]_vars PROVE TypeOK'
  OBVIOUS
<1> USE DEF env, ghost, Steps, GoTo, EndRun
<1>0. /\ source' = source => source' \in SourceTable \cup {NoTable}
      /\ full' = full => full' \in StagingTable \cup {NoTable}
      /\ target' = target => target' \in TargetTable \cup {NoTable}
      /\ layout \in Layouts /\ incr \in BOOLEAN /\ pc \in Steps
      /\ job \in [ver : Nat, count : Nat]
      /\ result \in {"none", "loaded", "unchanged", "empty", "failed"}
      /\ faults \in Nat /\ begunAt \in Nat /\ lost \in BOOLEAN
  BY DEF TypeOK
<1>b. (IF Exists(source) THEN source.data.at ELSE begunAt) \in Nat
  BY SourceFields DEF TypeOK
<1>1. CASE SourceCommit
  <2>1. PICK n \in RowCounts : source' = IF Exists(source)
                   THEN Written(source.ver + 1, source.data.at + 1, n)
                   ELSE Written(0, 1, n)
    BY <1>1 DEF SourceCommit
  <2>2. n \in Nat
    BY FullLoadAssumption
  <2>3. source' \in SourceTable
    BY <2>1, <2>2, SourceFields DEF SourceTable, Data, Written
  <2>4. QED
    BY <1>0, <1>1, <2>3 DEF SourceCommit, TypeOK
<1>2. CASE SourceMaintenance
  <2>1. source' \in SourceTable
    BY <1>2, SourceFields DEF SourceMaintenance, SourceTable
  <2>2. QED
    BY <1>0, <1>2, <2>1 DEF SourceMaintenance, TypeOK
<1>3. CASE ChangePartitionKeys
  BY <1>0, <1>3 DEF ChangePartitionKeys, TypeOK
<1>4. CASE RejectLoadType
  BY <1>0, <1>b, <1>4 DEF RejectLoadType, TypeOK
<1>5. CASE BeginRun
  <2>1. target' \in TargetTable \cup {NoTable}
    <3>1. CASE target' = target
      BY <1>0, <3>1
    <3>2. CASE target' # target
      <4>1. Exists(target)
            /\ target' = [target EXCEPT !.ver = @ + 1, !.loadType = "FULL_LOAD"]
        BY <1>5, <3>2 DEF BeginRun
      <4>2. target \in TargetTable /\ target.ver + 1 \in Nat
        BY <4>1, TargetFields
      <4>3. "FULL_LOAD" \in LoadTypes
        BY DEF LoadTypes
      <4>4. [target EXCEPT !.ver = @ + 1] \in TargetTable
        BY <4>2 DEF TargetTable
      <4>5. QED
        BY <4>1, <4>3, <4>4 DEF TargetTable
    <3>3. QED
      BY <3>1, <3>2
  <2>2. QED
    BY <1>0, <1>b, <1>5, <2>1 DEF BeginRun, TypeOK
<1>6. CASE DropIncremental
  BY <1>0, <1>6 DEF DropIncremental, TypeOK
<1>7. CASE ReadVersion
  BY <1>0, <1>7, SourceFields DEF ReadVersion, TypeOK
<1>8. CASE SourceMissing
  BY <1>0, <1>8 DEF SourceMissing, TypeOK
<1>9. CASE CountSource
  BY <1>0, <1>9 DEF CountSource, TypeOK
<1>10. CASE SkipUnchanged
  BY <1>0, <1>10 DEF SkipUnchanged, TypeOK
<1>11. CASE PurgeStaging
  BY <1>0, <1>11 DEF PurgeStaging, TypeOK
<1>12. CASE SaveStaging
  <2>1. full' \in StagingTable
    BY <1>0, <1>12, SourceFields DEF SaveStaging, StagingTable
  <2>2. QED
    BY <1>0, <1>12, <2>1 DEF SaveStaging, TypeOK
<1>13. CASE StampStaging
  <2>1. full' \in StagingTable
    BY <1>0, <1>13, FullFields DEF StampStaging, StagingTable, StagedInv, Staged
  <2>2. QED
    BY <1>0, <1>13, <2>1 DEF StampStaging, TypeOK
<1>14. CASE CountSnapshot
  <2>1. full.data.rows \in Nat
    BY <1>14, FullFields DEF CountSnapshot, StagedInv, Staged
  <2>2. QED
    BY <1>0, <1>14, <2>1 DEF CountSnapshot, TypeOK
<1>15. CASE PurgeTarget
  BY <1>0, <1>15 DEF PurgeTarget, TypeOK
<1>16. CASE SaveTarget
  <2>1. target' \in TargetTable
    BY <1>0, <1>16, FullFields DEF SaveTarget, TargetTable, LoadTypes, StagedInv, Staged
  <2>2. QED
    BY <1>0, <1>16, <2>1 DEF SaveTarget, TypeOK
<1>17. CASE VerifyTarget
  BY <1>0, <1>17 DEF VerifyTarget, TypeOK
<1>18. CASE Fail
  <2>1. Exposed \in BOOLEAN
    BY DEF Exposed
  <2>2. QED
    BY <1>0, <1>18, <2>1 DEF Fail, TypeOK
<1>19. CASE UNCHANGED vars
  BY <1>19 DEF vars, TypeOK
<1>20. QED
  BY <1>1, <1>2, <1>3, <1>4, <1>5, <1>6, <1>7, <1>8, <1>9, <1>10, <1>11, <1>12,
     <1>13, <1>14, <1>15, <1>16, <1>17, <1>18, <1>19 DEF Next, Run

-----------------------------------------------------------------------------

\* StampStaging stamps the staged snapshot and keeps its data.
LEMMA StampFields ==
    ASSUME TypeOK, StagedInv, StampStaging
    PROVE  /\ Exists(full) /\ Exists(full') /\ full'.data = full.data
           /\ full.stamp = NoStamp
           /\ full'.stamp = IF SelectionQuery THEN NoStamp ELSE job.ver
<1>1. Exists(full) /\ full.stamp = NoStamp /\ full \in StagingTable
  BY FullFields DEF StampStaging, StagedInv, Staged
<1>2. full' = [full EXCEPT !.stamp = IF SelectionQuery THEN full.stamp ELSE job.ver]
  BY DEF StampStaging
<1>3. full' \in StagingTable
  BY <1>1, <1>2 DEF TypeOK, StagingTable
<1>4. /\ full'.data = full.data
      /\ full'.stamp = IF SelectionQuery THEN NoStamp ELSE job.ver
  BY <1>1, <1>2 DEF StagingTable
<1>5. QED
  BY <1>1, <1>3, <1>4, Tables

\* BeginRun registers the target and keeps its data and partitioning.
LEMMA BeginFields ==
    ASSUME TypeOK, BeginRun
    PROVE  /\ Exists(target') <=> Exists(target)
           /\ Exists(target) => target'.data = target.data
<1>1. CASE target' = target
  BY <1>1 DEF Exists
<1>2. CASE target' # target
  <2>1. Exists(target)
        /\ target' = [target EXCEPT !.ver = @ + 1, !.loadType = "FULL_LOAD"]
    BY <1>2 DEF BeginRun
  <2>2. target \in TargetTable /\ target.ver + 1 \in Nat
    BY <2>1, TargetFields
  <2>3. "FULL_LOAD" \in LoadTypes
    BY DEF LoadTypes
  <2>4. /\ [target EXCEPT !.ver = @ + 1] \in TargetTable
        /\ [target EXCEPT !.ver = @ + 1].data = target.data
    BY <2>2 DEF TargetTable
  <2>5. target' \in TargetTable /\ target'.data = target.data
    BY <2>1, <2>3, <2>4 DEF TargetTable
  <2>6. QED
    BY <2>1, <2>5, Tables
<1>3. QED
  BY <1>1, <1>2

\* A commit to the source raises its version and its commit number.
LEMMA CommitFields ==
    ASSUME TypeOK, SourceCommit
    PROVE  /\ Exists(source')
           /\ Exists(source) => source'.ver = source.ver + 1
                                /\ source'.data.at = source.data.at + 1
           /\ ~ Exists(source) => source'.ver = 0 /\ source'.data.at = 1
<1>1. PICK n \in RowCounts : source' = IF Exists(source)
                 THEN Written(source.ver + 1, source.data.at + 1, n)
                 ELSE Written(0, 1, n)
  BY DEF SourceCommit
<1>2. n \in Nat
  BY FullLoadAssumption
<1>3. source' \in SourceTable
  BY <1>1, <1>2, SourceFields DEF SourceTable, Data, Written
<1>4. QED
  BY <1>1, <1>3, Tables DEF Written

\* OPTIMIZE raises the version of the source and keeps its data.
LEMMA MaintenanceFields ==
    ASSUME TypeOK, SourceMaintenance
    PROVE  /\ Exists(source) /\ Exists(source')
           /\ source'.ver = source.ver + 1 /\ source'.data = source.data
<1>1. Exists(source) /\ source' = [source EXCEPT !.ver = @ + 1]
  BY DEF SourceMaintenance
<1>2. source \in SourceTable /\ source.ver + 1 \in Nat
  BY <1>1, SourceFields
<1>3. source' \in SourceTable /\ source'.ver = source.ver + 1 /\ source'.data = source.data
  BY <1>1, <1>2 DEF SourceTable
<1>4. QED
  BY <1>1, <1>3, Tables

\* SaveStaging leaves an unstamped copy of the source in staging.
LEMMA SaveFields ==
    ASSUME TypeOK, SaveStaging
    PROVE  /\ Exists(source) /\ Exists(full')
           /\ full'.data = source.data /\ full'.stamp = NoStamp
<1>1. /\ Exists(source)
      /\ full' = [data |-> source.data, stamp |-> NoStamp, layout |-> layout]
  BY DEF SaveStaging
<1>2. full' \in StagingTable
  BY <1>1, SourceFields DEF TypeOK, StagingTable
<1>3. QED
  BY <1>1, <1>2, Tables

\* SaveTarget leaves a copy of staging in the target.
LEMMA SaveTargetFields ==
    ASSUME TypeOK, StagedInv, SaveTarget
    PROVE  Exists(full) /\ Exists(target') /\ target'.data = full.data
<1>1. /\ Exists(full)
      /\ target' = [ver |-> 0, data |-> full.data, layout |-> layout, loadType |-> "none"]
  BY DEF SaveTarget, StagedInv, Staged
<1>2. target' \in TargetTable
  BY <1>1, FullFields DEF TypeOK, TargetTable, LoadTypes
<1>3. QED
  BY <1>1, <1>2, Tables

\* The steps that note a version or a count keep the other one.
LEMMA JobFields ==
    ASSUME TypeOK
    PROVE  /\ ReadVersion => job'.ver = source.ver
           /\ CountSnapshot => job'.ver = job.ver
<1>1. job \in [ver : Nat, count : Nat]
  BY DEF TypeOK
<1>2. QED
  BY <1>1 DEF ReadVersion, CountSnapshot

-----------------------------------------------------------------------------

\* The source never disappears, and the version a run has read stays behind it.
LEMMA SourceStep ==
    TypeOK /\ SourceInv /\ StagedInv /\ [Next]_vars => SourceInv'
<1> SUFFICES ASSUME TypeOK, SourceInv, StagedInv, [Next]_vars PROVE SourceInv'
  OBVIOUS
<1> USE DEF SourceInv, Versioned, env, ghost, GoTo, EndRun
<1>0. pc \in Versioned => Exists(source) /\ source.ver \in Nat /\ job.ver \in Nat
  BY SourceFields DEF TypeOK
<1>1. CASE SourceCommit
  <2>1. pc' = pc /\ job' = job
    BY <1>1 DEF SourceCommit
  <2>2. QED
    BY <1>0, <1>1, <2>1, CommitFields
<1>2. CASE SourceMaintenance
  <2>1. pc' = pc /\ job' = job
    BY <1>2 DEF SourceMaintenance
  <2>2. QED
    BY <1>0, <1>2, <2>1, MaintenanceFields
<1>3. CASE source' = source /\ full' = full /\ pc' \notin Versioned
  BY <1>3 DEF Exists
<1>4. CASE /\ source' = source /\ job'.ver = job.ver
           /\ pc \in Versioned /\ Exists(source)
  BY <1>4 DEF Exists
<1>5. CASE ReadVersion
  <2>1. source' = source /\ Exists(source) /\ job'.ver = source.ver /\ source.ver \in Nat
    BY <1>5, JobFields, SourceFields DEF ReadVersion
  <2>2. QED
    BY <2>1 DEF Exists
<1>6. CASE ChangePartitionKeys \/ RejectLoadType \/ BeginRun \/ DropIncremental
  BY <1>3, <1>6 DEF ChangePartitionKeys, RejectLoadType, BeginRun, DropIncremental
<1>7. CASE SourceMissing \/ SkipUnchanged \/ VerifyTarget \/ Fail
  BY <1>3, <1>7 DEF SourceMissing, SkipUnchanged, VerifyTarget, Fail
<1>8. CASE CountSource \/ PurgeStaging \/ SaveStaging \/ StampStaging
           \/ PurgeTarget \/ SaveTarget
  BY <1>0, <1>4, <1>8
     DEF CountSource, PurgeStaging, SaveStaging, StampStaging, PurgeTarget, SaveTarget
<1>9. CASE CountSnapshot
  <2>1. source' = source /\ job'.ver = job.ver /\ pc \in Versioned
    BY <1>9, JobFields DEF CountSnapshot
  <2>2. QED
    BY <1>0, <1>4, <2>1
<1>10. CASE UNCHANGED vars
  BY <1>10 DEF vars, Exists
<1>11. QED
  BY <1>1, <1>2, <1>5, <1>6, <1>7, <1>8, <1>9, <1>10 DEF Next, Run

\* What a run has at hand at each step.
LEMMA StagedStep ==
    TypeOK /\ StagedInv /\ [Next]_vars => StagedInv'
<1> SUFFICES ASSUME TypeOK, StagedInv, [Next]_vars PROVE StagedInv'
  OBVIOUS
<1> USE DEF StagedInv, Staged, env, ghost, GoTo, EndRun
<1>1. CASE SourceCommit \/ SourceMaintenance \/ ChangePartitionKeys \/ UNCHANGED vars
  <2>1. pc' = pc /\ full' = full /\ target' = target
    BY <1>1 DEF SourceCommit, SourceMaintenance, ChangePartitionKeys, vars
  <2>2. QED
    BY <2>1 DEF Exists
<1>2. CASE RejectLoadType \/ SourceMissing \/ SkipUnchanged \/ VerifyTarget \/ Fail
  BY <1>2 DEF RejectLoadType, SourceMissing, SkipUnchanged, VerifyTarget, Fail
<1>3. CASE BeginRun \/ DropIncremental \/ ReadVersion \/ CountSource
  BY <1>3 DEF BeginRun, DropIncremental, ReadVersion, CountSource
<1>4. CASE PurgeStaging
  BY <1>4 DEF PurgeStaging
<1>5. CASE SaveStaging
  BY <1>5, SaveFields DEF SaveStaging
<1>6. CASE StampStaging
  BY <1>6, StampFields DEF StampStaging
<1>7. CASE CountSnapshot
  BY <1>7, FullFields DEF CountSnapshot, Exists
<1>8. CASE PurgeTarget
  BY <1>8 DEF PurgeTarget, Exists
<1>9. CASE SaveTarget
  <2>1. full' = full /\ pc' = "verify"
    BY <1>9 DEF SaveTarget
  <2>2. QED
    BY <1>9, <2>1, SaveTargetFields DEF Exists
<1>10. QED
  BY <1>1, <1>2, <1>3, <1>4, <1>5, <1>6, <1>7, <1>8, <1>9 DEF Next, Run

\* A table that keeps its data stays a copy of a source commit.
LEMMA CopyKept ==
    ASSUME TypeOK, [Next]_vars, NEW t, NEW u, Copy(t),
           Exists(u) => Exists(t) /\ u.data = t.data /\ t.data.at \in Nat
    PROVE  Exists(u) =>
             IF Exists(source')
             THEN /\ u.data.at <= source'.data.at
                  /\ u.data.at = source'.data.at => u.data = source'.data
             ELSE u.data.at = 0
<1> SUFFICES ASSUME Exists(u)
             PROVE  IF Exists(source')
                    THEN /\ u.data.at <= source'.data.at
                         /\ u.data.at = source'.data.at => u.data = source'.data
                    ELSE u.data.at = 0
  OBVIOUS
<1>0. Exists(source) => source.data.at \in Nat
  BY SourceFields
<1>1. CASE SourceCommit
  BY <1>0, <1>1, CommitFields DEF Copy
<1>2. CASE SourceMaintenance
  BY <1>2, MaintenanceFields DEF Copy
<1>3. CASE source' = source
  BY <1>3 DEF Copy, Exists
<1>4. CASE ~ SourceCommit /\ ~ SourceMaintenance
  <2>1. source' = source
    BY <1>4 DEF Next, Run, Fail, vars, env, ChangePartitionKeys, RejectLoadType, BeginRun,
       DropIncremental, ReadVersion, SourceMissing, CountSource, SkipUnchanged,
       PurgeStaging, SaveStaging, StampStaging, CountSnapshot, PurgeTarget,
       SaveTarget, VerifyTarget
  <2>2. QED
    BY <1>3, <2>1
<1>5. QED
  BY <1>1, <1>2, <1>4

\* How a step moves staging and the target: kept, dropped, or rewritten.
LEMMA FullMoves ==
    ASSUME TypeOK, StagedInv, [Next]_vars
    PROVE  \/ SaveStaging
           \/ full' = NoTable
           \/ Exists(full') => /\ Exists(full) /\ full'.data = full.data
                               /\ full.data.at \in Nat
<1>1. CASE SaveStaging
  BY <1>1
<1>2. CASE PurgeStaging
  BY <1>2 DEF PurgeStaging
<1>3. CASE StampStaging
  BY <1>3, StampFields, FullFields
<1>4. CASE full' = full
  BY <1>4, FullFields DEF Exists
<1>5. QED
  BY <1>1, <1>2, <1>3, <1>4
     DEF Next, Run, Fail, vars, SourceCommit, SourceMaintenance, ChangePartitionKeys,
         RejectLoadType, BeginRun, DropIncremental, ReadVersion, SourceMissing,
         CountSource, SkipUnchanged, CountSnapshot, PurgeTarget, SaveTarget, VerifyTarget

\* And the target likewise.
LEMMA TargetMoves ==
    ASSUME TypeOK, StagedInv, [Next]_vars
    PROVE  \/ SaveTarget
           \/ target' = NoTable
           \/ Exists(target') => /\ Exists(target) /\ target'.data = target.data
                                 /\ target.data.at \in Nat
<1>1. CASE SaveTarget
  BY <1>1
<1>2. CASE PurgeTarget
  BY <1>2 DEF PurgeTarget
<1>3. CASE BeginRun
  BY <1>3, BeginFields, TargetFields
<1>4. CASE target' = target
  BY <1>4, TargetFields DEF Exists
<1>5. QED
  BY <1>1, <1>2, <1>3, <1>4
     DEF Next, Run, Fail, vars, SourceCommit, SourceMaintenance, ChangePartitionKeys,
         RejectLoadType, DropIncremental, ReadVersion, SourceMissing, CountSource,
         SkipUnchanged, PurgeStaging, SaveStaging, StampStaging, CountSnapshot, VerifyTarget

\* Staging and the target hold copies of source commits.
LEMMA CopyStep ==
    TypeOK /\ StagedInv /\ Copy(full) /\ Copy(target) /\ [Next]_vars
      => Copy(full)' /\ Copy(target)'
<1> SUFFICES ASSUME TypeOK, StagedInv, Copy(full), Copy(target), [Next]_vars
             PROVE  Copy(full)' /\ Copy(target)'
  OBVIOUS
<1>1. Copy(full)'
  <2>1. CASE SaveStaging
    <3>1. /\ source' = source /\ Exists(source) /\ full'.data = source.data
          /\ source.data.at \in Nat
      BY <2>1, SaveFields, SourceFields DEF SaveStaging, env
    <3>2. QED
      BY <3>1 DEF Copy, Exists
  <2>2. CASE full' = NoTable
    BY <2>2, Tables DEF Copy, Exists
  <2>3. CASE Exists(full') => /\ Exists(full) /\ full'.data = full.data
                              /\ full.data.at \in Nat
    <3>1. Exists(full') =>
            IF Exists(source')
            THEN /\ full'.data.at <= source'.data.at
                 /\ full'.data.at = source'.data.at => full'.data = source'.data
            ELSE full'.data.at = 0
      BY <2>3, CopyKept
    <3>2. QED
      BY <3>1 DEF Copy, Exists
  <2>4. QED
    BY <2>1, <2>2, <2>3, FullMoves
<1>2. Copy(target)'
  <2>1. CASE SaveTarget
    <3>1. /\ Exists(full) /\ target'.data = full.data /\ full.data.at \in Nat
      BY <2>1, SaveTargetFields, FullFields
    <3>2. Exists(target') =>
            IF Exists(source')
            THEN /\ target'.data.at <= source'.data.at
                 /\ target'.data.at = source'.data.at => target'.data = source'.data
            ELSE target'.data.at = 0
      BY <3>1, CopyKept
    <3>3. QED
      BY <3>2 DEF Copy, Exists
  <2>2. CASE target' = NoTable
    BY <2>2, Tables DEF Copy, Exists
  <2>3. CASE Exists(target') => /\ Exists(target) /\ target'.data = target.data
                                /\ target.data.at \in Nat
    <3>1. Exists(target') =>
            IF Exists(source')
            THEN /\ target'.data.at <= source'.data.at
                 /\ target'.data.at = source'.data.at => target'.data = source'.data
            ELSE target'.data.at = 0
      BY <2>3, CopyKept
    <3>2. QED
      BY <3>1 DEF Copy, Exists
  <2>4. QED
    BY <2>1, <2>2, <2>3, TargetMoves
<1>3. QED
  BY <1>1, <1>2

\* The heart of the argument: version first, data later.
LEMMA StampStep ==
    TypeOK /\ SourceInv /\ StagedInv /\ StampInv /\ [Next]_vars => StampInv'
<1> SUFFICES ASSUME TypeOK, SourceInv, StagedInv, StampInv, [Next]_vars PROVE StampInv'
  OBVIOUS
<1> USE DEF StampInv
<1>0. /\ Exists(full) => Exists(source) /\ full.stamp \in Nat \cup {NoStamp}
      /\ Exists(source) => source.ver \in Nat
      /\ pc = "stamp" => job.ver <= source.ver /\ job.ver \in Nat /\ Exists(source)
  BY SourceFields, FullFields, Tables DEF SourceInv, Versioned, TypeOK
<1>1. CASE SourceCommit
  <2>1. pc' = pc /\ job' = job /\ full' = full
    BY <1>1 DEF SourceCommit
  <2>2. QED
    BY <1>0, <1>1, <2>1, CommitFields DEF Exists
<1>2. CASE SourceMaintenance
  <2>1. pc' = pc /\ job' = job /\ full' = full
    BY <1>2 DEF SourceMaintenance
  <2>2. QED
    BY <1>0, <1>2, <2>1, MaintenanceFields DEF Exists
<1>3. CASE PurgeStaging
  BY <1>3 DEF PurgeStaging, GoTo, Exists
<1>4. CASE SaveStaging
  <2>1. source' = source /\ full'.data = source.data /\ full'.stamp = NoStamp
    BY <1>4, SaveFields DEF SaveStaging, env
  <2>2. QED
    BY <2>1
<1>5. CASE StampStaging
  <2>1. source' = source /\ job' = job /\ pc = "stamp" /\ pc' = "snapshot"
    BY <1>5 DEF StampStaging, GoTo, env
  <2>2. full'.data = full.data
        /\ full'.stamp = IF SelectionQuery THEN NoStamp ELSE job.ver
    BY <1>5, StampFields
  <2>3. QED
    BY <1>0, <2>1, <2>2
<1>6. CASE source' = source /\ full' = full /\ pc' # "stamp"
  BY <1>6 DEF Exists
<1>7. CASE UNCHANGED vars \/ ChangePartitionKeys
  <2>1. source' = source /\ full' = full /\ pc' = pc /\ job' = job
    BY <1>7 DEF vars, ChangePartitionKeys
  <2>2. QED
    BY <2>1 DEF Exists
<1>8. QED
  BY <1>1, <1>2, <1>3, <1>4, <1>5, <1>6, <1>7
     DEF Next, Run, Fail, RejectLoadType, BeginRun, DropIncremental, ReadVersion,
         SourceMissing, CountSource, SkipUnchanged, CountSnapshot, PurgeTarget,
         SaveTarget, VerifyTarget, GoTo, EndRun, env

\* What a run stages is no older than the source was when the run began, and
\* what it finds staged under the version it has read is not older either.
LEMMA FreshStep ==
    TypeOK /\ SourceInv /\ StagedInv /\ StampInv /\ FreshInv /\ [Next]_vars => FreshInv'
<1> SUFFICES ASSUME TypeOK, SourceInv, StagedInv, StampInv, FreshInv, [Next]_vars
             PROVE  FreshInv'
  OBVIOUS
<1> USE DEF FreshInv
<1>0. /\ Exists(source) => source.data.at \in Nat /\ source.ver \in Nat
      /\ Exists(full) => full.data.at \in Nat /\ Exists(source)
      /\ begunAt \in Nat
  BY SourceFields, FullFields, Tables DEF TypeOK, SourceInv
<1>1. CASE SourceCommit
  <2>1. pc' = pc /\ job' = job /\ full' = full /\ begunAt' = begunAt
    BY <1>1 DEF SourceCommit, ghost
  <2>2. QED
    BY <1>0, <1>1, <2>1, CommitFields DEF Exists
<1>2. CASE SourceMaintenance
  <2>1. pc' = pc /\ job' = job /\ full' = full /\ begunAt' = begunAt
    BY <1>2 DEF SourceMaintenance, ghost
  <2>2. QED
    BY <1>0, <1>2, <2>1, MaintenanceFields DEF Exists
<1>3. CASE RejectLoadType \/ BeginRun
  <2>1. /\ source' = source /\ pc' \in {"idle", "drop"}
        /\ begunAt' = IF Exists(source) THEN source.data.at ELSE begunAt
    BY <1>3 DEF RejectLoadType, BeginRun, GoTo, EndRun, env
  <2>2. QED
    BY <1>0, <2>1 DEF Exists, Staged
<1>4. CASE ReadVersion
  <2>1. /\ source' = source /\ full' = full /\ begunAt' = begunAt /\ pc' = "count"
        /\ Exists(source) /\ job'.ver = source.ver
    BY <1>4, JobFields DEF ReadVersion, GoTo, env, ghost
  <2>2. Exists(full) /\ full.stamp = source.ver => full.data = source.data
    <3>1. SUFFICES ASSUME Exists(full), full.stamp = source.ver
                   PROVE  full.stamp # NoStamp
      BY DEF StampInv
    <3>2. QED
      BY <1>0, <2>1, <3>1, FullLoadAssumption
  <2>3. QED
    BY <1>0, <2>1, <2>2 DEF Exists, Staged
<1>5. CASE PurgeStaging
  BY <1>0, <1>5 DEF PurgeStaging, GoTo, env, ghost, Exists, Staged
<1>6. CASE SaveStaging
  <2>1. /\ source' = source /\ begunAt' = begunAt /\ pc' = "stamp"
        /\ Exists(source) /\ full'.data = source.data
    BY <1>6, SaveFields DEF SaveStaging, GoTo, env, ghost
  <2>2. QED
    BY <1>0, <2>1 DEF Exists, Staged
<1>7. CASE StampStaging
  <2>1. /\ source' = source /\ begunAt' = begunAt /\ pc' = "snapshot" /\ pc = "stamp"
        /\ full'.data = full.data
    BY <1>7, StampFields DEF StampStaging, GoTo, env, ghost
  <2>2. QED
    BY <1>0, <2>1 DEF Exists, Staged
<1>8. CASE CountSnapshot \/ PurgeTarget \/ SaveTarget
  BY <1>0, <1>8
     DEF CountSnapshot, PurgeTarget, SaveTarget, GoTo, EndRun, env, ghost, Exists, Staged
<1>9. CASE DropIncremental \/ SourceMissing \/ SkipUnchanged \/ VerifyTarget \/ Fail
  BY <1>0, <1>9 DEF DropIncremental, SourceMissing, SkipUnchanged, VerifyTarget, Fail,
                    GoTo, EndRun, env, ghost, Exists, Staged
<1>10. CASE CountSource
  BY <1>0, <1>10 DEF CountSource, GoTo, EndRun, env, ghost, Exists, Staged
<1>11. CASE ChangePartitionKeys \/ UNCHANGED vars
  BY <1>0, <1>11 DEF ChangePartitionKeys, vars, ghost, Exists
<1>12. QED
  BY <1>1, <1>2, <1>3, <1>4, <1>5, <1>6, <1>7, <1>8, <1>9, <1>10, <1>11 DEF Next, Run

\* A stamped snapshot that is not in the target is a lost batch.
LEMMA LoadedStep ==
    TypeOK /\ StagedInv /\ LoadedInv /\ [Next]_vars => LoadedInv'
<1> SUFFICES ASSUME TypeOK, StagedInv, LoadedInv, [Next]_vars PROVE LoadedInv'
  OBVIOUS
<1> USE DEF LoadedInv, Settled
<1>1. CASE BeginRun
  <2>1. full' = full /\ lost' = lost /\ pc = "idle" /\ pc' = "drop"
    BY <1>1 DEF BeginRun, GoTo
  <2>2. QED
    BY <1>1, <2>1, BeginFields DEF Exists
<1>2. CASE PurgeStaging \/ SaveStaging \/ StampStaging \/ PurgeTarget \/ SaveTarget
  BY <1>2 DEF PurgeStaging, SaveStaging, StampStaging, PurgeTarget, SaveTarget, GoTo
<1>3. CASE CountSnapshot
  BY <1>3 DEF CountSnapshot, GoTo, EndRun
<1>4. CASE VerifyTarget
  BY <1>4 DEF VerifyTarget, EndRun, StagedInv, Staged, Exists
<1>5. CASE Fail
  <2>1. full' = full /\ target' = target /\ pc' = "idle" /\ result' = "failed"
        /\ lost' = (lost \/ Exposed)
    BY <1>5 DEF Fail, EndRun, env
  <2>2. CASE pc \in Settled
    BY <2>1, <2>2 DEF Exists
  <2>3. CASE pc \in {"snapshot", "purgeTarget", "saveTarget"}
    BY <2>1, <2>3 DEF Exists, Exposed
  <2>4. CASE pc = "save" \/ pc = "stamp" \/ pc = "verify"
    BY <2>1, <2>4, Tables DEF Exists, StagedInv
  <2>5. QED
    BY <2>2, <2>3, <2>4 DEF TypeOK, Steps
<1>6. CASE SkipUnchanged
  BY <1>6 DEF SkipUnchanged, Unchanged, EndRun, Exists, env, ghost
<1>7. CASE RejectLoadType
  BY <1>7 DEF RejectLoadType, EndRun, Exists
<1>8. CASE DropIncremental \/ ReadVersion \/ CountSource
  BY <1>8 DEF DropIncremental, ReadVersion, CountSource, GoTo, EndRun, Exists, ghost
<1>9. CASE SourceMissing
  <2>1. full' = full /\ target' = target /\ pc' = "idle" /\ result' = "failed"
        /\ lost' = lost /\ (pc \in Settled \/ pc = "save")
    BY <1>9 DEF SourceMissing, EndRun, ghost
  <2>2. QED
    BY <2>1, Tables DEF Exists, StagedInv
<1>10. CASE SourceCommit \/ SourceMaintenance \/ ChangePartitionKeys \/ UNCHANGED vars
  <2>1. full' = full /\ target' = target /\ pc' = pc /\ result' = result /\ lost' = lost
    BY <1>10 DEF SourceCommit, SourceMaintenance, ChangePartitionKeys, vars, ghost
  <2>2. QED
    BY <2>1 DEF Exists
<1>11. QED
  BY <1>1, <1>2, <1>3, <1>4, <1>5, <1>6, <1>7, <1>8, <1>9, <1>10 DEF Next, Run

\* The report at the end of a run.
LEMMA ReportStep ==
    IInv /\ [Next]_vars => ReportIsFresh'
<1> SUFFICES ASSUME IInv, [Next]_vars PROVE ReportIsFresh'
  OBVIOUS
<1> USE DEF IInv, ReportIsFresh
<1>1. CASE SkipUnchanged
  <2>1. /\ Exists(full) /\ full.stamp = job.ver /\ pc = "compare"
        /\ full' = full /\ target' = target /\ lost' = lost /\ begunAt' = begunAt
    BY <1>1 DEF SkipUnchanged, Unchanged, ghost
  <2>2. full.data.at >= begunAt
    BY <2>1 DEF FreshInv
  <2>3. full.stamp # NoStamp
    BY <2>1, FullLoadAssumption DEF TypeOK
  <2>4. QED
    BY <2>1, <2>2, <2>3 DEF LoadedInv, Settled, Exists
<1>2. CASE VerifyTarget
  <2>1. /\ pc = "verify" /\ full' = full /\ target' = target /\ begunAt' = begunAt
    BY <1>2 DEF VerifyTarget, ghost
  <2>2. QED
    BY <2>1 DEF StagedInv, FreshInv, Staged, Exists
<1>3. CASE SourceCommit \/ SourceMaintenance \/ ChangePartitionKeys \/ UNCHANGED vars
  <2>1. /\ full' = full /\ target' = target /\ pc' = pc /\ result' = result
        /\ lost' = lost /\ begunAt' = begunAt
    BY <1>3 DEF SourceCommit, SourceMaintenance, ChangePartitionKeys, vars, ghost
  <2>2. QED
    BY <2>1 DEF Exists
<1>4. CASE pc' # "idle" \/ result' \notin {"loaded", "unchanged"}
  BY <1>4
<1>5. QED
  BY <1>1, <1>2, <1>3, <1>4
     DEF Next, Run, Fail, RejectLoadType, BeginRun, DropIncremental, ReadVersion,
         SourceMissing, CountSource, PurgeStaging, SaveStaging, StampStaging,
         CountSnapshot, PurgeTarget, SaveTarget, GoTo, EndRun

\* The target never runs ahead of staging.
LEMMA FollowStep ==
    TypeOK /\ StagedInv /\ Copy(target) /\ TargetFollowsStaging /\ [Next]_vars
      => TargetFollowsStaging'
<1> SUFFICES ASSUME TypeOK, StagedInv, Copy(target), TargetFollowsStaging, [Next]_vars
             PROVE  TargetFollowsStaging'
  OBVIOUS
<1> USE DEF TargetFollowsStaging
<1>1. CASE SaveTarget
  <2>1. full' = full
    BY <1>1 DEF SaveTarget
  <2>2. QED
    BY <1>1, <2>1, SaveTargetFields, FullFields
<1>2. CASE SaveStaging
  <2>1. target' = target
    BY <1>2 DEF SaveStaging
  <2>2. QED
    BY <1>2, <2>1, SaveFields DEF Copy, Exists
<1>3. CASE full' = NoTable \/ target' = NoTable
  BY <1>3 DEF Exists
<1>4. CASE /\ Exists(full') => Exists(full) /\ full'.data = full.data
           /\ Exists(target') => Exists(target) /\ target'.data = target.data
  BY <1>4
<1>5. QED
  BY <1>1, <1>2, <1>3, <1>4, FullMoves, TargetMoves

-----------------------------------------------------------------------------

\* The initial states satisfy the inductive invariant.
LEMMA InitIInv == Init => IInv
<1> SUFFICES ASSUME Init PROVE IInv
  OBVIOUS
<1> USE DEF Init
<1>1. source = NoTable \/ \E n \in RowCounts : source = Written(0, 1, n)
  OBVIOUS
<1>2. source \in SourceTable \cup {NoTable}
  BY <1>1, FullLoadAssumption DEF Written, SourceTable, Data
<1>3. Exists(source) => source.data.at = 1
  BY <1>1, Tables DEF Written
<1>4. target \in TargetTable \cup {NoTable} /\ (Exists(target) => target.data.at = 0)
  BY FullLoadAssumption DEF TargetTable, Data, Exists
<1>5. TypeOK
  BY <1>2, <1>4 DEF TypeOK, Steps
<1>6. SourceInv /\ StampInv /\ StagedInv /\ LoadedInv
  BY Tables DEF SourceInv, StampInv, StagedInv, LoadedInv, Versioned, Staged
<1>7. Copy(full) /\ Copy(target) /\ FreshInv
  BY <1>3, <1>4, Tables DEF Copy, FreshInv, Staged
<1>8. ReportIsFresh /\ TargetFollowsStaging
  BY Tables DEF ReportIsFresh, TargetFollowsStaging
<1>9. QED
  BY <1>5, <1>6, <1>7, <1>8 DEF IInv

\* The inductive invariant holds in every reachable state.
THEOREM Invariance == Spec => []IInv
<1>1. IInv /\ [Next]_vars => IInv'
  BY TypeStep, SourceStep, StagedStep, CopyStep, StampStep, FreshStep, LoadedStep,
     ReportStep, FollowStep DEF IInv
<1>2. QED
  BY InitIInv, <1>1, PTL DEF Spec

\* Every variable keeps its type.
THEOREM TypeCorrect == Spec => []TypeOK
BY Invariance, PTL DEF IInv

\* "Source unchanged" is concluded only when it is true, however many commits
\* to the source, failed runs and changes of the partitioning came before.
THEOREM SkipSound == Spec => []SkipIsSound
<1>1. IInv => SkipIsSound
  <2> SUFFICES ASSUME IInv, Exists(full), Exists(source), full.stamp = source.ver
               PROVE  full.data = source.data
    BY DEF SkipIsSound
  <2>1. full.stamp # NoStamp
    BY SourceFields, FullLoadAssumption DEF IInv
  <2>2. QED
    BY <2>1 DEF IInv, StampInv
<1>2. QED
  BY Invariance, <1>1, PTL

\* Success means that the target is as recent as the source was when the run
\* began, unless an earlier failure lost the batch.
THEOREM ReportFresh == Spec => []ReportIsFresh
BY Invariance, PTL DEF IInv

\* The target holds a whole snapshot, never one newer than staging.
THEOREM TargetFollows == Spec => []TargetFollowsStaging
BY Invariance, PTL DEF IInv

=============================================================================
