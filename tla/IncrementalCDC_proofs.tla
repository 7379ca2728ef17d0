------------------------ MODULE IncrementalCDC_proofs ------------------------
(***************************************************************************)
(* Proofs about IncrementalCDC: its safety properties hold for any keys,   *)
(* values, snapshots of the source, layouts, bounds and failures.          *)
(***************************************************************************)
EXTENDS IncrementalCDC, StagingLayer_proofs

\* The part of TypeOK that is about the load itself.
TargetType ==
    /\ pc \in StagingSteps \cup {"write", "register"}
    /\ target \in TargetTable \cup {NoTable}
    /\ pc = "register" => target # NoTable
    /\ result \in {"none", "loaded", "skipped", "nochange", "failed"}
    /\ raced \in BOOLEAN /\ disturbed \in BOOLEAN

Typed == StagingInv /\ TargetType

\* The steps of the load itself, and what they leave alone.
LoadStep ==
    \/ RejectLoadType \/ BeginRun \/ NoChanges \/ ReadEvents
    \/ RebuildTarget \/ CreateTarget \/ MergeTarget \/ Register \/ FailInLoad

LEMMA LoadStepKept ==
  ASSUME Typed, LoadStep
  PROVE  /\ UNCHANGED <<source, feed, full, incr, changes, job>>
         /\ StagingInv'
<1>1. UNCHANGED <<source, feed, full, incr, changes, job>>
  BY DEF LoadStep, RejectLoadType, BeginRun, NoChanges, ReadEvents, RebuildTarget, CreateTarget,
         MergeTarget, Register, FailInLoad, environment, stagingTables
<1>2. faults' \in Nat
  BY DEF LoadStep, RejectLoadType, BeginRun, NoChanges, ReadEvents, RebuildTarget, CreateTarget,
         MergeTarget, Register, FailInLoad, Typed, StagingInv, StagingTyped, StagingTypeOK
<1>3. pc' \notin Unstamped /\ (pc' \in {"idle", "version"} \/ pc \notin BeforeIncr)
  BY DEF LoadStep, RejectLoadType, BeginRun, NoChanges, ReadEvents, RebuildTarget, CreateTarget,
         MergeTarget, Register, FailInLoad, GoTo, EndRun, Unstamped, BeforeIncr, BeforeFull
<1>4. QED
  BY <1>1, <1>2, <1>3, StagingKept DEF Typed

\* Rows and events that are read after staging.
LEMMA StagedTypes ==
  ASSUME Typed, pc \notin BeforeIncr
  PROVE  StagedEvents \in Events /\ StagedRows \in Rows
<1> USE DEF Typed, StagingInv, StagingTyped, StagingTypeOK
<1>1. source.rows \in Rows /\ full \in FullTable /\ incr \in IncrTable
  BY DEF Exists, BeforeIncr
<1>2. Inserts(source.rows) \in Events
  BY <1>1, InsertsType
<1>3. QED
  BY <1>1, <1>2 DEF StagedEvents, StagedRows, FullTable, IncrTable

LEMMA EventsToRows ==
  ASSUME NEW rows \in Rows, NEW events \in Events
  PROVE  ApplyEvents(rows, events) \in Rows /\ InitialRows(events) \in Rows
<1>1. \A k \in Keys : events[k] \in Event /\ rows[k] \in Vals \cup {Absent}
  BY DEF Events, Rows
<1>2. \A k \in Keys : events[k].val \in Vals \cup {Absent}
  BY <1>1, EventParts
<1>3. ASSUME NEW k \in Keys PROVE ApplyEvents(rows, events)[k] \in Vals \cup {Absent}
  <2>1. CASE events[k] = NoEvent
    BY <1>1, <2>1 DEF ApplyEvents, NoEvent
  <2>2. CASE events[k] # NoEvent /\ rows[k] # Absent /\ events[k].op = "delete"
    BY <2>2 DEF ApplyEvents
  <2>3. CASE events[k] # NoEvent /\ ~ (rows[k] # Absent /\ events[k].op = "delete")
    BY <1>2, <2>3 DEF ApplyEvents
  <2>4. QED
    BY <2>1, <2>2, <2>3
<1>4. QED
  BY <1>2, <1>3 DEF ApplyEvents, InitialRows, Rows

LEMMA LoadStepType ==
  ASSUME Typed, LoadStep
  PROVE  TargetType'
<1> USE DEF TargetType, StagingSteps
<1>1. target \in TargetTable \cup {NoTable} /\ (Exists(target) => target \in TargetTable)
      /\ feed.layout \in Layouts
  BY DEF Typed, Exists, StagingInv, StagingTyped, StagingTypeOK
<1>2. CASE RejectLoadType \/ NoChanges \/ ReadEvents
  BY <1>2 DEF RejectLoadType, NoChanges, ReadEvents, GoTo, EndRun, Live, Typed, cdcHistory,
              StagingInv, StagingTyped, StagingTypeOK
<1>3. CASE BeginRun \/ Register
  <2>1. target' = target \/ (target \in TargetTable /\
                              target' = [target EXCEPT !.loadType = "INCREMENTAL_CDC"])
    BY <1>1, <1>3 DEF BeginRun, Register, Typed
  <2>2. target' \in TargetTable \cup {NoTable}
    BY <1>1, <2>1 DEF TargetTable, LoadTypes
  <2>3. QED
    BY <1>3, <2>2 DEF BeginRun, Register, GoTo, EndRun, Typed, cdcHistory
<1>4. CASE RebuildTarget \/ CreateTarget
  <2>1. StagedRows \in Rows /\ InitialRows(StagedEvents) \in Rows
    <3>1. StagedEvents \in Events /\ StagedRows \in Rows
      BY <1>4, StagedTypes DEF RebuildTarget, CreateTarget, BeforeIncr, BeforeFull
    <3>2. QED
      BY <3>1, EventsToRows
  <2>2. target' \in TargetTable
    BY <1>1, <1>4, <2>1 DEF RebuildTarget, CreateTarget, TargetTable, LoadTypes
  <2>3. job.live \in BOOLEAN
    BY DEF Typed, StagingInv, StagingTyped, StagingTypeOK
  <2>4. QED
    BY <1>4, <2>2, <2>3 DEF RebuildTarget, CreateTarget, EndRun, Typed, Live
<1>5. CASE MergeTarget
  <2>1. target \in TargetTable /\ target.rows \in Rows /\ StagedEvents \in Events
    BY <1>1, <1>5, StagedTypes DEF MergeTarget, BeforeIncr, BeforeFull, TargetTable
  <2>2. ApplyEvents(target.rows, StagedEvents) \in Rows
    BY <2>1, EventsToRows
  <2>3. target' \in TargetTable
    BY <1>5, <2>1, <2>2 DEF MergeTarget, TargetTable
  <2>4. job.live \in BOOLEAN
    BY DEF Typed, StagingInv, StagingTyped, StagingTypeOK
  <2>5. QED
    BY <1>5, <2>3, <2>4, TargetAssumption DEF MergeTarget, GoTo, Typed, Live
<1>6. CASE FailInLoad
  BY <1>1, <1>6 DEF FailInLoad, EndRun, Typed
<1>7. QED
  BY <1>2, <1>3, <1>4, <1>5, <1>6 DEF LoadStep

\* The steps of staging, the source and the specs.
LEMMA OtherStepType ==
  ASSUME Typed, Staging \/ SourceStep \/ SpecsStep \/ FailInStaging
  PROVE  TargetType'
<1>1. target' = target /\ disturbed' \in BOOLEAN
  BY DEF Staging, SourceStep, SpecsStep, FailInStaging, cdcHistory, Typed, TargetType
<1>2. raced' \in BOOLEAN
  BY DEF Staging, SourceStep, SpecsStep, FailInStaging, cdcHistory, Typed, TargetType
<1>3. pc' \in StagingSteps \cup {"write", "register"} /\ (pc' = "register" => pc = "register")
      /\ result' \in {"none", "loaded", "skipped", "nochange", "failed"}
  BY DEF Staging, SourceStep, SpecsStep, FailInStaging, StagingStep, SourceCommit,
         ChangePartitionKeys, FailStaging, StagingRaises, NullPartition, ReadVersion, CountSource,
         NoNewData, Restage, SaveFull, StampFull, EnableChangeDataFeed, BeginMerge, MergeFull,
         MergeNothing, NoChangeDataFeed, SaveIncr, SaveChanges, StampMerged, GoTo, EndRun,
         StagingSteps, Typed, TargetType
<1>4. QED
  BY <1>1, <1>2, <1>3 DEF Typed, TargetType

LEMMA TypedStep == Typed /\ [Next]_cdcVars => Typed'
<1> SUFFICES ASSUME Typed, [Next]_cdcVars PROVE Typed'
  OBVIOUS
<1>1. CASE LoadStep
  BY <1>1, LoadStepKept, LoadStepType DEF Typed
<1>2. CASE Staging \/ SourceStep \/ SpecsStep \/ FailInStaging
  <2>1. StagingInv'
    BY <1>2, StagingProgress DEF Staging, SourceStep, SpecsStep, FailInStaging, Typed
  <2>2. QED
    BY <1>2, <2>1, OtherStepType DEF Typed
<1>3. CASE UNCHANGED cdcVars
  BY <1>3 DEF cdcVars, stagingVars, environment, stagingTables, cdcHistory, Typed, StagingInv,
              StagingTyped, StagingTypeOK, StampInv, Synced, Exists, TargetType
<1>4. QED
  BY <1>1, <1>2, <1>3 DEF Next, Run, LoadStep

LEMMA TypedInit == Init => Typed
<1> SUFFICES ASSUME Init PROVE Typed
  OBVIOUS
<1>1. StagingInv
  BY StagingStart DEF Init
<1>2. target \in TargetTable \cup {NoTable}
  BY <1>1 DEF Init, TargetTable, LoadTypes, StagingInv, StagingTyped, StagingTypeOK
<1>3. QED
  BY <1>1, <1>2 DEF Init, StagingInit, Typed, TargetType, StagingSteps

-----------------------------------------------------------------------------
(* Row events carry a target from one state of t_full to the next.         *)

NoneAbsent == [k \in Keys |-> Absent]

LEMMA EventsCarry ==
  ASSUME NEW before \in Rows, NEW after \in Rows
  PROVE  ApplyEvents(before, RowEvents(before, after)) = after
<1> DEFINE E == RowEvents(before, after)
<1>1. ASSUME NEW k \in Keys PROVE ApplyEvents(before, E)[k] = after[k]
  <2>1. CASE before[k] = after[k]
    <3>1. E[k] = NoEvent
      BY <2>1 DEF RowEvents
    <3> HIDE DEF E
    <3>2. QED
      BY <2>1, <3>1 DEF ApplyEvents, NoEvent
  <2>2. CASE before[k] # after[k] /\ before[k] = Absent
    <3>1. E[k] = [op |-> "insert", val |-> after[k]]
      BY <2>2 DEF RowEvents
    <3> HIDE DEF E
    <3>2. E[k] # NoEvent
      BY <3>1 DEF NoEvent
    <3>3. QED
      BY <2>2, <3>1, <3>2 DEF ApplyEvents
  <2>3. CASE before[k] # after[k] /\ before[k] # Absent /\ after[k] = Absent
    <3>1. E[k] = [op |-> "delete", val |-> before[k]]
      BY <2>3 DEF RowEvents
    <3> HIDE DEF E
    <3>2. E[k] # NoEvent
      BY <3>1 DEF NoEvent
    <3>3. QED
      BY <2>3, <3>1, <3>2 DEF ApplyEvents
  <2>4. CASE before[k] # after[k] /\ before[k] # Absent /\ after[k] # Absent
    <3>1. E[k] = [op |-> "update", val |-> after[k]]
      BY <2>4 DEF RowEvents
    <3> HIDE DEF E
    <3>2. E[k] # NoEvent /\ E[k].op # "delete"
      BY <3>1 DEF NoEvent
    <3>3. QED
      BY <2>4, <3>1, <3>2 DEF ApplyEvents
  <2>5. QED
    BY <2>1, <2>2, <2>3, <2>4
<1>2. QED
  BY <1>1 DEF ApplyEvents, Rows

\* A target that is created is one without rows that events are applied to.
LEMMA CreatedFromNothing ==
  ASSUME NEW events \in Events
  PROVE  ApplyEvents(NoneAbsent, events) = InitialRows(events)
<1>1. ASSUME NEW k \in Keys PROVE ApplyEvents(NoneAbsent, events)[k] = InitialRows(events)[k]
  <2>1. NoneAbsent[k] = Absent
    BY DEF NoneAbsent
  <2> HIDE DEF NoneAbsent
  <2>2. QED
    BY <2>1 DEF ApplyEvents, InitialRows, NoEvent
<1>2. QED
  BY <1>1 DEF ApplyEvents, InitialRows

\* No event, no change.
LEMMA NothingApplied ==
  ASSUME NEW rows \in Rows
  PROVE  ApplyEvents(rows, NoEvents) = rows
<1>1. ASSUME NEW k \in Keys PROVE ApplyEvents(rows, NoEvents)[k] = rows[k]
  <2>1. NoEvents[k] = NoEvent /\ NoEvent.op # "delete"
    BY DEF NoEvents, NoEvent
  <2> HIDE DEF NoEvent
  <2>2. QED
    BY <2>1 DEF ApplyEvents
<1>2. QED
  BY <1>1 DEF ApplyEvents, Rows

\* The inserts of a first load are its rows.
LEMMA FirstRows ==
  ASSUME NEW rows \in Rows
  PROVE  InitialRows(Inserts(rows)) = rows
BY DEF InitialRows, Inserts, NoEvent, Rows

\* What there is to apply events to.
TargetRows == IF Exists(target) THEN target.rows ELSE NoneAbsent

-----------------------------------------------------------------------------
(* The target is t_full, or events away from it.                           *)

\* Steps at which no event is under way, and after t_full is written or merged.
Settled == {"idle", "version", "count", "compare", "saveFull", "merge", "register"}
AfterMerge == {"saveIncr", "saveChanges", "stampMerged", "apply", "write"}
AfterSave == {"stampFull", "enableCdf"} \cup AfterMerge

\* Which of the two ways through staging a run has taken.
Route ==
    /\ pc \in {"saveFull", "stampFull", "enableCdf"} => Live
    /\ pc \in {"merge", "stampMerged"} => ~ Live

\* A t_full whose events can be read records its changes.
Recording ==
    /\ pc \in AfterMerge \ {"saveIncr"} => full.cdf
    /\ pc = "saveIncr" /\ (Live \/ ~ disturbed) => full.cdf
    /\ pc \in Settled /\ ~ disturbed /\ Exists(full) => full.cdf

MirrorInv ==
    /\ Route /\ Recording
    /\ pc \in Settled /\ ~ disturbed /\ Exists(full) => full.rows = TargetRows
    /\ pc \in AfterSave /\ Live =>
         /\ ~ raced => full.rows = source.rows
         /\ ~ disturbed /\ Exists(target) => target.layout # feed.layout
    /\ pc \in AfterMerge /\ ~ Live /\ ~ disturbed => full.rows = ApplyEvents(TargetRows, job.events)
    /\ pc \in AfterMerge \ {"saveIncr"} /\ ~ Live => incr.events = job.events

LEMMA MirrorInit == Init => MirrorInv
BY DEF Init, StagingInit, MirrorInv, Route, Recording, Exists, AfterMerge, AfterSave

LEMMA MirrorStaging ==
  ASSUME Typed, MirrorInv, Staging
  PROVE  MirrorInv'
<1> USE DEF MirrorInv, Route, Recording, Settled, AfterMerge, AfterSave, Live
<1>1. UNCHANGED <<source, feed, target>> /\ TargetRows' = TargetRows
  BY DEF Staging, StagingStep, ReadVersion, CountSource, NoNewData, Restage, SaveFull, StampFull,
         EnableChangeDataFeed, BeginMerge, MergeFull, MergeNothing, NoChangeDataFeed, SaveIncr,
         SaveChanges, StampMerged, environment, TargetRows, Exists
<1>2. /\ full \in FullTable \cup {NoTable} /\ (pc \notin BeforeFull => full \in FullTable)
      /\ source.rows \in Rows /\ job \in [ver : Nat, live : BOOLEAN, events : Events]
      /\ target \in TargetTable \cup {NoTable} /\ TargetRows \in Rows
      /\ disturbed \in BOOLEAN /\ raced \in BOOLEAN
  <2>1. NoneAbsent \in Rows
    BY DEF NoneAbsent, Rows
  <2>2. QED
    BY <2>1 DEF Typed, StagingInv, StagingTyped, StagingTypeOK, TargetType, Exists, TargetRows, TargetTable
<1>3. pc # "saveFull" => raced' = raced /\ disturbed' = disturbed
  BY <1>2 DEF Staging, Overlaid
<1> HIDE DEF TargetRows
<1>4. CASE ReadVersion \/ CountSource \/ NoNewData \/ MergeNothing
  <2>1. UNCHANGED <<full, incr>> /\ pc \in Settled /\ pc' \in {"count", "compare", "idle"}
        /\ pc # "saveFull"
    BY <1>4 DEF ReadVersion, CountSource, NoNewData, MergeNothing, GoTo, EndRun, stagingTables
  <2>2. QED
    BY <1>1, <1>3, <2>1 DEF Exists
<1>5. CASE Restage
  <2>1. (full' = full \/ full' = NoTable) /\ pc = "compare" /\ pc' = "saveFull" /\ job'.live
    BY <1>2, <1>5 DEF Restage, GoTo, stagingTables
  <2>2. QED
    BY <1>1, <1>3, <2>1 DEF Exists
<1>6. CASE SaveFull
  <2>1. pc = "saveFull" /\ pc' = "stampFull" /\ job' = job /\ full'.rows = source.rows
    BY <1>6 DEF SaveFull, GoTo
  <2>2. raced' = FALSE /\ (~ disturbed' /\ Exists(target) => target.layout # feed.layout)
    BY <2>1 DEF Staging, Overlaid
  <2>3. QED
    BY <1>1, <2>1, <2>2 DEF Exists
<1>7. CASE StampFull \/ EnableChangeDataFeed
  <2>1. /\ full \in FullTable /\ job' = job /\ pc \in {"stampFull", "enableCdf"}
        /\ \/ pc' = "enableCdf"
           \/ pc' = "saveIncr" /\ full'.cdf
        /\ full'.rows = full.rows
    BY <1>2, <1>7 DEF StampFull, EnableChangeDataFeed, GoTo, BeforeFull, FullTable
  <2>2. QED
    BY <1>1, <1>3, <2>1 DEF Exists
<1>8. CASE BeginMerge
  <2>1. full' = full /\ pc = "compare" /\ pc' = "merge" /\ ~ job'.live
    BY <1>2, <1>8 DEF BeginMerge, GoTo, stagingTables
  <2>2. QED
    BY <1>1, <1>3, <2>1 DEF Exists
<1>9. CASE MergeFull
  <2> DEFINE rows == MergeRows(full.rows, source.rows)
  <2>1. pc = "merge" /\ pc' = "saveIncr" /\ full \in FullTable /\ full.rows \in Rows
    BY <1>2, <1>9 DEF MergeFull, GoTo, BeforeFull, FullTable
  <2>2. rows \in Rows
    BY <1>2, <2>1, MergeType
  <2>3. full'.rows = rows /\ full'.cdf = full.cdf /\ job'.live = job.live
        /\ job'.events = RowEvents(full.rows, rows)
    BY <1>2, <1>9, <2>1 DEF MergeFull, FullTable
  <2> HIDE DEF rows
  <2>4. ApplyEvents(full.rows, job'.events) = full'.rows
    BY <2>1, <2>2, <2>3, EventsCarry
  <2>5. Exists(full)
    BY <2>1, NoTableIsNew DEF Exists
  <2>6. ~ disturbed => full.rows = TargetRows /\ full.cdf
    BY <2>1, <2>5
  <2>7. ~ disturbed' => full'.rows = ApplyEvents(TargetRows', job'.events) /\ full'.cdf
    BY <1>1, <1>3, <2>1, <2>3, <2>4, <2>6
  <2>8. ~ job'.live
    BY <2>1, <2>3
  <2>9. QED
    BY <2>1, <2>7, <2>8
<1>10. CASE NoChangeDataFeed
  <2>1. pc = "saveIncr" /\ pc' = "idle" /\ disturbed /\ disturbed'
    BY <1>2, <1>3, <1>10 DEF NoChangeDataFeed, EndRun
  <2>2. QED
    BY <2>1
<1>11. CASE SaveIncr
  <2>1. full' = full /\ job' = job /\ pc = "saveIncr" /\ pc' = "saveChanges" /\ full.cdf
        /\ (~ job.live => incr'.events = job.events)
    BY <1>11 DEF SaveIncr, GoTo
  <2>2. QED
    BY <1>1, <1>3, <2>1 DEF Exists
<1>12. CASE SaveChanges
  <2>1. full' = full /\ job' = job /\ incr' = incr /\ pc = "saveChanges"
        /\ pc' = (IF job.live THEN "apply" ELSE "stampMerged")
    BY <1>12 DEF SaveChanges, GoTo
  <2>2. QED
    BY <1>1, <1>2, <1>3, <2>1 DEF Exists
<1>13. CASE StampMerged
  <2>1. /\ full \in FullTable /\ job' = job /\ incr' = incr /\ pc = "stampMerged" /\ pc' = "apply"
        /\ full'.rows = full.rows /\ full'.cdf = full.cdf
    BY <1>2, <1>13 DEF StampMerged, GoTo, BeforeFull, FullTable
  <2>2. QED
    BY <1>1, <1>3, <2>1 DEF Exists
<1>14. QED
  BY <1>4, <1>5, <1>6, <1>7, <1>8, <1>9, <1>10, <1>11, <1>12, <1>13 DEF Staging, StagingStep

\* The source, the specs and failures of staging.
LEMMA MirrorOutside ==
  ASSUME Typed, MirrorInv, SourceStep \/ SpecsStep \/ FailInStaging
  PROVE  MirrorInv'
<1> USE DEF MirrorInv, Route, Recording, Settled, AfterMerge, AfterSave, Live
<1>1. target' = target /\ TargetRows' = TargetRows /\ job' = job
  BY DEF SourceStep, SpecsStep, FailInStaging, SourceCommit, ChangePartitionKeys, FailStaging,
         StagingRaises, NullPartition, TargetRows, Exists
<1>2. raced \in BOOLEAN /\ disturbed \in BOOLEAN
  BY DEF Typed, TargetType
<1> HIDE DEF TargetRows
<1>3. CASE SourceStep
  <2>1. UNCHANGED <<feed, full, incr, pc, disturbed>>
        /\ raced' = (raced \/ source'.rows # source.rows)
    BY <1>3 DEF SourceStep, SourceCommit, stagingTables
  <2>2. QED
    BY <1>1, <1>2, <2>1 DEF Exists
<1>4. CASE SpecsStep
  <2>1. UNCHANGED <<source, full, incr, pc, disturbed, raced>> /\ pc = "idle"
    BY <1>4 DEF SpecsStep, ChangePartitionKeys, stagingTables, cdcHistory
  <2>2. QED
    BY <1>1, <2>1 DEF Exists
<1>5. CASE FailInStaging
  <2>1. pc' = "idle" /\ full' \in {full, NoTable}
        /\ disturbed' = (disturbed \/ pc \notin {"version", "count", "compare", "saveFull", "merge"})
    BY <1>5 DEF FailInStaging, FailStaging, StagingRaises, NullPartition, EndRun,
       stagingTables
  <2>2. QED
    BY <1>1, <1>2, <2>1 DEF Exists
<1>6. QED
  BY <1>3, <1>4, <1>5

\* With the events in the target the two agree.
LEMMA MirrorLoad ==
  ASSUME Typed, MirrorInv, LoadStep
  PROVE  MirrorInv'
<1> USE DEF MirrorInv, Route, Recording, Settled, AfterMerge, AfterSave, Live
<1>1. UNCHANGED <<source, feed, full, incr, changes, job>>
  BY LoadStepKept
<1>2. /\ source.rows \in Rows /\ job \in [ver : Nat, live : BOOLEAN, events : Events]
      /\ target \in TargetTable \cup {NoTable} /\ TargetRows \in Rows
      /\ disturbed \in BOOLEAN /\ raced \in BOOLEAN /\ NoTable \notin TargetTable
      /\ (Exists(full) => full.rows \in Rows)
  <2>1. NoneAbsent \in Rows
    BY DEF NoneAbsent, Rows
  <2>2. QED
    BY <2>1, TargetAssumption DEF Typed, StagingInv, StagingTyped, StagingTypeOK, TargetType,
       Exists, TargetRows, TargetTable, FullTable
<1>3. pc \notin BeforeFull => Exists(full)
  BY DEF Typed, StagingInv, StagingTyped
<1>4. CASE RejectLoadType \/ BeginRun \/ Register
  <2>1. TargetRows' = TargetRows
    <3>1. \/ target' = target
          \/ /\ target \in TargetTable
             /\ target' = [target EXCEPT !.loadType = "INCREMENTAL_CDC"]
      BY <1>2, <1>4 DEF RejectLoadType, BeginRun, Register, Exists, TargetType, Typed
    <3>2. CASE target' = target
      BY <3>2 DEF TargetRows, Exists
    <3>3. CASE target \in TargetTable /\ target' = [target EXCEPT !.loadType = "INCREMENTAL_CDC"]
      <4>1. target' \in TargetTable /\ target'.rows = target.rows
        BY <3>3 DEF TargetTable, LoadTypes
      <4>2. QED
        BY <1>2, <3>3, <4>1 DEF TargetRows, Exists
    <3>4. QED
      BY <3>1, <3>2, <3>3
  <2>2. pc \in {"idle", "register"} /\ pc' \in {"idle", "version"} /\ disturbed' = disturbed
    BY <1>4 DEF RejectLoadType, BeginRun, Register, GoTo, EndRun, cdcHistory
  <2> HIDE DEF TargetRows
  <2>3. QED
    BY <1>1, <2>1, <2>2 DEF Exists
<1>5. CASE NoChanges
  <2>1. pc = "apply" /\ pc' = "idle" /\ target' = target /\ StagedEvents = NoEvents
        /\ disturbed' = (disturbed \/ (Live /\ (raced \/ Exists(target))))
    BY <1>5 DEF NoChanges, EndRun
  <2>2. ~ disturbed' => full.rows = TargetRows
    <3> SUFFICES ASSUME ~ disturbed' PROVE full.rows = TargetRows
      OBVIOUS
    <3>1. CASE Live
      <4>1. ~ disturbed /\ ~ raced /\ ~ Exists(target) /\ full.rows = source.rows
        BY <1>2, <2>1, <3>1
      <4>2. Inserts(source.rows) = NoEvents
        BY <2>1, <3>1 DEF StagedEvents
      <4>3. InitialRows(NoEvents) = NoneAbsent
        BY DEF InitialRows, NoEvents, NoEvent, NoneAbsent
      <4>4. QED
        BY <1>2, <4>1, <4>2, <4>3, FirstRows DEF TargetRows
    <3>2. CASE ~ Live
      <4>1. full.rows = ApplyEvents(TargetRows, job.events) /\ job.events = NoEvents
        BY <1>2, <2>1, <3>2 DEF StagedEvents
      <4>2. QED
        BY <1>2, <4>1, NothingApplied
    <3>3. QED
      BY <3>1, <3>2
  <2>3. TargetRows' = TargetRows
    BY <2>1 DEF TargetRows, Exists
  <2>4. full.cdf
    BY <2>1
  <2> HIDE DEF TargetRows
  <2>5. QED
    BY <1>1, <2>1, <2>2, <2>3, <2>4
<1>6. CASE ReadEvents
  <2>1. pc = "apply" /\ pc' = "write" /\ UNCHANGED <<target, raced, disturbed>>
    BY <1>6 DEF ReadEvents, GoTo, cdcHistory
  <2>2. TargetRows' = TargetRows
    BY <2>1 DEF TargetRows, Exists
  <2> HIDE DEF TargetRows
  <2>3. QED
    BY <1>1, <2>1, <2>2 DEF Exists
<1>7. CASE RebuildTarget
  <2>1. /\ pc = "write" /\ pc' = "idle" /\ target' \in TargetTable
        /\ target'.rows = StagedRows /\ disturbed' = (Live /\ raced)
    <3>1. target' = [rows |-> StagedRows, layout |-> feed.layout, loadType |-> "none"]
      BY <1>7 DEF RebuildTarget
    <3>2. StagedRows \in Rows /\ feed.layout \in Layouts
      BY <1>7, StagedTypes
         DEF RebuildTarget, BeforeIncr, BeforeFull, Typed, StagingInv, StagingTyped, StagingTypeOK
    <3>3. target' \in TargetTable
      BY <3>1, <3>2 DEF TargetTable, LoadTypes
    <3>4. QED
      BY <1>7, <3>1, <3>3 DEF RebuildTarget, EndRun
  <2>2. TargetRows' = StagedRows
    BY <1>2, <2>1 DEF TargetRows, Exists
  <2>3. ~ disturbed' => full.rows = StagedRows
    BY <1>2, <2>1 DEF StagedRows
  <2>4. full.cdf
    BY <2>1
  <2> HIDE DEF TargetRows
  <2>5. QED
    BY <1>1, <2>1, <2>2, <2>3, <2>4
<1>8. CASE CreateTarget
  <2>1. /\ pc = "write" /\ pc' = "idle" /\ target = NoTable /\ target' # NoTable
        /\ target'.rows = InitialRows(StagedEvents)
        /\ disturbed' = (disturbed \/ (Live /\ raced))
    <3>1. target' = [rows |-> InitialRows(StagedEvents), layout |-> feed.layout, loadType |-> "none"]
      BY <1>8 DEF CreateTarget
    <3>2. target' # NoTable
      <4>1. StagedEvents \in Events
        BY <1>8, StagedTypes DEF CreateTarget, BeforeIncr, BeforeFull
      <4>2. InitialRows(StagedEvents) \in Rows
        BY <1>2, <4>1, EventsToRows
      <4>3. feed.layout \in Layouts
        BY DEF Typed, StagingInv, StagingTyped, StagingTypeOK
      <4>4. QED
        BY <1>2, <3>1, <4>2, <4>3 DEF TargetTable, LoadTypes
    <3>3. QED
      BY <1>8, <3>1, <3>2 DEF CreateTarget, EndRun, Exists
  <2>2. TargetRows' = InitialRows(StagedEvents) /\ TargetRows = NoneAbsent
    BY <2>1 DEF TargetRows, Exists
  <2>3. ~ disturbed' => full.rows = InitialRows(StagedEvents)
    <3> SUFFICES ASSUME ~ disturbed' PROVE full.rows = InitialRows(StagedEvents)
      OBVIOUS
    <3>1. CASE Live
      <4>1. ~ raced /\ full.rows = source.rows
        BY <1>2, <2>1, <3>1
      <4>2. QED
        BY <1>2, <3>1, <4>1, FirstRows DEF StagedEvents
    <3>2. CASE ~ Live
      <4>1. full.rows = ApplyEvents(NoneAbsent, job.events) /\ StagedEvents = job.events
        BY <1>2, <2>1, <2>2, <3>2 DEF StagedEvents
      <4>2. QED
        BY <1>2, <4>1, CreatedFromNothing
    <3>3. QED
      BY <3>1, <3>2
  <2>4. full.cdf
    BY <2>1
  <2> HIDE DEF TargetRows
  <2>5. QED
    BY <1>1, <2>1, <2>2, <2>3, <2>4
<1>9. CASE MergeTarget
  <2>1. /\ pc = "write" /\ pc' = "register" /\ target \in TargetTable /\ target.layout = feed.layout
        /\ target' = [target EXCEPT !.rows = ApplyEvents(target.rows, StagedEvents)]
        /\ disturbed' = (disturbed \/ (Live /\ raced))
    BY <1>2, <1>9 DEF MergeTarget, GoTo, Exists
  <2>2. TargetRows' = ApplyEvents(TargetRows, StagedEvents)
    <3>1. target' # NoTable
      BY <1>9, LoadStepType DEF LoadStep, TargetType, MergeTarget, GoTo
    <3>2. QED
      BY <1>2, <2>1, <3>1 DEF TargetRows, Exists, TargetTable
  <2>3. ~ disturbed' => full.rows = ApplyEvents(TargetRows, StagedEvents)
    <3> SUFFICES ASSUME ~ disturbed' PROVE full.rows = ApplyEvents(TargetRows, StagedEvents)
      OBVIOUS
    <3>1. ~ Live
      BY <1>2, <2>1 DEF Exists
    <3>2. QED
      BY <1>2, <2>1, <3>1 DEF StagedEvents
  <2>4. full.cdf
    BY <2>1
  <2> HIDE DEF TargetRows
  <2>5. QED
    BY <1>1, <2>1, <2>2, <2>3, <2>4
<1>10. CASE FailInLoad
  <2>1. pc' = "idle" /\ (disturbed' \/ (pc = "register" /\ target' = target /\ disturbed' = disturbed))
    BY <1>2, <1>10 DEF FailInLoad, EndRun
  <2>2. target' = target => TargetRows' = TargetRows
    BY DEF TargetRows, Exists
  <2> HIDE DEF TargetRows
  <2>3. QED
    BY <1>1, <2>1, <2>2 DEF Exists
<1>11. QED
  BY <1>4, <1>5, <1>6, <1>7, <1>8, <1>9, <1>10 DEF LoadStep

-----------------------------------------------------------------------------
(* Deletes.                                                                *)

\* Without the permission to delete no delete event is ever staged.
NoDeletes ==
    ~ feed.deletes =>
      \A k \in Keys : /\ job.events[k].op # "delete"
                      /\ Exists(incr) => incr.events[k].op # "delete"

LEMMA NoDeletesInit == Init => NoDeletes
<1>1. \A k \in Keys : NoEvents[k].op # "delete"
  BY DEF NoEvents, NoEvent
<1>2. Init => job.events = NoEvents /\ ~ Exists(incr)
  BY DEF Init, StagingInit, Exists
<1>3. QED
  BY <1>1, <1>2 DEF NoDeletes

LEMMA NoDeletesStep ==
  ASSUME Typed, NoDeletes, [Next]_cdcVars
  PROVE  NoDeletes'
<1>1. feed'.deletes = feed.deletes
  BY DEF Next, Run, Staging, SourceStep, SpecsStep, FailInStaging, SourceCommit,
         ChangePartitionKeys, FailStaging, StagingRaises, NullPartition, StagingStep, ReadVersion,
         CountSource, NoNewData, Restage, SaveFull, StampFull, EnableChangeDataFeed, BeginMerge,
         MergeFull, MergeNothing, NoChangeDataFeed, SaveIncr, SaveChanges, StampMerged,
         RejectLoadType, BeginRun, NoChanges, ReadEvents, RebuildTarget, CreateTarget, MergeTarget,
         Register, FailInLoad, environment, cdcVars, stagingVars, Typed, StagingInv, StagingTyped,
         StagingTypeOK
<1>2. CASE MergeFull
  <2> DEFINE rows == MergeRows(full.rows, source.rows)
  <2>1. job' = [job EXCEPT !.events = RowEvents(full.rows, rows)] /\ incr' = incr
    BY <1>2 DEF MergeFull
  <2>2. job'.events = RowEvents(full.rows, rows)
    BY <2>1 DEF Typed, StagingInv, StagingTyped, StagingTypeOK
  <2>3. ASSUME ~ feed.deletes, NEW k \in Keys PROVE RowEvents(full.rows, rows)[k].op # "delete"
    <3>1. full.rows[k] # Absent => rows[k] # Absent
      BY <2>3 DEF MergeRows
    <3> HIDE DEF rows
    <3>2. RowEvents(full.rows, rows)[k] \in
            {NoEvent, [op |-> "insert", val |-> rows[k]], [op |-> "update", val |-> rows[k]]}
      <4>1. CASE full.rows[k] = rows[k]
        BY <4>1 DEF RowEvents
      <4>2. CASE full.rows[k] # rows[k] /\ full.rows[k] = Absent
        BY <4>2 DEF RowEvents
      <4>3. CASE full.rows[k] # rows[k] /\ full.rows[k] # Absent
        BY <3>1, <4>3 DEF RowEvents
      <4>4. QED
        BY <4>1, <4>2, <4>3
    <3>3. QED
      BY <3>2 DEF NoEvent
  <2> HIDE DEF rows
  <2>4. QED
    BY <1>1, <2>1, <2>2, <2>3 DEF NoDeletes, Exists
<1>3. CASE SaveIncr
  <2>1. job' = job /\ incr'.events = IF Live THEN Inserts(source.rows) ELSE job.events
    BY <1>3 DEF SaveIncr
  <2>2. \A k \in Keys : Inserts(source.rows)[k].op # "delete"
    BY DEF Inserts, NoEvent
  <2>3. QED
    BY <1>1, <2>1, <2>2 DEF NoDeletes
<1>4. CASE ~ MergeFull /\ ~ SaveIncr
  <2>1. job'.events = job.events /\ (incr' = incr \/ incr' = NoTable)
    BY <1>4 DEF Next, Run, Staging, SourceStep, SpecsStep, FailInStaging, SourceCommit,
                ChangePartitionKeys, FailStaging, StagingRaises, NullPartition, StagingStep,
                ReadVersion, CountSource, NoNewData, Restage, SaveFull, StampFull,
                EnableChangeDataFeed, BeginMerge, MergeNothing, NoChangeDataFeed, SaveChanges,
                StampMerged, RejectLoadType, BeginRun, NoChanges, ReadEvents, RebuildTarget,
                CreateTarget, MergeTarget, Register, FailInLoad, stagingTables, cdcVars,
                stagingVars, Typed, StagingInv, StagingTyped, StagingTypeOK
  <2>2. QED
    BY <1>1, <2>1 DEF NoDeletes, Exists
<1>5. QED
  BY <1>2, <1>3, <1>4

\* Only MergeTarget changes the rows of a target that keeps its partitioning.
LEMMA RowsKept ==
  ASSUME Typed, NoDeletes, [Next]_cdcVars, ~ feed.deletes, Exists(target), Exists(target'),
         target'.layout = target.layout, NEW k \in Keys, target.rows[k] # Absent
  PROVE  target'.rows[k] # Absent
<1>1. target \in TargetTable /\ target.rows \in Rows
  BY DEF Typed, TargetType, Exists, TargetTable
<1>2. CASE MergeTarget
  <2>1. target'.rows = ApplyEvents(target.rows, StagedEvents) /\ pc = "write"
    BY <1>1, <1>2 DEF MergeTarget, TargetTable
  <2>2. StagedEvents[k] \in Event /\ Exists(incr)
    BY <2>1, StagedTypes DEF BeforeIncr, BeforeFull, Events, Typed, StagingInv, StagingTyped
  <2>3. StagedEvents[k].op # "delete"
    BY <2>2 DEF NoDeletes, StagedEvents, Inserts, NoEvent
  <2> HIDE DEF StagedEvents
  <2>4. StagedEvents[k] # NoEvent => StagedEvents[k].val # Absent
    BY <2>2, EventParts, StagingAssumption
  <2>5. target'.rows[k] \in {target.rows[k], StagedEvents[k].val}
        /\ (StagedEvents[k] = NoEvent => target'.rows[k] = target.rows[k])
    BY <2>1, <2>3 DEF ApplyEvents
  <2>6. QED
    BY <2>4, <2>5 DEF ApplyEvents
<1>3. CASE RebuildTarget
  BY <1>3 DEF RebuildTarget
<1>4. CASE CreateTarget
  BY <1>4 DEF CreateTarget
<1>5. CASE ~ MergeTarget /\ ~ RebuildTarget /\ ~ CreateTarget
  <2>1. target' = target \/ target' = NoTable
        \/ target' = [target EXCEPT !.loadType = "INCREMENTAL_CDC"]
    BY <1>5 DEF Next, Run, Staging, SourceStep, SpecsStep, FailInStaging, RejectLoadType, BeginRun,
         NoChanges, ReadEvents, Register, FailInLoad, cdcVars
  <2>2. QED
    BY <1>1, <2>1 DEF Exists, TargetTable
<1>6. QED
  BY <1>2, <1>3, <1>4, <1>5

-----------------------------------------------------------------------------
(* The theorems.                                                           *)

IInv == Typed /\ MirrorInv /\ NoDeletes

LEMMA Inductive == Spec => []IInv
<1>1. Init => IInv
  BY TypedInit, MirrorInit, NoDeletesInit DEF IInv
<1>2. IInv /\ [Next]_cdcVars => IInv'
  <2> SUFFICES ASSUME IInv, [Next]_cdcVars PROVE IInv'
    OBVIOUS
  <2>1. Typed' /\ NoDeletes'
    BY TypedStep, NoDeletesStep DEF IInv
  <2>2. MirrorInv'
    <3>1. CASE Staging
      BY <3>1, MirrorStaging DEF IInv
    <3>2. CASE SourceStep \/ SpecsStep \/ FailInStaging
      BY <3>2, MirrorOutside DEF IInv
    <3>3. CASE LoadStep
      BY <3>3, MirrorLoad DEF IInv
    <3>4. CASE UNCHANGED cdcVars
      BY <3>4 DEF IInv, cdcVars, stagingVars, environment, stagingTables, cdcHistory, MirrorInv,
         Route, Recording, TargetRows, Exists, Live
    <3>5. QED
      BY <3>1, <3>2, <3>3, <3>4 DEF Next, Run, LoadStep
  <2>3. QED
    BY <2>1, <2>2 DEF IInv
<1>3. QED
  BY <1>1, <1>2, PTL DEF Spec

\* Every variable of the feed and of its staging tables has its type.
THEOREM TypeCorrect == Spec => []TypeOK
<1>1. IInv => TypeOK
  BY DEF IInv, Typed, StagingInv, StagingTyped, TargetType, TypeOK
<1>2. QED
  BY <1>1, Inductive, PTL

\* "No new data" is true whenever the code concludes it, for every
\* interleaving of commits to the source with the steps of a run.
THEOREM SkipSound == Spec => []SkipIsSound
<1>1. IInv => SkipIsSound
  BY StampsAreSound DEF IInv, Typed
<1>2. QED
  BY <1>1, Inductive, PTL

\* Between runs the target is t_full, unless row events were lost.
THEOREM TargetMirrors == Spec => []TargetMirrorsStaging
<1>1. IInv => TargetMirrorsStaging
  BY DEF IInv, MirrorInv, Settled, TargetRows, TargetMirrorsStaging
<1>2. QED
  BY <1>1, Inductive, PTL

\* A feed that may not delete unmatched rows takes no row out of a target that
\* keeps its partitioning, whatever the source loses.
THEOREM NoMassDelete == Spec => UnmatchedKept
<1>1. IInv /\ [Next]_cdcVars =>
        [~ feed.deletes /\ Exists(target) /\ Exists(target') /\ target'.layout = target.layout
           => \A k \in Keys : target.rows[k] # Absent => target'.rows[k] # Absent]_cdcVars
  BY RowsKept DEF IInv
<1>2. QED
  BY <1>1, Inductive, PTL DEF Spec, UnmatchedKept

=============================================================================
