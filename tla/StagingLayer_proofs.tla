------------------------- MODULE StagingLayer_proofs -------------------------
(***************************************************************************)
(* Lemmas about the keyed staging layer, for the load types that build on  *)
(* it: types, the tables that exist at each step, and the soundness of the *)
(* version stamp on t_full.                                                *)
(***************************************************************************)
EXTENDS StagingLayer, TLAPS

\* The steps of a run before t_full, and before t_incr, is certain to exist.
BeforeFull == {"idle", "version", "count", "compare", "saveFull"}
BeforeIncr == BeforeFull \cup {"stampFull", "enableCdf", "merge", "saveIncr"}

StagingTyped ==
    /\ StagingTypeOK
    /\ pc \notin BeforeFull => Exists(full)
    /\ pc \notin BeforeIncr => Exists(incr)

\* From the write of t_full until it is stamped.
Unstamped == {"stampFull", "enableCdf", "saveIncr", "saveChanges", "stampMerged"}

\* Merging the source into rows would change nothing.
Synced(rows) ==
    \A k \in Keys : rows[k] = source.rows[k] \/ (source.rows[k] = Absent /\ ~ feed.deletes)

\* A stamp is never ahead of the source, and a t_full that has the source's
\* present version for a stamp, or is about to get it, has nothing to merge.
StampInv ==
    /\ job.ver <= source.ver
    /\ Exists(full) => full.stamp = NoStamp \/ full.stamp <= source.ver
    /\ Exists(full) /\ full.stamp = source.ver => Synced(full.rows)
    /\ pc \in Unstamped /\ job.ver = source.ver => Synced(full.rows)

StagingInv == StagingTyped /\ StampInv

-----------------------------------------------------------------------------
(* Rows and row events.                                                    *)

LEMMA EventParts ==
  ASSUME NEW e \in Event
  PROVE  /\ e.val \in Vals \cup {Absent} /\ e.op \in {"none", "insert", "update", "delete"}
         /\ e # NoEvent => e.val \in Vals /\ e.op # "none"
         /\ NoEvent.op = "none" /\ NoEvent.val = Absent
<1>1. CASE e = NoEvent
  BY <1>1 DEF NoEvent
<1>2. CASE e \in [op : {"insert", "update", "delete"}, val : Vals]
  BY <1>2 DEF NoEvent
<1>3. QED
  BY <1>1, <1>2 DEF Event

LEMMA InsertsType ==
  ASSUME NEW rows \in Rows
  PROVE  Inserts(rows) \in Events
BY DEF Inserts, Rows, Events, Event, NoEvent

LEMMA RowEventsType ==
  ASSUME NEW before \in Rows, NEW after \in Rows
  PROVE  RowEvents(before, after) \in Events
<1>1. ASSUME NEW k \in Keys PROVE RowEvents(before, after)[k] \in Event
  <2>1. before[k] \in Vals \cup {Absent} /\ after[k] \in Vals \cup {Absent}
    BY DEF Rows
  <2>2. CASE before[k] = after[k]
    BY <2>2 DEF RowEvents, Event
  <2>3. CASE before[k] # after[k] /\ before[k] = Absent
    BY <2>1, <2>3 DEF RowEvents, Event
  <2>4. CASE before[k] # after[k] /\ before[k] # Absent /\ after[k] = Absent
    BY <2>1, <2>4 DEF RowEvents, Event
  <2>5. CASE before[k] # after[k] /\ before[k] # Absent /\ after[k] # Absent
    BY <2>1, <2>5 DEF RowEvents, Event
  <2>6. QED
    BY <2>2, <2>3, <2>4, <2>5
<1>2. QED
  BY <1>1 DEF Events, RowEvents

LEMMA MergeType ==
  ASSUME NEW rows \in Rows, NEW incoming \in Rows
  PROVE  MergeRows(rows, incoming) \in Rows
BY DEF MergeRows, Rows

LEMMA NoTableIsNew ==
    /\ \A t \in FullTable : t # NoTable
    /\ \A t \in IncrTable : t # NoTable
    /\ \A l \in Layouts : l # NoTable
BY StagingAssumption

-----------------------------------------------------------------------------
(* Types.                                                                  *)

LEMMA StagingTypeInit == StagingInit => StagingTyped
<1> SUFFICES ASSUME StagingInit PROVE StagingTyped
  OBVIOUS
<1>1. NoEvents \in Events
  BY DEF NoEvents, Events, Event
<1>2. QED
  BY <1>1, StagingAssumption DEF StagingInit, StagingTyped, StagingTypeOK, BeforeFull, BeforeIncr

\* The source, the specs, and a failure.
LEMMA OutsideType ==
  ASSUME StagingTyped, SourceCommit \/ ChangePartitionKeys \/ FailStaging
  PROVE  StagingTyped'
<1> USE DEF StagingTyped, StagingTypeOK, BeforeFull, BeforeIncr
<1>1. CASE SourceCommit
  BY <1>1, StagingAssumption DEF SourceCommit, stagingTables, Exists
<1>2. CASE ChangePartitionKeys
  BY <1>2 DEF ChangePartitionKeys, stagingTables, Exists
<1>3. CASE FailStaging
  BY <1>3 DEF FailStaging, StagingRaises, NullPartition, EndRun, environment, stagingTables
<1>4. QED
  BY <1>1, <1>2, <1>3

LEMMA StagingTypeStep ==
  ASSUME StagingTyped, StagingStep
  PROVE  StagingTyped'
<1> USE DEF StagingTyped, StagingTypeOK, BeforeFull, BeforeIncr, environment, stagingTables
<1>1. CASE ReadVersion
  BY <1>1 DEF ReadVersion, GoTo
<1>2. CASE CountSource
  BY <1>2 DEF CountSource, GoTo, EndRun
<1>3. CASE NoNewData
  BY <1>3 DEF NoNewData, EndRun
<1>4. CASE Restage
  BY <1>4 DEF Restage, GoTo
<1>5. CASE SaveFull
  <2>1. full' \in FullTable
    BY <1>5 DEF SaveFull, FullTable
  <2>2. QED
    BY <1>5, <2>1, NoTableIsNew DEF SaveFull, GoTo, Exists
<1>6. CASE StampFull \/ EnableChangeDataFeed \/ StampMerged
  <2>1. full \in FullTable
    BY <1>6 DEF StampFull, EnableChangeDataFeed, StampMerged, Exists
  <2>2. full' \in FullTable
    BY <1>6, <2>1 DEF StampFull, EnableChangeDataFeed, StampMerged, FullTable
  <2>3. UNCHANGED <<source, feed, incr, changes, job, faults>>
    BY <1>6 DEF StampFull, EnableChangeDataFeed, StampMerged
  <2>4. pc \notin BeforeFull /\ (pc' \in BeforeIncr \/ pc \notin BeforeIncr)
    BY <1>6 DEF StampFull, EnableChangeDataFeed, StampMerged, GoTo
  <2>5. QED
    BY <2>2, <2>3, <2>4, NoTableIsNew DEF Exists
<1>7. CASE BeginMerge
  BY <1>7 DEF BeginMerge, GoTo, Exists
<1>8. CASE MergeFull
  <2> DEFINE rows == MergeRows(full.rows, source.rows)
  <2>1. full \in FullTable /\ full.rows \in Rows /\ source.rows \in Rows
    BY <1>8 DEF MergeFull, Exists, FullTable
  <2>2. rows \in Rows /\ RowEvents(full.rows, rows) \in Events
    BY <2>1, MergeType, RowEventsType
  <2>3. full' = [full EXCEPT !.rows = rows]
        /\ job' = [job EXCEPT !.events = RowEvents(full.rows, rows)]
        /\ pc' = "saveIncr" /\ UNCHANGED <<source, feed, incr, changes, faults>>
    BY <1>8 DEF MergeFull, GoTo
  <2> HIDE DEF rows
  <2>4. full' \in FullTable
    BY <2>1, <2>2, <2>3 DEF FullTable
  <2>5. job' \in [ver : Nat, live : BOOLEAN, events : Events]
    BY <2>2, <2>3
  <2>6. QED
    BY <2>3, <2>4, <2>5, NoTableIsNew DEF Exists
<1>9. CASE MergeNothing \/ NoChangeDataFeed
  BY <1>9 DEF MergeNothing, NoChangeDataFeed, EndRun
<1>10. CASE SaveIncr
  <2>1. Inserts(source.rows) \in Events /\ job.events \in Events
    BY InsertsType
  <2>2. incr' \in IncrTable
    BY <1>10, <2>1 DEF SaveIncr, IncrTable, Live
  <2>3. QED
    BY <1>10, <2>2, NoTableIsNew DEF SaveIncr, GoTo, Exists
<1>11. CASE SaveChanges
  BY <1>11 DEF SaveChanges, GoTo, Exists
<1>12. QED
  BY <1>1, <1>2, <1>3, <1>4, <1>5, <1>6, <1>7, <1>8, <1>9, <1>10, <1>11 DEF StagingStep

-----------------------------------------------------------------------------
(* Stamps.                                                                 *)

\* What SkipIsSound says of t_full, row by row.
LEMMA NothingToMerge ==
  ASSUME source.rows \in Rows, NEW rows \in Rows, Synced(rows)
  PROVE  MergeRows(rows, source.rows) = rows
BY DEF MergeRows, Synced, Rows

LEMMA StampsAreSound == StagingInv => SkipIsSound
<1> SUFFICES ASSUME StagingInv, Exists(full), full.stamp = source.ver
             PROVE  MergeRows(full.rows, source.rows) = full.rows
  BY DEF SkipIsSound
<1>1. source.rows \in Rows /\ full.rows \in Rows
  BY DEF StagingInv, StagingTyped, StagingTypeOK, Exists, FullTable
<1>2. Synced(full.rows)
  BY DEF StagingInv, StampInv
<1>3. QED
  BY <1>1, <1>2, NothingToMerge

LEMMA StampInit == StagingInit => StampInv
BY DEF StagingInit, StampInv, Exists, Unstamped

\* A commit to the source puts it ahead of every stamp.
LEMMA OutsideStamp ==
  ASSUME StagingTyped, StampInv, SourceCommit \/ ChangePartitionKeys \/ FailStaging
  PROVE  StampInv'
<1> USE DEF StampInv, StagingTyped, StagingTypeOK, Exists, FullTable
<1>1. source.ver \in Nat /\ job.ver \in Nat
      /\ (Exists(full) => full.stamp = NoStamp \/ full.stamp \in Nat)
  OBVIOUS
<1>2. CASE SourceCommit
  <2>1. source'.ver = source.ver + 1 /\ UNCHANGED <<feed, full, pc, job>>
    BY <1>2 DEF SourceCommit, stagingTables
  <2>2. QED
    BY <1>1, <2>1, StagingAssumption
<1>3. CASE ChangePartitionKeys
  <2>1. UNCHANGED <<source, full, pc, job>> /\ feed'.deletes = feed.deletes
    BY <1>3 DEF ChangePartitionKeys, stagingTables
  <2>2. QED
    BY <2>1 DEF Synced
<1>4. CASE FailStaging
  <2>1. UNCHANGED <<source, feed, job>> /\ pc' = "idle" /\ full' \in {full, NoTable}
    BY <1>4 DEF FailStaging, StagingRaises, NullPartition, EndRun, environment, stagingTables
  <2>2. QED
    BY <2>1 DEF Synced, Unstamped
<1>5. QED
  BY <1>2, <1>3, <1>4

LEMMA StampStep ==
  ASSUME StagingTyped, StampInv, StagingStep
  PROVE  StampInv'
<1> USE DEF StampInv
<1>1. UNCHANGED <<source, feed>>
  BY DEF StagingStep, ReadVersion, CountSource, NoNewData, Restage, SaveFull, StampFull,
         EnableChangeDataFeed, BeginMerge, MergeFull, MergeNothing, NoChangeDataFeed, SaveIncr,
         SaveChanges, StampMerged, environment
<1>2. \A rows : Synced(rows) => Synced(rows)'
  BY <1>1 DEF Synced
<1>3. /\ source.ver \in Nat /\ job.ver \in Nat /\ source.rows \in Rows
      /\ (Exists(full) => full \in FullTable)
  BY DEF StagingTyped, StagingTypeOK, Exists
<1>4. CASE ReadVersion \/ CountSource \/ NoNewData \/ Restage \/ BeginMerge
           \/ MergeNothing \/ NoChangeDataFeed
  <2>1. pc' \notin Unstamped /\ (full' = full \/ full' = NoTable) /\ job'.ver <= source.ver
    BY <1>3, <1>4 DEF ReadVersion, CountSource, NoNewData, Restage, BeginMerge, MergeNothing,
         NoChangeDataFeed, GoTo, EndRun, Unstamped, stagingTables, StagingTyped, StagingTypeOK
  <2>2. QED
    BY <1>1, <2>1 DEF Exists, Synced
<1>5. CASE SaveFull
  <2>1. full'.rows = source.rows /\ full'.stamp = NoStamp /\ job' = job
    BY <1>5 DEF SaveFull
  <2>2. Synced(full.rows)'
    BY <1>1, <2>1 DEF Synced
  <2>3. QED
    BY <1>1, <1>3, <2>1, <2>2, StagingAssumption
<1>6. CASE StampFull \/ StampMerged
  <2>1. full \in FullTable
    BY <1>3, <1>6 DEF StampFull, StampMerged, StagingTyped, BeforeFull
  <2>2. full'.rows = full.rows /\ full'.stamp \in {full.stamp, job.ver} /\ job' = job
    BY <1>6, <2>1 DEF StampFull, StampMerged, FullTable
  <2>3. Exists(full) /\ pc \in Unstamped
    BY <1>6, <2>1, NoTableIsNew DEF StampFull, StampMerged, Unstamped, Exists
  <2>4. source' = source /\ (job.ver = source.ver => Synced(full.rows)')
        /\ (full.stamp = source.ver => Synced(full.rows)')
    BY <1>1, <2>2, <2>3 DEF Synced
  <2>5. QED
    BY <1>1, <1>3, <2>2, <2>3, <2>4
<1>7. CASE EnableChangeDataFeed \/ SaveIncr \/ SaveChanges
  <2>1. full \in FullTable
    BY <1>3, <1>7 DEF EnableChangeDataFeed, SaveIncr, SaveChanges, StagingTyped, BeforeFull
  <2>2. full'.rows = full.rows /\ full'.stamp = full.stamp /\ job' = job /\ pc \in Unstamped
    BY <1>7, <2>1 DEF EnableChangeDataFeed, SaveIncr, SaveChanges, FullTable, Unstamped
  <2>3. Exists(full)
    BY <2>1, NoTableIsNew DEF Exists
  <2>4. source' = source /\ (job.ver = source.ver => Synced(full.rows)')
        /\ (full.stamp = source.ver => Synced(full.rows)')
    BY <1>1, <2>2, <2>3 DEF Synced
  <2>5. QED
    BY <2>2, <2>3, <2>4
<1>8. CASE MergeFull
  <2>1. full \in FullTable
    BY <1>3, <1>8 DEF MergeFull, StagingTyped, BeforeFull
  <2>2. full'.rows = MergeRows(full.rows, source.rows) /\ full'.stamp = full.stamp
        /\ job'.ver = job.ver
    BY <1>8, <2>1 DEF MergeFull, FullTable, StagingTyped, StagingTypeOK
  <2>3. Exists(full)
    BY <2>1, NoTableIsNew DEF Exists
  <2>4. Synced(full.rows)'
    BY <1>1, <2>2 DEF Synced, MergeRows
  <2>5. QED
    BY <1>1, <2>2, <2>3, <2>4
<1>9. QED
  BY <1>4, <1>5, <1>6, <1>7, <1>8 DEF StagingStep

-----------------------------------------------------------------------------
(* For the load types.                                                     *)

LEMMA StagingStart == StagingInit => StagingInv
BY StagingTypeInit, StampInit DEF StagingInv

LEMMA StagingProgress ==
  ASSUME StagingInv, StagingStep \/ SourceCommit \/ ChangePartitionKeys \/ FailStaging
  PROVE  StagingInv'
BY StagingTypeStep, OutsideType, StampStep, OutsideStamp DEF StagingInv

\* A step of the load itself leaves staging alone.
LEMMA StagingKept ==
  ASSUME StagingInv, UNCHANGED <<source, feed, full, incr, changes, job>>, faults' \in Nat,
         pc' \notin Unstamped, pc' \in {"idle", "version"} \/ pc \notin BeforeIncr
  PROVE  StagingInv'
BY DEF StagingInv, StagingTyped, StagingTypeOK, StampInv, Exists, Synced, BeforeFull, BeforeIncr

=============================================================================
