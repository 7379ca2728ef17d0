-------------------------- MODULE AppendLoad_proofs --------------------------
(***************************************************************************)
(* Proofs about AppendLoad: what it appends, and that its target is a      *)
(* history, for any keys, values, snapshots, layouts, bounds and failures. *)
(***************************************************************************)
EXTENDS AppendLoad, StagingLayer_proofs, SequenceTheorems, FiniteSetTheorems

TargetType ==
    /\ pc \in StagingSteps \cup {"append", "register"}
    /\ target \in TargetTable \cup {NoTable}
    /\ pc = "register" => target # NoTable
    /\ arrivals \in [Keys -> Seq(Vals)] /\ known \in Rows /\ fresh \subseteq Keys
    /\ raced \in BOOLEAN /\ disturbed \in BOOLEAN

Typed == StagingInv /\ TargetType

\* The steps of the load itself, and what they leave alone.
LoadStep ==
    \/ RejectLoadType \/ BeginRun \/ RebuildTarget \/ NothingToAppend
    \/ CountInserts \/ AppendRows \/ Register \/ FailInLoad

LEMMA LoadStepKept ==
  ASSUME Typed, LoadStep
  PROVE  /\ UNCHANGED <<source, feed, full, incr, changes, job, arrivals, known>>
         /\ StagingInv'
<1> USE DEF LoadStep, RejectLoadType, BeginRun, RebuildTarget, NothingToAppend, CountInserts,
            AppendRows, Register, FailInLoad
<1>1. UNCHANGED <<source, feed, full, incr, changes, job, arrivals, known>>
  BY DEF environment, stagingTables
<1>2. faults' \in Nat
  BY DEF Typed, StagingInv, StagingTyped, StagingTypeOK
<1>3. pc' \notin Unstamped /\ (pc' \in {"idle", "version"} \/ pc \notin BeforeIncr)
  BY DEF GoTo, EndRun, Unstamped, BeforeIncr, BeforeFull
<1>4. QED
  BY <1>1, <1>2, <1>3, StagingKept DEF Typed

-----------------------------------------------------------------------------
(* Sequences of values.                                                    *)

LEMMA NothingAdded ==
  ASSUME NEW S, NEW s \in Seq(S)
  PROVE  s \o <<>> = s /\ <<>> \o s = s
BY ConcatEmptySeq

\* What is appended is one value or none.
LEMMA InsertsAppended ==
  ASSUME NEW events \in Events, NEW k \in Keys
  PROVE  /\ AppendInserts(events)[k] \in Seq(Vals)
         /\ \/ events[k].op # "insert" /\ AppendInserts(events)[k] = <<>>
            \/ /\ events[k].op = "insert" /\ events[k].val \in Vals
               /\ AppendInserts(events)[k] = <<events[k].val>>
<1>1. events[k] \in Event
  BY DEF Events
<1>2. events[k].op = "insert" => events[k].val \in Vals
  BY <1>1, EventParts
<1>3. CASE events[k].op = "insert"
  BY <1>2, <1>3 DEF AppendInserts
<1>4. CASE events[k].op # "insert"
  BY <1>4, EmptySeq DEF AppendInserts
<1>5. QED
  BY <1>3, <1>4

LEMMA AppendedType ==
  ASSUME NEW rows \in [Keys -> Seq(Vals)], NEW events \in Events
  PROVE  Appended(rows, AppendInserts(events)) \in [Keys -> Seq(Vals)]
<1>1. ASSUME NEW k \in Keys PROVE rows[k] \o AppendInserts(events)[k] \in Seq(Vals)
  <2>1. AppendInserts(events)[k] \in Seq(Vals) /\ rows[k] \in Seq(Vals)
    BY InsertsAppended
  <2> HIDE DEF AppendInserts
  <2>2. QED
    BY <2>1, ConcatProperties
<1>2. QED
  BY <1>1 DEF Appended

\* Nothing to append, nothing appended.
LEMMA AppendedNothing ==
  ASSUME NEW rows \in [Keys -> Seq(Vals)]
  PROVE  Appended(rows, NoRows) = rows
<1>1. ASSUME NEW k \in Keys PROVE rows[k] \o NoRows[k] = rows[k]
  BY NothingAdded DEF NoRows
<1>2. QED
  BY <1>1 DEF Appended

LEMMA NoRowsType == NoRows \in [Keys -> Seq(Vals)]
BY EmptySeq DEF NoRows

LEMMA TargetRowsType ==
  ASSUME Typed
  PROVE  TargetRows \in [Keys -> Seq(Vals)]
BY NoRowsType DEF Typed, TargetType, TargetRows, TargetTable, Exists

LEMMA StagedEventsType ==
  ASSUME Typed, pc \notin BeforeIncr
  PROVE  StagedEvents \in Events
<1>1. source.rows \in Rows /\ incr \in IncrTable
  BY DEF Typed, StagingInv, StagingTyped, StagingTypeOK, Exists
<1>2. QED
  BY <1>1, InsertsType DEF StagedEvents, IncrTable

-----------------------------------------------------------------------------
(* Types.                                                                  *)

LEMMA LoadStepType ==
  ASSUME Typed, LoadStep
  PROVE  TargetType'
<1> USE DEF TargetType, StagingSteps
<1>1. target \in TargetTable \cup {NoTable} /\ (Exists(target) => target \in TargetTable)
      /\ feed.layout \in Layouts
  BY DEF Typed, Exists, StagingInv, StagingTyped, StagingTypeOK
<1>2. UNCHANGED <<arrivals, known>>
  BY LoadStepKept
<1>3. CASE RejectLoadType \/ NothingToAppend \/ CountInserts
  BY <1>2, <1>3 DEF RejectLoadType, NothingToAppend, CountInserts, GoTo, EndRun, Typed, ofRun,
                    Forgotten
<1>4. CASE BeginRun \/ Register
  <2>1. target' = target \/ (target \in TargetTable /\
                              target' = [target EXCEPT !.loadType = "APPEND_LOAD"])
    BY <1>1, <1>4 DEF BeginRun, Register, Typed
  <2>2. target' \in TargetTable \cup {NoTable}
    BY <1>1, <2>1 DEF TargetTable, LoadTypes
  <2>3. QED
    BY <1>2, <1>4, <2>2 DEF BeginRun, Register, GoTo, EndRun, Typed, ofRun, Forgotten
<1>5. CASE RebuildTarget
  <2>1. target' \in TargetTable
    BY <1>1, <1>5 DEF RebuildTarget, TargetMismatch, TargetTable, LoadTypes
  <2>2. QED
    BY <1>2, <1>5, <2>1 DEF RebuildTarget, EndRun, Typed, Forgotten
<1>6. CASE AppendRows
  <2>1. StagedEvents \in Events /\ TargetRows \in [Keys -> Seq(Vals)]
    BY <1>6, StagedEventsType, TargetRowsType DEF AppendRows, BeforeIncr, BeforeFull
  <2>2. Appended(TargetRows, AppendInserts(StagedEvents)) \in [Keys -> Seq(Vals)]
    BY <2>1, AppendedType
  <2>3. (IF Exists(target) THEN target.loadType ELSE "none") \in LoadTypes
    BY <1>1 DEF TargetTable, LoadTypes
  <2>4. target' \in TargetTable
    BY <1>1, <1>6, <2>2, <2>3 DEF AppendRows, TargetTable
  <2>5. QED
    BY <1>2, <1>6, <2>4, TargetAssumption DEF AppendRows, GoTo, Typed, ofRun
<1>7. CASE FailInLoad
  BY <1>1, <1>2, <1>7 DEF FailInLoad, EndRun, Typed, Forgotten
<1>8. QED
  BY <1>3, <1>4, <1>5, <1>6, <1>7 DEF LoadStep

\* The steps of staging, the source and the specs.
LEMMA OtherStepType ==
  ASSUME Typed, StagingInv', Staging \/ SourceStep \/ SpecsStep \/ FailInStaging
  PROVE  TargetType'
<1>1. target' = target /\ disturbed' \in BOOLEAN /\ raced' \in BOOLEAN
  BY DEF Staging, SourceStep, SpecsStep, FailInStaging, ofRun, Forgotten, Typed, TargetType
<1>2. pc' \in StagingSteps \cup {"append", "register"} /\ (pc' = "register" => pc = "register")
  BY DEF Staging, SourceStep, SpecsStep, FailInStaging, StagingStep, SourceCommit,
         ChangePartitionKeys, FailStaging, StagingRaises, NullPartition, ReadVersion, CountSource,
         NoNewData, Restage, SaveFull, StampFull, EnableChangeDataFeed, BeginMerge, MergeFull,
         MergeNothing, NoChangeDataFeed, SaveIncr, SaveChanges, StampMerged, GoTo, EndRun,
         StagingSteps, Typed, TargetType
<1>3. Exists(full') => full' \in FullTable /\ full'.rows \in Rows
  BY DEF StagingInv, StagingTyped, StagingTypeOK, Exists, FullTable
<1>4. CASE Staging \/ FailInStaging
  <2>1. known' \in Rows
    BY <1>3, <1>4 DEF Staging, FailInStaging, Arrive, Typed, TargetType
  <2>2. ASSUME NEW k \in Arriving PROVE Append(arrivals[k], full'.rows[k]) \in Seq(Vals)
    <3>1. k \in Keys /\ full'.rows[k] \in Vals
      BY <1>3, <2>2 DEF Arriving, Rows
    <3>2. arrivals[k] \in Seq(Vals)
      BY <3>1 DEF Typed, TargetType
    <3>3. QED
      BY <3>1, <3>2, AppendProperties
  <2>3. arrivals' \in [Keys -> Seq(Vals)]
    BY <1>4, <2>2 DEF Staging, FailInStaging, Arrive, Typed, TargetType
  <2>4. fresh' \subseteq Keys
    BY <1>4 DEF Staging, FailInStaging, Arriving, Forgotten, Typed, TargetType
  <2>5. QED
    BY <1>1, <1>2, <2>1, <2>3, <2>4 DEF Typed, TargetType
<1>5. CASE SourceStep \/ SpecsStep
  <2>1. UNCHANGED <<arrivals, known, fresh>>
    BY <1>5 DEF SourceStep, SpecsStep, ofRun
  <2>2. QED
    BY <1>1, <1>2, <2>1 DEF Typed, TargetType
<1>6. QED
  BY <1>4, <1>5

LEMMA TypedStep == Typed /\ [Next]_appendVars => Typed'
<1> SUFFICES ASSUME Typed, [Next]_appendVars PROVE Typed'
  OBVIOUS
<1>1. CASE LoadStep
  BY <1>1, LoadStepKept, LoadStepType DEF Typed
<1>2. CASE Staging \/ SourceStep \/ SpecsStep \/ FailInStaging
  <2>1. StagingInv'
    BY <1>2, StagingProgress DEF Staging, SourceStep, SpecsStep, FailInStaging, Typed
  <2>2. QED
    BY <1>2, <2>1, OtherStepType DEF Typed
<1>3. CASE UNCHANGED appendVars
  BY <1>3 DEF appendVars, ofRun, stagingVars, environment, stagingTables, Typed, StagingInv,
              StagingTyped, StagingTypeOK, StampInv, Synced, Exists, TargetType
<1>4. QED
  BY <1>1, <1>2, <1>3 DEF Next, Run, LoadStep

LEMMA TypedInit == Init => Typed
<1> SUFFICES ASSUME Init PROVE Typed
  OBVIOUS
<1>1. StagingInv
  BY StagingStart DEF Init
<1>2. target \in TargetTable \cup {NoTable}
  BY <1>1, NoRowsType DEF Init, TargetTable, LoadTypes, StagingInv, StagingTyped, StagingTypeOK
<1>3. known \in Rows
  BY DEF Init, Rows
<1>4. QED
  BY <1>1, <1>2, <1>3, NoRowsType DEF Init, StagingInit, Typed, TargetType, StagingSteps

-----------------------------------------------------------------------------
(* The count of the rows.                                                  *)

\* A target has finitely many rows, so the count that a load is held to exists.
LEMMA RowCountType ==
  ASSUME NEW rows \in [Keys -> Seq(Vals)]
  PROVE  RowCount(rows) \in Nat
<1> DEFINE Of(k) == {k} \X DOMAIN rows[k]
           f == [k \in Keys |-> Of(k)]
           T == {Of(k) : k \in Keys}
<1>1. ASSUME NEW k \in Keys PROVE IsFiniteSet(Of(k))
  <2>1. Len(rows[k]) \in Nat /\ DOMAIN rows[k] = 1 .. Len(rows[k])
    BY LenProperties
  <2>2. IsFiniteSet(DOMAIN rows[k])
    BY <2>1, FS_Interval
  <2>3. IsFiniteSet({k})
    BY FS_Singleton
  <2>4. QED
    BY <2>2, <2>3, FS_Product
<1>2. IsFiniteSet(T)
  <2>1. f \in Surjection(Keys, T)
    BY DEF Surjection
  <2>2. QED
    BY <2>1, FS_Surjection, TargetAssumption
<1>3. IsFiniteSet(UNION T)
  BY <1>1, <1>2, FS_UNION
<1>4. QED
  BY <1>3, FS_CardinalityType DEF RowCount

\* The local of the run that the last step compares with, and the run's report.
LocalsTyped == counted \in Nat /\ result \in {"none", "loaded", "skipped", "nochange", "failed"}

LEMMA LocalsStep == Typed /\ LocalsTyped /\ [Next]_appendVars => LocalsTyped'
<1> SUFFICES ASSUME Typed, LocalsTyped, [Next]_appendVars PROVE LocalsTyped'
  OBVIOUS
<1> USE DEF LocalsTyped
<1>1. result' \in {"none", "loaded", "skipped", "nochange", "failed"}
  BY DEF Next, Run, RejectLoadType, BeginRun, RebuildTarget, NothingToAppend, CountInserts,
         AppendRows, Register, FailInLoad, Staging, SourceStep, SpecsStep, FailInStaging,
         StagingStep, SourceCommit, ChangePartitionKeys, FailStaging, StagingRaises, NullPartition,
         ReadVersion, CountSource, NoNewData, Restage, SaveFull, StampFull, EnableChangeDataFeed,
         BeginMerge, MergeFull, MergeNothing, NoChangeDataFeed, SaveIncr, SaveChanges, StampMerged,
         GoTo, EndRun, appendVars, stagingVars
<1>2. CASE CountInserts
  <2>1. StagedEvents \in Events /\ TargetRows \in [Keys -> Seq(Vals)]
    BY <1>2, StagedEventsType, TargetRowsType DEF CountInserts, BeforeIncr, BeforeFull
  <2>2. Appended(TargetRows, AppendInserts(StagedEvents)) \in [Keys -> Seq(Vals)]
    BY <2>1, AppendedType
  <2>3. counted' \in Nat
    BY <1>2, <2>2, RowCountType DEF CountInserts
  <2>4. QED
    BY <1>1, <2>3
<1>3. CASE ~ CountInserts
  <2>1. counted' = counted \/ counted' = 0
    BY <1>3 DEF Next, Run, RejectLoadType, BeginRun, RebuildTarget, NothingToAppend, AppendRows,
                Register, FailInLoad, Staging, SourceStep, SpecsStep, FailInStaging, Forgotten,
                ofRun, appendVars
  <2>2. QED
    BY <1>1, <2>1
<1>4. QED
  BY <1>2, <1>3

-----------------------------------------------------------------------------
(* The target is a history.                                                *)

\* The rows of the target as HistoryTable sees them.
AsVersions(values) ==
    [i \in DOMAIN values |-> [val |-> values[i], open |-> TRUE, expired |-> FALSE]]

AsTable(t) == IF t # NoTable THEN [k \in Keys |-> AsVersions(t.rows[k])] ELSE NoTable

LEMMA FunctionIsSeq ==
  ASSUME NEW S, NEW n \in Nat, NEW f \in [1 .. n -> S]
  PROVE  f \in Seq(S)
BY SeqDef

LEMMA VersionsType ==
  ASSUME NEW s \in Seq(Vals)
  PROVE  AsVersions(s) \in Seq(History!Version)
<1>1. Len(s) \in Nat /\ DOMAIN s = 1 .. Len(s) /\ \A i \in 1 .. Len(s) : s[i] \in Vals
  BY LenProperties, ElementOfSeq
<1>2. AsVersions(s) \in [1 .. Len(s) -> History!Version]
  BY <1>1 DEF AsVersions, History!Version
<1>3. QED
  BY <1>1, <1>2, FunctionIsSeq

LEMMA VersionsAppended ==
  ASSUME NEW s \in Seq(Vals), NEW v \in Vals
  PROVE  AsVersions(s \o <<v>>) = Append(AsVersions(s), History!Fresh(v))
<1> DEFINE V == History!Version
           t == s \o <<v>>
           n == Len(s)
           left == AsVersions(t)
           right == Append(AsVersions(s), History!Fresh(v))
<1>1. n \in Nat /\ DOMAIN s = 1 .. n /\ (\A i \in 1 .. n : s[i] \in Vals)
  BY LenProperties, ElementOfSeq
<1>2. DOMAIN AsVersions(s) = 1 .. n /\ \A i \in 1 .. n : AsVersions(s)[i] = History!Fresh(s[i])
  BY <1>1 DEF AsVersions, History!Fresh
<1>3. AsVersions(s) \in Seq(V) /\ Len(AsVersions(s)) = n
  <2>1. AsVersions(s) \in Seq(V)
    BY VersionsType
  <2>2. DOMAIN AsVersions(s) = 1 .. Len(AsVersions(s)) /\ Len(AsVersions(s)) \in Nat
    BY <2>1, LenProperties
  <2>3. QED
    BY <1>1, <1>2, <2>1, <2>2
<1>4. t \in Seq(Vals) /\ Len(t) = n + 1 /\ t[n + 1] = v /\ \A i \in 1 .. n : t[i] = s[i]
  <2>1. t = Append(s, v)
    BY AppendIsConcat
  <2>2. QED
    BY <2>1, AppendProperties
<1>5. DOMAIN t = 1 .. n + 1
  BY <1>4, LenProperties
<1>6. History!Fresh(v) \in V
  BY DEF History!Fresh, History!Version
<1>7. right \in Seq(V) /\ Len(right) = n + 1 /\ right[n + 1] = History!Fresh(v)
      /\ \A i \in 1 .. n : right[i] = AsVersions(s)[i]
  BY <1>3, <1>6, AppendProperties
<1>8. DOMAIN right = 1 .. n + 1 /\ right \in [1 .. n + 1 -> V]
  BY <1>7, LenProperties
<1>9. DOMAIN left = 1 .. n + 1 /\ left = [i \in 1 .. n + 1 |-> left[i]]
  BY <1>5 DEF AsVersions
<1>10. \A i \in 1 .. n + 1 : left[i] = right[i]
  <2>1. \A i \in 1 .. n + 1 : i = n + 1 \/ i \in 1 .. n
    BY <1>1
  <2>2. \A i \in 1 .. n + 1 : left[i] = History!Fresh(t[i])
    BY <1>5 DEF AsVersions, History!Fresh
  <2> HIDE DEF t, left, right
  <2>3. QED
    BY <1>2, <1>4, <1>7, <2>1, <2>2
<1>11. left = right
  <2> HIDE DEF left, right
  <2>1. QED
    BY <1>8, <1>9, <1>10
<1>12. QED
  BY <1>3, <1>11

LEMMA NoVersions == AsVersions(<<>>) = <<>>
BY DEF AsVersions

LEMMA TableType ==
  ASSUME NEW t \in TargetTable
  PROVE  AsTable(t) # NoTable /\ DOMAIN AsTable(t) = Keys
<1>1. t # NoTable /\ \A k \in Keys : t.rows[k] \in Seq(Vals)
  BY TargetAssumption DEF TargetTable
<1>2. \A k \in Keys : AsVersions(t.rows[k]) \in Seq(History!Version)
  BY <1>1, VersionsType
<1>3. AsTable(t) \in [Keys -> Seq(History!Version)]
  BY <1>1, <1>2 DEF AsTable
<1>4. QED
  BY <1>3, TargetAssumption DEF History!Version

LEMMA HistoryInit == Init => History!Init
<1> SUFFICES ASSUME Init PROVE AsTable(target) = NoTable \/ AsTable(target) = [k \in Keys |-> <<>>]
  BY DEF History!Init, AsTable, AsVersions, Exists
<1>1. CASE target = NoTable
  BY <1>1 DEF AsTable
<1>2. CASE target # NoTable
  <2>1. target.rows = NoRows
    BY <1>2 DEF Init
  <2>2. QED
    BY <1>2, <2>1, NoVersions DEF AsTable, NoRows
<1>3. QED
  BY <1>1, <1>2

\* Every step creates the table, adds to it, loses it or leaves it alone.
LEMMA HistoryStep ==
  ASSUME Typed, [Next]_appendVars
  PROVE  [History!Next]_(AsTable(target))
<1>1. target \in TargetTable \cup {NoTable}
  BY DEF Typed, TargetType
<1>2. CASE AppendRows
  <2> DEFINE inserts == AppendInserts(StagedEvents)
  <2>1. StagedEvents \in Events /\ TargetRows \in [Keys -> Seq(Vals)]
    BY <1>2, StagedEventsType, TargetRowsType DEF AppendRows, BeforeIncr, BeforeFull
  <2>2. target' \in TargetTable
    <3>1. TargetType' /\ pc' = "register"
      BY <1>2, LoadStepType DEF LoadStep, AppendRows, GoTo
    <3>2. QED
      BY <3>1 DEF TargetType
  <2>3. target'.rows = Appended(TargetRows, inserts)
    BY <1>2 DEF AppendRows
  <2>4. ASSUME NEW k \in Keys
        PROVE  \/ target'.rows[k] = TargetRows[k]
               \/ \E v \in Vals : target'.rows[k] = TargetRows[k] \o <<v>>
    <3>1. target'.rows[k] = TargetRows[k] \o inserts[k] /\ TargetRows[k] \in Seq(Vals)
      BY <2>1, <2>3 DEF Appended
    <3>2. inserts[k] = <<>> \/ \E v \in Vals : inserts[k] = <<v>>
      BY <2>1, InsertsAppended
    <3> HIDE DEF inserts
    <3>3. QED
      BY <3>1, <3>2, NothingAdded
  <2>5. ASSUME NEW k \in Keys
        PROVE  \/ AsVersions(target'.rows[k]) = AsVersions(TargetRows[k])
               \/ \E v \in Vals :
                    AsVersions(target'.rows[k]) = Append(AsVersions(TargetRows[k]), History!Fresh(v))
    <3>1. TargetRows[k] \in Seq(Vals)
      BY <2>1
    <3>2. QED
      BY <2>4, <3>1, VersionsAppended
  <2>6. AsTable(target') # NoTable /\ DOMAIN AsTable(target') = Keys
        /\ \A k \in Keys : AsTable(target')[k] = AsVersions(target'.rows[k])
    <3>1. target' # NoTable
      BY <2>2, TargetAssumption
    <3>2. QED
      BY <2>2, <3>1, TableType DEF AsTable
  <2>7. CASE target = NoTable
    <3>1. AsTable(target) = NoTable /\ \A k \in Keys : TargetRows[k] = <<>>
      BY <2>7 DEF AsTable, TargetRows, Exists, NoRows
    <3>2. ASSUME NEW k \in Keys
          PROVE  AsTable(target')[k] = <<>> \/ \E v \in Vals : AsTable(target')[k] = <<History!Fresh(v)>>
      <4>1. \A v : Append(<<>>, v) = <<v>>
        OBVIOUS
      <4>2. QED
        BY <2>5, <2>6, <3>1, <4>1, NoVersions
    <3>3. History!Create
      BY <2>6, <3>1, <3>2 DEF History!Create, AsTable, AsVersions, Exists
    <3>4. QED
      BY <3>3 DEF History!Next
  <2>8. CASE target # NoTable
    <3>1. target \in TargetTable /\ TargetRows = target.rows
      BY <1>1, <2>8 DEF TargetRows, Exists
    <3>2. AsTable(target) # NoTable /\ \A k \in Keys : AsTable(target)[k] = AsVersions(TargetRows[k])
      BY <2>8, <3>1, TableType DEF AsTable
    <3>3. \A k \in Keys :
            \/ AsTable(target')[k] = AsTable(target)[k]
            \/ \E v \in Vals : AsTable(target')[k] = Append(AsTable(target)[k], History!Fresh(v))
      BY <2>5, <2>6, <3>2
    <3>4. History!Add
      BY <2>6, <3>2, <3>3 DEF History!Add, AsTable, AsVersions, Exists
    <3>5. QED
      BY <3>4 DEF History!Next
  <2>9. QED
    BY <2>7, <2>8
<1>3. CASE ~ AppendRows
  <2>1. \/ target' = target
        \/ target # NoTable /\ target' = NoTable
        \/ target # NoTable /\ target' = [target EXCEPT !.loadType = "APPEND_LOAD"]
        \/ target # NoTable
           /\ target' = [rows |-> target.rows, layout |-> feed.layout, loadType |-> "none"]
    BY <1>3 DEF Next, Run, Staging, SourceStep, SpecsStep, FailInStaging, RejectLoadType, BeginRun,
         RebuildTarget, NothingToAppend, CountInserts, Register, FailInLoad, TargetMismatch,
         Exists, appendVars, Typed, TargetType
  <2>2. CASE target' = target
    BY <2>2 DEF AsTable
  <2>3. CASE target # NoTable /\ target' = NoTable
    <3>1. AsTable(target) # NoTable /\ AsTable(target') = NoTable
      BY <1>1, <2>3, TableType DEF AsTable
    <3>2. History!Lose
      BY <3>1 DEF History!Lose, AsTable, AsVersions, Exists
    <3>3. QED
      BY <3>2 DEF History!Next
  <2>4. ASSUME target # NoTable,
               \/ target' = [target EXCEPT !.loadType = "APPEND_LOAD"]
               \/ target' = [rows |-> target.rows, layout |-> feed.layout, loadType |-> "none"]
        PROVE  AsTable(target') = AsTable(target)
    <3>1. target' \in TargetTable /\ target'.rows = target.rows
      BY <1>1, <2>4 DEF TargetTable, LoadTypes, Typed, StagingInv, StagingTyped, StagingTypeOK
    <3>2. QED
      BY <2>4, <3>1, TargetAssumption DEF AsTable
  <2>5. QED
    BY <2>1, <2>2, <2>3, <2>4
<1>4. QED
  BY <1>2, <1>3

-----------------------------------------------------------------------------
(* What came into t_full is in the target, or on its way there.            *)

\* Steps before t_full is written or merged, and after.
BeforeArrival == {"idle", "version", "count", "compare", "saveFull", "merge"}
AfterMerge == {"saveIncr", "saveChanges", "stampMerged", "apply", "append"}
AfterSave == {"stampFull", "enableCdf"} \cup AfterMerge

\* Which of the two ways through staging a run has taken.
Route ==
    /\ pc \in {"saveFull", "stampFull", "enableCdf"} => Live
    /\ pc \in {"merge", "stampMerged"} => ~ Live

\* What the history variables know of t_full.
KnownInv ==
    /\ Exists(full) => known = full.rows
    /\ \A k \in Keys : known[k] # Absent => arrivals[k] # <<>>
    /\ pc \in BeforeArrival => fresh = {}

ArrivalInv ==
    /\ Route /\ KnownInv
    /\ pc \in BeforeArrival \cup {"register"} /\ ~ disturbed => arrivals = TargetRows
    /\ pc \in AfterSave /\ fresh = {} /\ ~ disturbed => arrivals = TargetRows
    /\ pc \in AfterSave /\ Live =>
         /\ ~ raced => full.rows = source.rows
         /\ ~ disturbed /\ Exists(target) => target.layout # feed.layout
         /\ ~ disturbed /\ ~ Exists(target) => arrivals = AppendInserts(Inserts(full.rows))
    /\ pc \in AfterMerge /\ ~ Live /\ ~ disturbed =>
         arrivals = Appended(TargetRows, AppendInserts(job.events))
    /\ pc \in AfterMerge \ {"saveIncr"} /\ ~ Live => incr.events = job.events
    /\ pc = "append" => ~ TargetMismatch

LEMMA ArrivalInit == Init => ArrivalInv
<1> SUFFICES ASSUME Init PROVE ArrivalInv
  OBVIOUS
<1>1. \A k \in Keys : known[k] = Absent
  BY DEF Init
<1>2. TargetRows = NoRows /\ arrivals = NoRows
  BY DEF Init, TargetRows, Exists
<1> HIDE DEF NoRows
<1>3. pc = "idle" /\ full = NoTable /\ fresh = {}
  BY DEF Init, StagingInit
<1>4. QED
  BY <1>1, <1>2, <1>3 DEF ArrivalInv, Route, KnownInv, AfterMerge, AfterSave, Exists

\* A t_full with the rows that are known brings no arrivals.
LEMMA NoArrivals ==
  ASSUME Typed, Arrive, pc \in {"saveFull", "merge"} /\ Exists(full') => full'.rows = known
  PROVE  known' = known /\ arrivals' = arrivals /\ Arriving = {}
<1>1. Arriving = {}
  BY DEF Arriving
<1>2. arrivals' = [k \in Keys |-> arrivals[k]]
  BY <1>1 DEF Arrive
<1>3. QED
  BY <1>1, <1>2 DEF Arrive, Typed, TargetType

\* The inserts of a MERGE are the keys that come into t_full by it.
LEMMA MergeArrivals ==
  ASSUME NEW a \in [Keys -> Seq(Vals)], NEW before \in Rows, NEW after \in Rows
  PROVE  [k \in Keys |-> IF before[k] = Absent /\ after[k] # Absent
                         THEN Append(a[k], after[k]) ELSE a[k]]
           = Appended(a, AppendInserts(RowEvents(before, after)))
<1> DEFINE E == RowEvents(before, after)
           left == [k \in Keys |-> IF before[k] = Absent /\ after[k] # Absent
                                   THEN Append(a[k], after[k]) ELSE a[k]]
<1>1. ASSUME NEW k \in Keys PROVE left[k] = a[k] \o AppendInserts(E)[k]
  <2>1. a[k] \in Seq(Vals)
    OBVIOUS
  <2>2. CASE before[k] = Absent /\ after[k] # Absent
    <3>1. E[k] = [op |-> "insert", val |-> after[k]] /\ after[k] \in Vals
      BY <2>2 DEF RowEvents, Rows
    <3> HIDE DEF E
    <3>2. AppendInserts(E)[k] = <<after[k]>>
      BY <3>1 DEF AppendInserts
    <3>3. QED
      BY <2>1, <2>2, <3>1, <3>2, AppendIsConcat
  <2>3. CASE ~ (before[k] = Absent /\ after[k] # Absent)
    <3>1. \/ E[k] = NoEvent
          \/ E[k] = [op |-> "delete", val |-> before[k]]
          \/ E[k] = [op |-> "update", val |-> after[k]]
      <4>1. CASE before[k] = after[k]
        BY <4>1 DEF RowEvents
      <4>2. CASE before[k] # after[k] /\ before[k] # Absent /\ after[k] = Absent
        BY <4>2 DEF RowEvents
      <4>3. CASE before[k] # after[k] /\ before[k] # Absent /\ after[k] # Absent
        BY <4>3 DEF RowEvents
      <4>4. QED
        BY <2>3, <4>1, <4>2, <4>3
    <3> HIDE DEF E
    <3>2. E[k].op # "insert"
      BY <3>1 DEF NoEvent
    <3>3. AppendInserts(E)[k] = <<>>
      BY <3>2 DEF AppendInserts
    <3>4. QED
      BY <2>1, <2>3, <3>3, NothingAdded
  <2>4. QED
    BY <2>2, <2>3
<1>2. left = Appended(a, AppendInserts(E))
  <2> HIDE DEF E
  <2>1. QED
    BY <1>1 DEF Appended
<1>3. QED
  BY <1>2

\* On a first load without a target everything comes in at once.
LEMMA FirstArrivals ==
  ASSUME NEW rows \in Rows
  PROVE  [k \in Keys |-> IF rows[k] # Absent THEN Append(<<>>, rows[k]) ELSE <<>>]
           = AppendInserts(Inserts(rows))
<1>1. \A v : Append(<<>>, v) = <<v>>
  OBVIOUS
<1>2. ASSUME NEW k \in Keys
      PROVE  AppendInserts(Inserts(rows))[k] = IF rows[k] # Absent THEN <<rows[k]>> ELSE <<>>
  BY DEF AppendInserts, Inserts, NoEvent
<1>3. QED
  BY <1>1, <1>2 DEF AppendInserts

LEMMA ArrivalStaging ==
  ASSUME Typed, ArrivalInv, Staging
  PROVE  ArrivalInv'
<1> USE DEF ArrivalInv, Route, KnownInv, BeforeArrival, AfterMerge, AfterSave, Live
<1>1. UNCHANGED <<source, feed, target>> /\ TargetRows' = TargetRows /\ Arrive
      /\ fresh' = (IF pc' = "idle" THEN {} ELSE fresh \cup Arriving)
      /\ disturbed' = (disturbed \/ Overlaid \/ (pc = "saveIncr" /\ ~ full.cdf))
      /\ raced' = (raced /\ pc \notin {"compare", "saveFull"} /\ pc' # "idle")
  BY DEF Staging, StagingStep, ReadVersion, CountSource, NoNewData, Restage, SaveFull, StampFull,
         EnableChangeDataFeed, BeginMerge, MergeFull, MergeNothing, NoChangeDataFeed, SaveIncr,
         SaveChanges, StampMerged, environment, TargetRows, Exists
<1>2. /\ full \in FullTable \cup {NoTable} /\ (pc \notin BeforeFull => full \in FullTable /\ Exists(full))
      /\ source.rows \in Rows /\ job \in [ver : Nat, live : BOOLEAN, events : Events]
      /\ target \in TargetTable \cup {NoTable} /\ TargetRows \in [Keys -> Seq(Vals)]
      /\ arrivals \in [Keys -> Seq(Vals)] /\ known \in Rows /\ fresh \subseteq Keys
      /\ disturbed \in BOOLEAN /\ raced \in BOOLEAN
  BY TargetRowsType DEF Typed, StagingInv, StagingTyped, StagingTypeOK, TargetType, Exists
<1>3. (pc # "saveFull" => ~ Overlaid) /\ disturbed' \in BOOLEAN /\ (disturbed => disturbed')
  BY <1>1, <1>2 DEF Overlaid
<1>4. (pc \in {"saveFull", "merge"} /\ Exists(full') => full'.rows = known) =>
        /\ known' = known /\ arrivals' = arrivals
        /\ fresh' = (IF pc' = "idle" THEN {} ELSE fresh)
  BY <1>1, NoArrivals
<1> HIDE DEF TargetRows, Overlaid
<1>5. CASE ReadVersion \/ CountSource \/ NoNewData \/ MergeNothing
  <2>1. UNCHANGED <<full, incr>> /\ pc \in BeforeArrival /\ pc' \in {"count", "compare", "idle"}
        /\ pc # "saveFull"
    BY <1>5 DEF ReadVersion, CountSource, NoNewData, MergeNothing, GoTo, EndRun, stagingTables
  <2>2. known' = known /\ arrivals' = arrivals /\ fresh' = {}
    BY <1>4, <2>1
  <2>3. QED
    BY <1>1, <1>3, <2>1, <2>2 DEF Exists
<1>6. CASE Restage
  <2>1. (full' = full \/ full' = NoTable) /\ pc = "compare" /\ pc' = "saveFull" /\ job'.live
    BY <1>2, <1>6 DEF Restage, GoTo, stagingTables
  <2>2. known' = known /\ arrivals' = arrivals /\ fresh' = {}
    BY <1>4, <2>1
  <2>3. QED
    BY <1>1, <1>3, <2>1, <2>2 DEF Exists
<1>7. CASE SaveFull
  <2>1. pc = "saveFull" /\ pc' = "stampFull" /\ job' = job /\ full'.rows = source.rows
        /\ Exists(full') /\ Live
    <3>1. full' \in FullTable
      BY <1>2, <1>7 DEF SaveFull, FullTable, Typed, StagingInv, StagingTyped, StagingTypeOK
    <3>2. QED
      BY <1>7, <3>1, NoTableIsNew DEF SaveFull, GoTo, Exists
  <2>2. Arriving = {k \in Keys : known[k] = Absent /\ source.rows[k] # Absent}
    BY <2>1 DEF Arriving
  <2>3. /\ known' = source.rows
        /\ arrivals' = [k \in Keys |-> IF known[k] = Absent /\ source.rows[k] # Absent
                                       THEN Append(arrivals[k], source.rows[k]) ELSE arrivals[k]]
    BY <1>1, <2>1, <2>2 DEF Arrive
  <2>4. fresh' = Arriving
    BY <1>1, <2>1
  <2>5. KnownInv'
    <3>1. ASSUME NEW k \in Keys, known'[k] # Absent PROVE arrivals'[k] # <<>>
      <4>1. CASE known[k] = Absent
        <5>1. arrivals'[k] = Append(arrivals[k], source.rows[k])
              /\ arrivals[k] \in Seq(Vals) /\ source.rows[k] \in Vals
          BY <1>2, <2>3, <3>1, <4>1 DEF Rows
        <5>2. QED
          BY <5>1, AppendProperties
      <4>2. CASE known[k] # Absent
        BY <2>3, <4>2
      <4>3. QED
        BY <4>1, <4>2
    <3>2. QED
      BY <2>1, <2>3, <3>1
  <2>6. ~ disturbed' => arrivals = TargetRows /\ (Exists(target) => target.layout # feed.layout)
    BY <1>1, <2>1 DEF Overlaid, TargetMismatch
  <2>7. ~ disturbed' /\ fresh' = {} => arrivals' = TargetRows
    <3>1. fresh' = {} => arrivals' = [k \in Keys |-> arrivals[k]]
      BY <2>2, <2>3, <2>4
    <3>2. QED
      BY <1>2, <2>6, <3>1
  <2>8. ~ disturbed' /\ ~ Exists(target) => arrivals' = AppendInserts(Inserts(source.rows))
    <3> SUFFICES ASSUME ~ disturbed', ~ Exists(target)
                 PROVE  arrivals' = AppendInserts(Inserts(source.rows))
      OBVIOUS
    <3>1. \A k \in Keys : arrivals[k] = <<>>
      BY <2>6 DEF TargetRows, NoRows
    <3>2. \A k \in Keys : known[k] = Absent
      BY <3>1
    <3>3. arrivals' = [k \in Keys |-> IF source.rows[k] # Absent
                                     THEN Append(<<>>, source.rows[k]) ELSE <<>>]
      BY <2>3, <3>1, <3>2
    <3>4. QED
      BY <1>2, <3>3, FirstArrivals
  <2>9. QED
    BY <1>1, <2>1, <2>5, <2>6, <2>7, <2>8 DEF Exists
<1>8. CASE StampFull \/ EnableChangeDataFeed
  <2>1. /\ full \in FullTable /\ Exists(full) /\ job' = job /\ pc \in {"stampFull", "enableCdf"}
        /\ pc' \in {"enableCdf", "saveIncr"} /\ full'.rows = full.rows
    BY <1>2, <1>8 DEF StampFull, EnableChangeDataFeed, GoTo, BeforeFull, FullTable
  <2>2. known' = known /\ arrivals' = arrivals /\ fresh' = fresh
    BY <1>4, <2>1
  <2>3. QED
    BY <1>1, <1>3, <2>1, <2>2 DEF Exists
<1>9. CASE BeginMerge
  <2>1. full' = full /\ pc = "compare" /\ pc' = "merge" /\ ~ job'.live
    BY <1>2, <1>9 DEF BeginMerge, GoTo, stagingTables
  <2>2. known' = known /\ arrivals' = arrivals /\ fresh' = {}
    BY <1>4, <2>1
  <2>3. QED
    BY <1>1, <1>3, <2>1, <2>2 DEF Exists
<1>10. CASE MergeFull
  <2> DEFINE rows == MergeRows(full.rows, source.rows)
  <2>1. pc = "merge" /\ pc' = "saveIncr" /\ full \in FullTable /\ full.rows \in Rows /\ Exists(full)
    BY <1>2, <1>10 DEF MergeFull, GoTo, BeforeFull, FullTable
  <2>2. rows \in Rows
    BY <1>2, <2>1, MergeType
  <2>3. full'.rows = rows /\ job'.live = job.live /\ job'.events = RowEvents(full.rows, rows)
    BY <1>2, <1>10, <2>1 DEF MergeFull, FullTable
  <2>4. Exists(full') /\ known = full.rows /\ ~ Live
    <3>1. full' \in FullTable
      BY <1>10, <2>1, <2>2 DEF MergeFull, FullTable
    <3>2. QED
      BY <2>1, <3>1, NoTableIsNew DEF Exists
  <2> HIDE DEF rows
  <2>5. Arriving = {k \in Keys : full.rows[k] = Absent /\ rows[k] # Absent}
    BY <2>1, <2>3, <2>4 DEF Arriving
  <2>6. /\ known' = rows
        /\ arrivals' = [k \in Keys |-> IF full.rows[k] = Absent /\ rows[k] # Absent
                                       THEN Append(arrivals[k], rows[k]) ELSE arrivals[k]]
    BY <1>1, <2>1, <2>3, <2>4, <2>5 DEF Arrive
  <2>7. arrivals' = Appended(arrivals, AppendInserts(job'.events))
    <3>1. arrivals' = Appended(arrivals, AppendInserts(RowEvents(full.rows, rows)))
      BY <1>2, <2>1, <2>2, <2>6, MergeArrivals
    <3>2. QED
      BY <2>3, <3>1
  <2>8. KnownInv'
    <3>1. ASSUME NEW k \in Keys, known'[k] # Absent PROVE arrivals'[k] # <<>>
      <4>1. CASE full.rows[k] = Absent
        <5>1. arrivals'[k] = Append(arrivals[k], rows[k])
              /\ arrivals[k] \in Seq(Vals) /\ rows[k] \in Vals
          BY <1>2, <2>2, <2>6, <3>1, <4>1 DEF Rows
        <5>2. QED
          BY <5>1, AppendProperties
      <4>2. CASE full.rows[k] # Absent
        BY <2>4, <2>6, <4>2
      <4>3. QED
        BY <4>1, <4>2
    <3>2. QED
      BY <2>1, <2>3, <2>6, <3>1
  <2>9. ~ disturbed' => arrivals = TargetRows
    BY <1>3, <2>1
  <2>10. fresh' = {} => arrivals' = arrivals
    <3>1. fresh' = Arriving
      BY <1>1, <2>1
    <3>2. fresh' = {} => arrivals' = [k \in Keys |-> arrivals[k]]
      BY <2>5, <2>6, <3>1
    <3>3. QED
      BY <1>2, <3>2
  <2>11. ~ job'.live
    BY <2>3, <2>4
  <2>12. QED
    BY <1>1, <2>1, <2>7, <2>8, <2>9, <2>10, <2>11
<1>11. CASE NoChangeDataFeed
  <2>1. pc = "saveIncr" /\ pc' = "idle" /\ disturbed' /\ full' = full
    BY <1>1, <1>2, <1>11 DEF NoChangeDataFeed, EndRun, stagingTables
  <2>2. known' = known /\ arrivals' = arrivals /\ fresh' = {}
    BY <1>4, <2>1
  <2>3. QED
    BY <2>1, <2>2 DEF Exists
<1>12. CASE SaveIncr
  <2>1. full' = full /\ job' = job /\ pc = "saveIncr" /\ pc' = "saveChanges"
        /\ (~ job.live => incr'.events = job.events)
    BY <1>12 DEF SaveIncr, GoTo
  <2>2. known' = known /\ arrivals' = arrivals /\ fresh' = fresh
    BY <1>4, <2>1
  <2>3. QED
    BY <1>1, <1>3, <2>1, <2>2 DEF Exists
<1>13. CASE SaveChanges
  <2>1. full' = full /\ job' = job /\ incr' = incr /\ pc = "saveChanges"
        /\ pc' = (IF job.live THEN "apply" ELSE "stampMerged")
    BY <1>13 DEF SaveChanges, GoTo
  <2>2. known' = known /\ arrivals' = arrivals /\ fresh' = fresh
    BY <1>4, <2>1
  <2>3. QED
    BY <1>1, <1>2, <1>3, <2>1, <2>2 DEF Exists
<1>14. CASE StampMerged
  <2>1. /\ full \in FullTable /\ Exists(full) /\ job' = job /\ incr' = incr
        /\ pc = "stampMerged" /\ pc' = "apply" /\ full'.rows = full.rows
    BY <1>2, <1>14 DEF StampMerged, GoTo, BeforeFull, FullTable
  <2>2. known' = known /\ arrivals' = arrivals /\ fresh' = fresh
    BY <1>4, <2>1
  <2>3. QED
    BY <1>1, <1>3, <2>1, <2>2 DEF Exists
<1>15. QED
  BY <1>5, <1>6, <1>7, <1>8, <1>9, <1>10, <1>11, <1>12, <1>13, <1>14 DEF Staging, StagingStep

LEMMA ArrivalOutside ==
  ASSUME Typed, ArrivalInv, SourceStep \/ SpecsStep \/ FailInStaging
  PROVE  ArrivalInv'
<1> USE DEF ArrivalInv, Route, KnownInv, BeforeArrival, AfterMerge, AfterSave, Live
<1>1. target' = target /\ TargetRows' = TargetRows /\ job' = job
  BY DEF SourceStep, SpecsStep, FailInStaging, SourceCommit, ChangePartitionKeys, FailStaging,
         StagingRaises, NullPartition, stagingTables, TargetRows, Exists
<1>2. disturbed \in BOOLEAN /\ raced \in BOOLEAN
  BY DEF Typed, TargetType
<1> HIDE DEF TargetRows
<1>3. CASE SourceStep
  <2>1. UNCHANGED <<feed, full, incr, pc, arrivals, known, fresh, disturbed>>
        /\ raced' = (raced \/ (pc # "idle" /\ job.live /\ source'.rows # source.rows))
    BY <1>3 DEF SourceStep, SourceCommit, stagingTables
  <2>2. TargetMismatch' = TargetMismatch
    BY <1>1, <2>1 DEF TargetMismatch, Exists
  <2>3. QED
    BY <1>1, <1>2, <2>1, <2>2 DEF Exists
<1>4. CASE SpecsStep
  <2>1. pc = "idle" /\ UNCHANGED <<full, pc, arrivals, known, fresh, disturbed>>
    BY <1>4 DEF SpecsStep, ChangePartitionKeys, stagingTables, ofRun
  <2>2. QED
    BY <1>1, <2>1 DEF Exists
<1>5. CASE FailInStaging
  <2>1. /\ pc' = "idle" /\ fresh' = {} /\ Arrive /\ (full' = full \/ full' = NoTable)
        /\ disturbed' = (disturbed \/ pc \notin {"version", "count", "compare", "saveFull", "merge"})
    BY <1>5 DEF FailInStaging, FailStaging, StagingRaises, NullPartition, EndRun,
       stagingTables, Forgotten
  <2>2. known' = known /\ arrivals' = arrivals
    BY <2>1, NoArrivals DEF Exists
  <2>3. QED
    BY <1>1, <1>2, <2>1, <2>2 DEF Exists
<1>6. QED
  BY <1>3, <1>4, <1>5

\* An append to an empty target is all the target has.
LEMMA AppendedFirst ==
  ASSUME NEW events \in Events
  PROVE  Appended(NoRows, AppendInserts(events)) = AppendInserts(events)
<1>1. ASSUME NEW k \in Keys PROVE NoRows[k] \o AppendInserts(events)[k] = AppendInserts(events)[k]
  <2>1. AppendInserts(events)[k] \in Seq(Vals) /\ NoRows[k] = <<>>
    BY InsertsAppended DEF NoRows
  <2> HIDE DEF AppendInserts
  <2>2. QED
    BY <2>1, NothingAdded
<1>2. AppendInserts(events) = [k \in Keys |-> AppendInserts(events)[k]]
  BY DEF AppendInserts
<1>3. QED
  BY <1>1, <1>2 DEF Appended

\* What is about to be appended is what the target lacks of the arrivals.
LEMMA MissingArrivals ==
  ASSUME Typed, ArrivalInv, pc \in {"apply", "append"}, ~ TargetMismatch, ~ disturbed, ~ raced
  PROVE  arrivals = Appended(TargetRows, AppendInserts(StagedEvents))
<1> USE DEF ArrivalInv, AfterMerge, AfterSave
<1>1. CASE Live
  <2>1. full.rows = source.rows /\ ~ Exists(target)
        /\ arrivals = AppendInserts(Inserts(full.rows))
    BY <1>1 DEF TargetMismatch
  <2>2. TargetRows = NoRows /\ StagedEvents = Inserts(source.rows)
    BY <1>1, <2>1 DEF TargetRows, StagedEvents
  <2>3. Inserts(source.rows) \in Events
    BY InsertsType DEF Typed, StagingInv, StagingTyped, StagingTypeOK
  <2>4. QED
    BY <2>1, <2>2, <2>3, AppendedFirst
<1>2. CASE ~ Live
  <2>1. arrivals = Appended(TargetRows, AppendInserts(job.events)) /\ incr.events = job.events
    BY <1>2
  <2>2. QED
    BY <1>2, <2>1 DEF StagedEvents
<1>3. QED
  BY <1>1, <1>2

LEMMA ArrivalLoad ==
  ASSUME Typed, ArrivalInv, LoadStep
  PROVE  ArrivalInv'
<1> USE DEF ArrivalInv, Route, KnownInv, BeforeArrival, AfterMerge, AfterSave, Live
<1>1. UNCHANGED <<source, feed, full, incr, changes, job, arrivals, known>>
  BY LoadStepKept
<1>2. /\ target \in TargetTable \cup {NoTable} /\ TargetRows \in [Keys -> Seq(Vals)]
      /\ disturbed \in BOOLEAN /\ raced \in BOOLEAN /\ NoTable \notin TargetTable
  BY TargetRowsType, TargetAssumption DEF Typed, TargetType
<1>3. TargetType'
  BY LoadStepType
<1>4. CASE RejectLoadType \/ BeginRun \/ Register
  <2>1. TargetRows' = TargetRows
    <3>1. \/ target' = target
          \/ /\ target \in TargetTable
             /\ target' = [target EXCEPT !.loadType = "APPEND_LOAD"]
      BY <1>2, <1>4 DEF RejectLoadType, BeginRun, Register, Exists, TargetType, Typed
    <3>2. CASE target' = target
      BY <3>2 DEF TargetRows, Exists
    <3>3. CASE target \in TargetTable /\ target' = [target EXCEPT !.loadType = "APPEND_LOAD"]
      <4>1. target' \in TargetTable /\ target'.rows = target.rows
        BY <3>3 DEF TargetTable, LoadTypes
      <4>2. QED
        BY <1>2, <3>3, <4>1 DEF TargetRows, Exists
    <3>4. QED
      BY <3>1, <3>2, <3>3
  <2>2. pc \in {"idle", "register"} /\ pc' \in {"idle", "version"} /\ disturbed' = disturbed
        /\ (fresh' = fresh \/ fresh' = {}) /\ (pc = "idle" \/ fresh' = {})
    BY <1>4 DEF RejectLoadType, BeginRun, Register, GoTo, EndRun, ofRun, Forgotten
  <2> HIDE DEF TargetRows
  <2>3. QED
    BY <1>1, <2>1, <2>2 DEF Exists
<1>5. CASE RebuildTarget
  <2>1. /\ pc = "apply" /\ pc' = "idle" /\ fresh' = {} /\ Exists(target)
        /\ target'.rows = target.rows /\ disturbed' = (disturbed \/ fresh # {})
        /\ target' \in TargetTable
    <3>1. target' = [rows |-> target.rows, layout |-> feed.layout, loadType |-> "none"]
          /\ target \in TargetTable /\ feed.layout \in Layouts
      BY <1>2, <1>5 DEF RebuildTarget, TargetMismatch, Exists, Typed, StagingInv, StagingTyped,
                        StagingTypeOK
    <3>2. target' \in TargetTable
      BY <3>1 DEF TargetTable, LoadTypes
    <3>3. QED
      BY <1>5, <3>1, <3>2 DEF RebuildTarget, TargetMismatch, EndRun, Forgotten
  <2>2. TargetRows' = TargetRows
    BY <1>2, <2>1 DEF TargetRows, Exists
  <2> HIDE DEF TargetRows
  <2>3. QED
    BY <1>1, <1>2, <2>1, <2>2 DEF Exists
<1>6. CASE NothingToAppend
  <2>1. /\ pc = "apply" /\ pc' = "idle" /\ fresh' = {} /\ target' = target /\ ~ TargetMismatch
        /\ disturbed' = (disturbed \/ raced) /\ AppendInserts(StagedEvents) = NoRows
    BY <1>6 DEF NothingToAppend, EndRun, Forgotten
  <2>2. ~ disturbed' => arrivals = TargetRows
    BY <1>2, <2>1, MissingArrivals, AppendedNothing
  <2>3. TargetRows' = TargetRows
    BY <2>1 DEF TargetRows, Exists
  <2> HIDE DEF TargetRows
  <2>4. QED
    BY <1>1, <2>1, <2>2, <2>3 DEF Exists
<1>7. CASE CountInserts
  <2>1. pc = "apply" /\ pc' = "append" /\ ~ TargetMismatch
        /\ UNCHANGED <<target, fresh, raced, disturbed>>
    BY <1>7 DEF CountInserts, GoTo
  <2>2. TargetRows' = TargetRows /\ ~ TargetMismatch'
    BY <1>1, <2>1 DEF TargetRows, TargetMismatch, Exists
  <2> HIDE DEF TargetRows, TargetMismatch
  <2>3. QED
    BY <1>1, <2>1, <2>2 DEF Exists
<1>8. CASE AppendRows
  <2>1. /\ pc = "append" /\ pc' = "register" /\ disturbed' = (disturbed \/ raced)
        /\ target'.rows = Appended(TargetRows, AppendInserts(StagedEvents))
        /\ target' # NoTable
    <3>1. pc' = "register"
      BY <1>8 DEF AppendRows, GoTo
    <3>2. QED
      BY <1>3, <1>8, <3>1 DEF AppendRows, TargetType
  <2>2. TargetRows' = Appended(TargetRows, AppendInserts(StagedEvents))
    BY <2>1 DEF TargetRows, Exists
  <2>3. ~ disturbed' => arrivals = TargetRows'
    BY <1>2, <2>1, <2>2, MissingArrivals
  <2> HIDE DEF TargetRows
  <2>4. QED
    BY <1>1, <2>1, <2>3 DEF Exists
<1>9. CASE FailInLoad
  <2>1. /\ pc \in {"apply", "append", "register"} /\ pc' = "idle" /\ fresh' = {}
        /\ disturbed' = (disturbed \/ pc # "register")
        /\ (pc = "register" => target' = target)
    BY <1>9 DEF FailInLoad, EndRun, Forgotten
  <2>2. pc = "register" => TargetRows' = TargetRows
    BY <2>1 DEF TargetRows, Exists
  <2> HIDE DEF TargetRows
  <2>3. QED
    BY <1>1, <1>2, <2>1, <2>2 DEF Exists
<1>10. QED
  BY <1>4, <1>5, <1>6, <1>7, <1>8, <1>9 DEF LoadStep

-----------------------------------------------------------------------------

IInv == Typed /\ ArrivalInv

LEMMA Inductive == Spec => []IInv
<1>1. Init => IInv
  BY TypedInit, ArrivalInit DEF IInv
<1>2. IInv /\ [Next]_appendVars => IInv'
  <2> SUFFICES ASSUME IInv, [Next]_appendVars PROVE IInv'
    OBVIOUS
  <2>1. Typed'
    BY TypedStep DEF IInv
  <2>2. ArrivalInv'
    <3>1. CASE Staging
      BY <3>1, ArrivalStaging DEF IInv
    <3>2. CASE SourceStep \/ SpecsStep \/ FailInStaging
      BY <3>2, ArrivalOutside DEF IInv
    <3>3. CASE LoadStep
      BY <3>3, ArrivalLoad DEF IInv
    <3>4. CASE UNCHANGED appendVars
      BY <3>4 DEF IInv, appendVars, ofRun, stagingVars, environment, stagingTables, ArrivalInv,
         Route, KnownInv, TargetRows, TargetMismatch, Exists, Live
    <3>5. QED
      BY <3>1, <3>2, <3>3, <3>4 DEF Next, Run, LoadStep
  <2>3. QED
    BY <2>1, <2>2 DEF IInv
<1>3. QED
  BY <1>1, <1>2, PTL DEF Spec

\* Every variable of an APPEND_LOAD feed has its type.
THEOREM TypeCorrect == Spec => []TypeOK
<1>1. Init => LocalsTyped
  BY DEF Init, StagingInit, LocalsTyped
<1>2. IInv /\ LocalsTyped /\ [Next]_appendVars => LocalsTyped'
  BY LocalsStep DEF IInv
<1>3. IInv /\ LocalsTyped => TypeOK
  BY DEF IInv, Typed, StagingInv, StagingTyped, TargetType, LocalsTyped, TypeOK
<1>4. QED
  BY <1>1, <1>2, <1>3, Inductive, PTL DEF Spec

\* "No new data" is true whenever an APPEND_LOAD feed concludes it, for every
\* interleaving of commits to the source with the steps of a run.
THEOREM SkipSound == Spec => []SkipIsSound
<1>1. IInv => SkipIsSound
  BY StampsAreSound DEF IInv, Typed
<1>2. QED
  BY <1>1, Inductive, PTL

\* Between runs the target is exactly what came into t_full, in order, unless
\* rows were lost or repeated.
THEOREM AppendsOnce == Spec => []AppendedOnce
<1>1. IInv => AppendedOnce
  BY DEF IInv, ArrivalInv, BeforeArrival, AppendedOnce
<1>2. QED
  BY <1>1, Inductive, PTL

\* An APPEND_LOAD target is an append-only history of its keys.
THEOREM Implements == Spec => ImplementsHistory
<1>1. (IF ~ Exists(target) THEN NoTable
       ELSE [k \in Keys |-> [i \in DOMAIN target.rows[k] |->
               [val |-> target.rows[k][i], open |-> TRUE, expired |-> FALSE]]])
        = AsTable(target)
  BY DEF AsTable, AsVersions, Exists
<1>2. (IF ~ Exists(target) THEN NoTable
       ELSE [k \in Keys |-> [i \in DOMAIN target.rows[k] |->
               [val |-> target.rows[k][i], open |-> TRUE, expired |-> FALSE]]])'
        = AsTable(target)'
  BY DEF AsTable, AsVersions, Exists
<1>3. IInv /\ [Next]_appendVars =>
        [History!Next]_(IF ~ Exists(target) THEN NoTable
               ELSE [k \in Keys |-> [i \in DOMAIN target.rows[k] |->
                       [val |-> target.rows[k][i], open |-> TRUE, expired |-> FALSE]]])
  <2> SUFFICES ASSUME IInv, [Next]_appendVars, AsTable(target)' # AsTable(target)
               PROVE  History!Next
    BY <1>1, <1>2
  <2>1. QED
    BY HistoryStep DEF IInv
<1>4. QED
  BY <1>3, HistoryInit, Inductive, PTL DEF Spec, ImplementsHistory, History!Spec

=============================================================================
