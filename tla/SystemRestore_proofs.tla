------------------------- MODULE SystemRestore_proofs -------------------------
(***************************************************************************)
(* Proofs about SystemRestore: the safety properties its run checks hold   *)
(* for any tables, sessions, retentions and bounds.                        *)
(***************************************************************************)
EXTENDS SystemRestore, SequenceTheorems, WellFoundedInduction, TLAPS

V == [content : Nat, until : Nat]
Types == {e[2] : e \in Entries}

Cuts == {"no", "process", "validation", "audit"}
Point == [step : {"idle", "capture"}, id : Nat, expected : SUBSET Tables, hours : Nat,
          todo : SUBSET Entries, rows : SUBSET CapturedRow]
RestoreRequest ==
    [step : {"idle", "validate", "restore"},
     status : {"NONE", "REQUESTED", "IN_PROGRESS", "COMPLETED", "FAILED"},
     expected : SUBSET Tables, rows : SUBSET Row, todo : SUBSET Row,
     done : [Tables -> Restored \cup {NoContent}], cut : Cuts]

Typed ==
    /\ now \in Nat /\ hours \in HoursValues /\ lowest \in HoursValues /\ lowest <= hours
    /\ table \in [Tables -> Histories \cup {NoTable}]
    /\ \A t \in Tables : Exists(t) => table[t].log # <<>>
    /\ written \in [Tables -> Nat]
    /\ points \subseteq Row
    /\ session \in [Sessions -> Point]
    /\ request \in RestoreRequest /\ request.todo \subseteq request.rows
    /\ calls \in [points : Nat, requests : Nat]

\* The steps of the surroundings, of a session, and of the restore.
Around ==
    \/ Tick \/ Configure
    \/ \E t \in Tables : Write(t) \/ Drop(t) \/ Create(t) \/ Vacuum(t)
SessionStep(s) ==
    \/ \E specs \in MasterSpecs : BeginCreate(s, specs)
    \/ Incomplete(s) \/ CreateRaises(s) \/ Save(s)
    \/ \E e \in Entries : Capture(s, e) \/ PassOver(s, e)
RequestStep ==
    \/ \E id \in 1 .. LastNumber + 1, specs \in MasterSpecs : Request(id, specs)
    \/ RestoreStep \/ Crash

-----------------------------------------------------------------------------
(* The history of a table.                                                 *)

\* A commit adds a version, and says when the one before it was replaced.
LEMMA CommittedLog ==
  ASSUME NEW log \in Seq(V), log # <<>>, NEW c \in Nat, now \in Nat
  PROVE  /\ Committed(log, c) \in Seq(V) /\ Committed(log, c) # <<>>
         /\ Len(Committed(log, c)) = Len(log) + 1
         /\ \A i \in 1 .. Len(log) :
              /\ Committed(log, c)[i].content = log[i].content
              /\ i # Len(log) => Committed(log, c)[i].until = log[i].until
              /\ i = Len(log) => Committed(log, c)[i].until = now
         /\ Current(Committed(log, c)) = c
<1> DEFINE n == Len(log)
           entry == [log[n] EXCEPT !.until = now]
           closed == [log EXCEPT ![n] = entry]
           new == [content |-> c, until |-> now]
<1>1. n \in Nat \ {0} /\ n \in 1 .. n /\ \A i \in 1 .. n : log[i] \in V
  <2>1. n \in Nat /\ n # 0
    BY LenProperties, EmptySeq
  <2>2. QED
    BY <2>1, ElementOfSeq
<1>2. entry \in V /\ entry.content = log[n].content /\ entry.until = now /\ new \in V
  BY <1>1 DEF V
<1>3. /\ closed \in Seq(V) /\ Len(closed) = n
      /\ \A j \in 1 .. n : closed[j] = IF j = n THEN entry ELSE log[j]
  <2> HIDE DEF entry
  <2>1. QED
    BY <1>1, <1>2, ExceptSeq
<1>4. Committed(log, c) = Append(closed, new)
  BY DEF Committed
<1>5. /\ Append(closed, new) \in Seq(V) /\ Append(closed, new) # <<>>
      /\ Len(Append(closed, new)) = n + 1
      /\ \A i \in 1 .. n : Append(closed, new)[i] = closed[i]
      /\ Append(closed, new)[n + 1] = new
  <2> HIDE DEF closed, new
  <2>1. QED
    BY <1>2, <1>3, AppendProperties
<1>6. QED
  <2> HIDE DEF closed, entry
  <2>1. Current(Committed(log, c)) = c
    BY <1>4, <1>5 DEF Current
  <2>2. QED
    BY <1>2, <1>3, <1>4, <1>5, <2>1

LEMMA LogType ==
  ASSUME Typed, NEW t \in Tables, Exists(t)
  PROVE  /\ table[t] \in Histories /\ table[t].log \in Seq(V) /\ table[t].log # <<>>
         /\ table[t].gone \subseteq Nat
         /\ Len(table[t].log) \in Nat \ {0}
         /\ \A i \in 1 .. Len(table[t].log) : table[t].log[i] \in V
         /\ Current(table[t].log) \in Nat /\ Life(t) \in Nat
         /\ CurrentVersion(t) \in Nat /\ CurrentVersion(t) + 1 = Len(table[t].log)
<1>1. table[t] \in Histories /\ table[t].log \in Seq(V) /\ table[t].log # <<>>
      /\ table[t].gone \subseteq Nat
  BY DEF Typed, Exists, Histories, V
<1>2. Len(table[t].log) \in Nat \ {0} /\ \A i \in 1 .. Len(table[t].log) : table[t].log[i] \in V
  <2>1. Len(table[t].log) \in Nat /\ Len(table[t].log) # 0
    BY <1>1, LenProperties, EmptySeq
  <2>2. QED
    BY <1>1, <2>1, ElementOfSeq
<1>3. QED
  BY <1>1, <1>2 DEF Current, Life, CurrentVersion, V

LEMMA FirstLog ==
  ASSUME NEW e \in V
  PROVE  /\ <<e>> \in Seq(V) /\ <<e>> # <<>> /\ Len(<<e>>) = 1 /\ <<e>>[1] = e
OBVIOUS

\* A set of restore points has a greatest number.
LEMMA GreatestNumber ==
  ASSUME NEW numbers \in SUBSET (1 .. LastNumber), numbers # {}
  PROVE  \E n \in numbers : \A m \in numbers : m <= n
<1> DEFINE T == {LastNumber - n : n \in numbers}
<1>1. \A n \in numbers : n \in Nat /\ LastNumber - n \in Nat /\ LastNumber \in Nat
  <2>1. \A n \in 1 .. LastNumber : n \in Nat /\ LastNumber - n \in Nat
    BY RestoreAssumption
  <2>2. QED
    BY <2>1, RestoreAssumption
<1>2. T \subseteq Nat /\ T # {}
  BY <1>1
<1>3. PICK x \in T : \A y \in T : ~ <<y, x>> \in OpToRel(<, Nat)
  <2> HIDE DEF T
  <2>1. QED
    BY <1>2, WFMin, NatLessThanWellFounded
<1>4. PICK n \in numbers : x = LastNumber - n
  BY <1>3
<1>5. \A y \in T : ~ (y < x)
  BY <1>2, <1>3 DEF OpToRel
<1>6. \A m \in numbers : ~ (LastNumber - m < LastNumber - n)
  BY <1>4, <1>5
<1>7. ASSUME NEW m \in numbers PROVE m <= n
  BY <1>1, <1>6
<1>8. QED
  BY <1>7

LEMMA NextNumberType == NextNumber \in Nat
<1> DEFINE numbers == {r.id : r \in points} \cap 1 .. LastNumber
<1>1. CASE numbers = {}
  BY <1>1 DEF NextNumber
<1>2. CASE numbers # {}
  <2>1. \E n \in numbers : \A m \in numbers : m <= n
    <3>1. numbers \in SUBSET (1 .. LastNumber)
      OBVIOUS
    <3> HIDE DEF numbers
    <3>2. QED
      BY <1>2, <3>1, GreatestNumber
  <2>2. (CHOOSE n \in numbers : \A m \in numbers : m <= n) \in 1 .. LastNumber
    BY <2>1
  <2>3. QED
    BY <1>2, <2>2, RestoreAssumption DEF NextNumber
<1>3. QED
  BY <1>1, <1>2

-----------------------------------------------------------------------------
(* Types.                                                                  *)

LEMMA TypedInit == Init => Typed
<1> SUFFICES ASSUME Init PROVE Typed
  OBVIOUS
<1>1. now \in Nat /\ hours \in HoursValues /\ lowest \in HoursValues /\ lowest <= hours
  BY RestoreAssumption DEF Init
<1>2. \A t \in Tables : table[t] \in Histories \cup {NoTable}
                         /\ (Exists(t) => table[t].log # <<>>)
  <2>1. [content |-> 1, until |-> 0] \in V
    BY DEF V
  <2>2. [log |-> <<[content |-> 1, until |-> 0]>>, gone |-> {}] \in Histories
    BY <2>1 DEF Histories, V
  <2>3. QED
    BY <2>2 DEF Init, Exists
<1>3. table \in [Tables -> Histories \cup {NoTable}] /\ written \in [Tables -> Nat]
  BY <1>2 DEF Init
<1>4. session \in [Sessions -> Point]
  BY DEF Init, NoPoint, Point
<1>5. request \in RestoreRequest /\ request.todo \subseteq request.rows
  BY DEF Init, Ended, RestoreRequest, Cuts
<1>6. points \subseteq Row /\ calls \in [points : Nat, requests : Nat]
  BY DEF Init
<1>7. QED
  BY <1>1, <1>2, <1>3, <1>4, <1>5, <1>6 DEF Typed

LEMMA HistoryParts ==
  ASSUME NEW h \in Histories, NEW log \in Seq(V), NEW gone \in SUBSET Nat
  PROVE  /\ [h EXCEPT !.log = log] = [log |-> log, gone |-> h.gone]
         /\ [h EXCEPT !.gone = gone] = [log |-> h.log, gone |-> gone]
         /\ [log |-> log, gone |-> h.gone] \in Histories
         /\ [log |-> h.log, gone |-> gone] \in Histories
BY DEF Histories, V

LEMMA NamesType == ASSUME NEW specs \in MasterSpecs PROVE Names(specs) \subseteq Tables
BY RestoreAssumption DEF Names, Tables

LEMMA NoPointType == NoPoint \in Point
BY DEF NoPoint, Point

LEMMA EndedType ==
  ASSUME NEW status \in {"NONE", "REQUESTED", "IN_PROGRESS", "COMPLETED", "FAILED"},
         NEW cut \in Cuts
  PROVE  Ended(status, cut) \in RestoreRequest /\ Ended(status, cut).todo = {}
         /\ Ended(status, cut).rows = {}
BY DEF Ended, RestoreRequest

\* A request that goes on, or ends.
LEMMA RequestChanged ==
  ASSUME NEW q \in RestoreRequest, q.todo \subseteq q.rows,
         NEW step \in {"idle", "validate", "restore"},
         NEW status \in {"NONE", "REQUESTED", "IN_PROGRESS", "COMPLETED", "FAILED"}
  PROVE  /\ [q EXCEPT !.step = step, !.status = status] \in RestoreRequest
         /\ [q EXCEPT !.step = step, !.status = status].todo = q.todo
         /\ [q EXCEPT !.step = step, !.status = status].rows = q.rows
         /\ [q EXCEPT !.step = step, !.status = status, !.todo = q.rows] \in RestoreRequest
         /\ [q EXCEPT !.step = step, !.status = status, !.todo = q.rows].todo = q.rows
         /\ [q EXCEPT !.step = step, !.status = status, !.todo = q.rows].rows = q.rows
BY DEF RestoreRequest

\* A table that gets a longer history, or a history of its own.
LEMMA TableTyped ==
  ASSUME Typed, NEW t \in Tables, NEW h \in Histories, h.log # <<>>,
         table' = [table EXCEPT ![t] = h]
  PROVE  /\ table' \in [Tables -> Histories \cup {NoTable}] /\ h # NoTable
         /\ \A u \in Tables : Exists(u)' => table'[u].log # <<>>
         /\ table'[t] = h /\ \A u \in Tables : u # t => table'[u] = table[u]
<1>1. h # NoTable
  BY RestoreAssumption DEF Histories
<1>2. QED
  BY <1>1 DEF Typed, Exists

LEMMA AroundTyped ==
  ASSUME Typed, Around
  PROVE  Typed'
<1> USE DEF Typed
<1>1. CASE Tick
  BY <1>1 DEF Tick, tableVars, Exists
<1>2. CASE Configure
  <2>1. hours' \in Nat /\ hours \in Nat /\ lowest \in Nat
    BY <1>2, RestoreAssumption DEF Configure
  <2>2. QED
    BY <1>2, <2>1 DEF Configure, tableVars, Exists
<1>3. ASSUME NEW t \in Tables, Write(t)
      PROVE  Typed'
  <2> DEFINE log == Committed(table[t].log, written[t] + 1)
             h == [log |-> log, gone |-> table[t].gone]
  <2>1. Exists(t) /\ table[t] \in Histories /\ table[t].log \in Seq(V) /\ table[t].log # <<>>
    BY <1>3, LogType DEF Write
  <2>2. log \in Seq(V) /\ log # <<>>
    <3>1. written[t] + 1 \in Nat /\ now \in Nat
      OBVIOUS
    <3>2. QED
      BY <2>1, <3>1, CommittedLog
  <2>3. h \in Histories /\ h.log # <<>> /\ [table[t] EXCEPT !.log = log] = h
    BY <2>1, <2>2 DEF Histories, V
  <2>4. table' = [table EXCEPT ![t] = h]
    BY <1>3, <2>3 DEF Write
  <2> HIDE DEF h
  <2>5. table' \in [Tables -> Histories \cup {NoTable}]
        /\ \A u \in Tables : Exists(u)' => table'[u].log # <<>>
    BY <2>3, <2>4, TableTyped
  <2>6. QED
    BY <1>3, <2>5 DEF Write, clock
<1>4. ASSUME NEW t \in Tables, Create(t)
      PROVE  Typed'
  <2> DEFINE h == [log |-> <<[content |-> written[t] + 1, until |-> now]>>, gone |-> {}]
  <2>1. h \in Histories /\ h.log # <<>>
    BY DEF Histories
  <2>2. table' = [table EXCEPT ![t] = h]
    BY <1>4 DEF Create
  <2> HIDE DEF h
  <2>3. table' \in [Tables -> Histories \cup {NoTable}]
        /\ \A u \in Tables : Exists(u)' => table'[u].log # <<>>
    BY <2>1, <2>2, TableTyped
  <2>4. QED
    BY <1>4, <2>3 DEF Create, clock
<1>7. ASSUME NEW t \in Tables, Drop(t)
      PROVE  Typed'
  <2>1. \A u \in Tables : table'[u] = IF u = t THEN NoTable ELSE table[u]
    BY <1>7 DEF Drop
  <2>2. table' \in [Tables -> Histories \cup {NoTable}]
        /\ \A u \in Tables : Exists(u)' => table'[u].log # <<>>
    BY <1>7, <2>1 DEF Drop, Exists
  <2>3. QED
    BY <1>7, <2>2 DEF Drop, clock
<1>5. ASSUME NEW t \in Tables, Vacuum(t)
      PROVE  Typed'
  <2> DEFINE h == [log |-> table[t].log, gone |-> table[t].gone \cup Expired(table[t].log)]
  <2>1. Exists(t) /\ table[t] \in Histories /\ table[t].log \in Seq(V) /\ table[t].log # <<>>
        /\ \A i \in 1 .. Len(table[t].log) : table[t].log[i] \in V
    BY <1>5, LogType DEF Vacuum
  <2>2. Expired(table[t].log) \subseteq Nat
    BY <2>1 DEF Expired, V
  <2>3. h \in Histories /\ h.log # <<>>
        /\ [table[t] EXCEPT !.gone = table[t].gone \cup Expired(table[t].log)] = h
    <3>1. table[t].gone \cup Expired(table[t].log) \in SUBSET Nat
      BY <2>1, <2>2 DEF Histories
    <3> HIDE DEF Typed
    <3>2. QED
      BY <2>1, <3>1, HistoryParts
  <2>4. table' = [table EXCEPT ![t] = h]
    BY <1>5, <2>3 DEF Vacuum
  <2> HIDE DEF h
  <2>5. table' \in [Tables -> Histories \cup {NoTable}]
        /\ \A u \in Tables : Exists(u)' => table'[u].log # <<>>
    BY <2>3, <2>4, TableTyped
  <2>6. QED
    BY <1>5, <2>5 DEF Vacuum, clock
<1>6. QED
  BY <1>1, <1>2, <1>3, <1>4, <1>5, <1>7 DEF Around

LEMMA SessionTyped ==
  ASSUME Typed, NEW s \in Sessions, SessionStep(s)
  PROVE  Typed'
<1> USE DEF Typed
<1>1. UNCHANGED <<now, hours, lowest, table, written, request>>
  BY DEF SessionStep, BeginCreate, Incomplete, CreateRaises, Save, Capture, PassOver, clock, tableVars
<1>2. session[s] \in Point
  OBVIOUS
<1>3. points' \subseteq Row
  <2>1. CASE Save(s)
    <3>1. ASSUME NEW r \in session[s].rows PROVE PointRow(s, r) \in Row
      <4>1. r \in CapturedRow /\ session[s].id \in Nat /\ session[s].hours \in Nat
        BY <1>2 DEF Point
      <4>2. QED
        BY <4>1 DEF PointRow, CapturedRow, Row
    <3>2. QED
      BY <2>1, <3>1 DEF Save
  <2>2. CASE ~ Save(s)
    BY <2>2 DEF SessionStep, BeginCreate, Incomplete, CreateRaises, Capture, PassOver
  <2>3. QED
    BY <2>1, <2>2
<1>4. session' \in [Sessions -> Point]
  <2>1. ASSUME NEW specs \in MasterSpecs, BeginCreate(s, specs)
        PROVE  session' \in [Sessions -> Point]
    <3>1. Names(specs) \subseteq Tables /\ specs \subseteq Entries /\ hours \in Nat
      BY NamesType, RestoreAssumption
    <3>2. QED
      BY <2>1, <3>1, NextNumberType DEF BeginCreate, Point
  <2>2. CASE Incomplete(s) \/ CreateRaises(s) \/ Save(s)
    BY <2>2, NoPointType DEF Incomplete, CreateRaises, Save
  <2>3. ASSUME NEW e \in Entries, Capture(s, e)
        PROVE  session' \in [Sessions -> Point]
    <3> DEFINE row == [table |-> e[1], type |-> e[2], version |-> CurrentVersion(e[1]),
                       content |-> Current(table[e[1]].log), life |-> Life(e[1])]
    <3>1. e[1] \in Tables /\ e[2] \in Types /\ Exists(e[1])
      BY <2>3 DEF Tables, Names, Types, Capture
    <3>2. row \in CapturedRow
      BY <3>1, LogType DEF CapturedRow, Types
    <3>3. session' = [session EXCEPT ![s].todo = @ \ {e}, ![s].rows = @ \cup {row}]
      BY <2>3 DEF Capture
    <3> HIDE DEF row
    <3>4. QED
      BY <1>2, <3>2, <3>3 DEF Point
  <2>4. ASSUME NEW e \in Entries, PassOver(s, e)
        PROVE  session' \in [Sessions -> Point]
    BY <1>2, <2>4 DEF PassOver, Point
  <2>5. QED
    BY <2>1, <2>2, <2>3, <2>4 DEF SessionStep
<1>5. calls' \in [points : Nat, requests : Nat]
  <2>1. CASE \E specs \in MasterSpecs : BeginCreate(s, specs)
    BY <2>1 DEF BeginCreate
  <2>2. CASE ~ \E specs \in MasterSpecs : BeginCreate(s, specs)
    BY <2>2 DEF SessionStep, Incomplete, CreateRaises, Save, Capture, PassOver
  <2>3. QED
    BY <2>1, <2>2
<1>6. QED
  BY <1>1, <1>3, <1>4, <1>5 DEF Exists

\* The steps that end a request before it is complete, and what they leave.
EndsNow ==
    \/ ValidationRaises \/ Reject \/ Crash \/ \E r \in request.todo : RestoreFails(r)
    \/ (Accept \/ Complete) /\ AuditRaises

LEMMA EndsWith ==
  ASSUME EndsNow
  PROVE  request' = Ended("FAILED", "no") \/ \E c \in Cuts : request' = Ended(request.status, c)
BY DEF EndsNow, ValidationRaises, Reject, Crash, RestoreFails, AuditRaises, Cuts

LEMMA RequestTyped ==
  ASSUME Typed, RequestStep
  PROVE  Typed'
<1> USE DEF Typed
<1>1. UNCHANGED <<now, hours, lowest, written, points, session>>
  BY DEF RequestStep, Request, RestoreStep, ValidationRaises, Reject, Accept,
         RestoreTable, RestoreFails, Complete, Crash, clock, tableVars
<1>2. /\ request \in RestoreRequest /\ request.todo \subseteq request.rows
      /\ calls \in [points : Nat, requests : Nat]
  OBVIOUS
<1> DEFINE Result == /\ table' = table /\ calls' \in [points : Nat, requests : Nat]
                     /\ request' \in RestoreRequest /\ request'.todo \subseteq request'.rows
<1>3. Result => Typed'
  BY <1>1 DEF Exists
<1>4. ASSUME NEW id \in 1 .. LastNumber + 1, NEW specs \in MasterSpecs, Request(id, specs)
      PROVE  Result
  <2>1. calls' \in [points : Nat, requests : Nat] /\ table' = table
    BY <1>4 DEF Request, tableVars
  <2>2. request' = [Ended("REQUESTED", "no") EXCEPT !.step = "validate", !.rows = RowsOf(id),
                                                  !.expected = Names(specs)]
    BY <1>4 DEF Request
  <2>3. RowsOf(id) \subseteq Row /\ Names(specs) \subseteq Tables
    BY NamesType DEF RowsOf
  <2>4. Ended("REQUESTED", "no") \in RestoreRequest /\ Ended("REQUESTED", "no").todo = {}
    BY EndedType DEF Cuts
  <2>5. QED
    BY <2>1, <2>2, <2>3, <2>4 DEF RestoreRequest
<1>5. CASE EndsNow
  <2>1. table' = table /\ calls' = calls
    BY <1>5 DEF EndsNow, ValidationRaises, Reject, Accept, Complete, Crash, RestoreFails, tableVars
  <2>2. \E status \in {"NONE", "REQUESTED", "IN_PROGRESS", "COMPLETED", "FAILED"}, c \in Cuts :
          request' = Ended(status, c)
    <3>1. request' = Ended("FAILED", "no") \/ \E c \in Cuts : request' = Ended(request.status, c)
      BY <1>5, EndsWith
    <3>2. request.status \in {"NONE", "REQUESTED", "IN_PROGRESS", "COMPLETED", "FAILED"}
      BY <1>2 DEF RestoreRequest
    <3>3. "no" \in Cuts
      BY DEF Cuts
    <3>4. QED
      BY <3>1, <3>2, <3>3
  <2>3. QED
    BY <1>3, <2>1, <2>2, EndedType
<1>6. CASE (Accept \/ Complete) /\ ~ AuditRaises
  <2>1. table' = table /\ calls' = calls
    BY <1>6 DEF Accept, Complete, tableVars
  <2>2. \/ request' = [request EXCEPT !.step = "restore", !.status = "IN_PROGRESS",
                                       !.todo = request.rows]
        \/ request' = [request EXCEPT !.step = "idle", !.status = "COMPLETED"]
    BY <1>6 DEF Accept, Complete
  <2>3. QED
    <3> DEFINE accepted == [request EXCEPT !.step = "restore", !.status = "IN_PROGRESS",
                                           !.todo = request.rows]
               completed == [request EXCEPT !.step = "idle", !.status = "COMPLETED"]
    <3> HIDE DEF Typed
    <3>1. accepted \in RestoreRequest /\ accepted.todo \subseteq accepted.rows
      BY <1>2, RequestChanged
    <3>2. completed \in RestoreRequest /\ completed.todo \subseteq completed.rows
      BY <1>2, RequestChanged
    <3>3. request' = accepted \/ request' = completed
      BY <2>2
    <3> HIDE DEF accepted, completed
    <3>4. Result
      BY <1>2, <2>1, <3>1, <3>2, <3>3
    <3>5. QED
      BY <1>3, <3>4
<1>7. ASSUME NEW r \in request.todo, RestoreTable(r)
      PROVE  Typed'
  <2> DEFINE t == r.table
             c == Version(t, r.version).content
             log == Committed(table[t].log, c)
             h == [log |-> log, gone |-> table[t].gone]
  <2>1. /\ r \in Row /\ t \in Tables /\ Exists(t)
        /\ r.version \in Nat /\ r.version <= CurrentVersion(t)
    BY <1>7 DEF RestoreTable, Restorable, InHistory, RestoreRequest, Row
  <2>2. table[t] \in Histories /\ table[t].log \in Seq(V) /\ table[t].log # <<>> /\ Life(t) \in Nat
    BY <2>1, LogType
  <2>3. c \in Nat
    <3>1. r.version + 1 \in 1 .. Len(table[t].log)
      BY <2>1, LogType
    <3>2. table[t].log[r.version + 1] \in V
      BY <2>1, <3>1, LogType
    <3>3. QED
      BY <3>2 DEF Version, V
  <2>4. table' = [table EXCEPT ![t].log = log]
        /\ request' = [request EXCEPT !.todo = @ \ {r},
                         !.done[t] = [content |-> c, life |-> Life(t)]]
        /\ calls' = calls
    BY <1>7 DEF RestoreTable
  <2> HIDE DEF c, t
  <2>5. log \in Seq(V) /\ log # <<>>
    BY <2>2, <2>3, CommittedLog
  <2>6. h \in Histories /\ h.log # <<>> /\ [table[t] EXCEPT !.log = log] = h
    BY <2>2, <2>5, HistoryParts
  <2>7. table' = [table EXCEPT ![t] = h]
    BY <2>4, <2>6
  <2> HIDE DEF h, log
  <2>8. table' \in [Tables -> Histories \cup {NoTable}]
        /\ \A u \in Tables : Exists(u)' => table'[u].log # <<>>
    BY <2>1, <2>6, <2>7, TableTyped
  <2>9. [content |-> c, life |-> Life(t)] \in Restored
    BY <2>2, <2>3 DEF Restored
  <2>10. request' \in RestoreRequest /\ request'.todo \subseteq request'.rows
    BY <2>1, <2>4, <2>9 DEF RestoreRequest
  <2>11. QED
    BY <1>1, <2>4, <2>8, <2>10
<1>8. QED
  BY <1>3, <1>4, <1>5, <1>6, <1>7 DEF RequestStep, RestoreStep, EndsNow

LEMMA TypedStep == Typed /\ [Next]_vars => Typed'
<1> SUFFICES ASSUME Typed, [Next]_vars PROVE Typed'
  OBVIOUS
<1>1. CASE UNCHANGED vars
  BY <1>1 DEF vars, clock, tableVars, Typed, Exists
<1>2. QED
  BY <1>1, AroundTyped, SessionTyped, RequestTyped DEF Next, Around, SessionStep, RequestStep

-----------------------------------------------------------------------------
(* Contents, the lives they belong to, and the rows that name them.        *)

\* Contents of one life of a table are younger than those of the lives before,
\* and the current one is never vacuumed.
LogInv ==
    \A t \in Tables : Exists(t) =>
      /\ \A i \in 1 .. Len(table[t].log) :
           Life(t) <= table[t].log[i].content /\ table[t].log[i].content <= written[t]
      /\ Current(table[t].log) \notin table[t].gone
      /\ \A c \in table[t].gone : c <= written[t]

\* The table of a row has not been dropped since the row was captured.
Alive(r) == Exists(r.table) /\ Life(r.table) = r.life

\* The version a row names still holds what was captured, as long as the table
\* has not begun a new life.
RowFacts(r) ==
    /\ r.life <= r.content /\ r.content <= written[r.table]
    /\ Alive(r) => /\ r.version + 1 \in 1 .. Len(table[r.table].log)
                   /\ table[r.table].log[r.version + 1].content = r.content
    /\ Exists(r.table) /\ Life(r.table) # r.life => r.content < Life(r.table)

\* Contents of a saved row are current, or were since the row was saved.
Needed(r) ==
    \E i \in 1 .. Len(table[r.table].log) :
      /\ table[r.table].log[i].content = r.content
      /\ i = Len(table[r.table].log) \/ r.created <= table[r.table].log[i].until

\* WithinRetentionIsKept, for one row.
Kept(r) ==
    ~ RetentionExpired(r) /\ r.prompt /\ r.hours <= lowest /\ Alive(r) =>
      r.content \notin table[r.table].gone

SavedFacts(r) ==
    /\ RowFacts(r) /\ Kept(r)
    /\ r.created <= now
    /\ r.prompt /\ Alive(r) => Needed(r)

DataInv ==
    /\ LogInv
    /\ \A s \in Sessions : \A r \in session[s].rows : RowFacts(r)
    /\ \A r \in points : SavedFacts(r)

\* A commit of a write or of a restore.
Extends(t, c) ==
    /\ Exists(t) /\ c \in Nat /\ Life(t) <= c /\ c \notin table[t].gone
    /\ table' = [table EXCEPT ![t].log = Committed(@, c)]
    /\ c <= written'[t] /\ \A u \in Tables : written[u] <= written'[u]
    /\ UNCHANGED <<now, hours, lowest>>

LEMMA ExtendsParts ==
  ASSUME Typed, NEW t \in Tables, NEW c \in Nat, Extends(t, c)
  PROVE  LET old == table[t].log
             new == table'[t].log
         IN  /\ table'[t].gone = table[t].gone /\ Exists(t)' /\ Exists(t)
             /\ \A u \in Tables : u # t => table'[u] = table[u]
             /\ Len(old) \in Nat \ {0} /\ Len(new) = Len(old) + 1
             /\ \A i \in 1 .. Len(old) : /\ new[i].content = old[i].content
                                         /\ i # Len(old) => new[i].until = old[i].until
                                         /\ i = Len(old) => new[i].until = now
             /\ new[Len(new)].content = c /\ Current(new) = c
             /\ Life(t)' = Life(t)
             /\ \A i \in 1 .. Len(old) : old[i] \in V
<1> DEFINE log == Committed(table[t].log, c)
<1>1. /\ table[t] \in Histories /\ table[t].log \in Seq(V) /\ table[t].log # <<>>
      /\ Len(table[t].log) \in Nat \ {0} /\ \A i \in 1 .. Len(table[t].log) : table[t].log[i] \in V
  BY LogType DEF Extends
<1>2. /\ log \in Seq(V) /\ log # <<>> /\ Len(log) = Len(table[t].log) + 1
      /\ \A i \in 1 .. Len(table[t].log) :
           /\ log[i].content = table[t].log[i].content
           /\ i # Len(table[t].log) => log[i].until = table[t].log[i].until
           /\ i = Len(table[t].log) => log[i].until = now
      /\ Current(log) = c
  BY <1>1, CommittedLog DEF Typed
<1>3. /\ [table[t] EXCEPT !.log = log] = [log |-> log, gone |-> table[t].gone]
      /\ [log |-> log, gone |-> table[t].gone] \in Histories
  <2> HIDE DEF log
  <2>1. table[t].gone \in SUBSET Nat
    BY <1>1 DEF Histories
  <2>2. QED
    BY <1>1, <1>2, <2>1, HistoryParts
<1>4. table' = [table EXCEPT ![t] = [log |-> log, gone |-> table[t].gone]]
  BY <1>3 DEF Extends
<1> HIDE DEF log
<1>5. /\ table'[t] = [log |-> log, gone |-> table[t].gone]
      /\ [log |-> log, gone |-> table[t].gone] # NoTable
      /\ \A u \in Tables : u # t => table'[u] = table[u]
  BY <1>2, <1>3, <1>4, TableTyped
<1>6. table'[t].log = log /\ table'[t].gone = table[t].gone /\ Exists(t)'
  BY <1>5 DEF Exists
<1>7. Life(t)' = Life(t)
  <2>1. 1 \in 1 .. Len(table[t].log)
    BY <1>1
  <2>2. QED
    BY <1>2, <1>6, <2>1 DEF Life
<1>8. log[Len(log)].content = c
  BY <1>2 DEF Current
<1>9. Exists(t)
  BY DEF Extends
<1>10. QED
  BY <1>1, <1>2, <1>5, <1>6, <1>7, <1>8, <1>9

LEMMA ExtendsLogs ==
  ASSUME Typed, Typed', LogInv, NEW t \in Tables, NEW c \in Nat, Extends(t, c)
  PROVE  LogInv'
<1>1. ASSUME NEW u \in Tables, Exists(u)'
      PROVE  /\ \A i \in 1 .. Len(table'[u].log) :
                  Life(u)' <= table'[u].log[i].content /\ table'[u].log[i].content <= written'[u]
             /\ Current(table'[u].log) \notin table'[u].gone
             /\ \A d \in table'[u].gone : d <= written'[u]
  <2>1. written[u] \in Nat /\ written'[u] \in Nat /\ written[u] <= written'[u]
    BY DEF Typed, Extends
  <2>2. CASE u # t
    <3>1. table'[u] = table[u] /\ Exists(u) /\ Life(u)' = Life(u)
      BY <1>1, <2>2, ExtendsParts DEF Exists, Life
    <3>2. /\ \A i \in 1 .. Len(table[u].log) : table[u].log[i].content \in Nat
          /\ table[u].gone \subseteq Nat
      BY <3>1, LogType DEF V
    <3>3. QED
      BY <2>1, <3>1, <3>2 DEF LogInv
  <2>3. CASE u = t
    <3> DEFINE old == table[t].log
               new == table'[t].log
    <3>1. /\ table'[t].gone = table[t].gone /\ Exists(t) /\ Life(t)' = Life(t)
          /\ Len(old) \in Nat \ {0} /\ Len(new) = Len(old) + 1
          /\ \A i \in 1 .. Len(old) : new[i].content = old[i].content /\ old[i].content \in Nat
          /\ new[Len(new)].content = c /\ Current(new) = c
      BY ExtendsParts DEF V
    <3>2. Life(t) \in Nat /\ table[t].gone \subseteq Nat
      BY <3>1, LogType
    <3>3. c <= written'[t] /\ Life(t) <= c /\ c \notin table[t].gone
      BY DEF Extends
    <3>4. /\ \A i \in 1 .. Len(old) : Life(t) <= old[i].content /\ old[i].content <= written[t]
          /\ \A d \in table[t].gone : d <= written[t]
      BY <3>1 DEF LogInv
    <3> HIDE DEF old, new
    <3>5. \A i \in 1 .. Len(new) : Life(t) <= new[i].content /\ new[i].content <= written'[t]
      <4>1. \A i \in 1 .. Len(new) : i \in 1 .. Len(old) \/ i = Len(new)
        BY <3>1
      <4>2. \A i \in 1 .. Len(old) : new[i].content <= written'[t] /\ Life(t) <= new[i].content
        BY <2>1, <2>3, <3>1, <3>4
      <4>3. QED
        BY <3>1, <3>3, <4>1, <4>2
    <3>6. \A d \in table[t].gone : d <= written'[t]
      BY <2>1, <2>3, <3>2, <3>4
    <3>7. QED
      BY <2>3, <3>1, <3>3, <3>5, <3>6 DEF new
  <2>4. QED
    BY <2>2, <2>3
<1>2. QED
  BY <1>1 DEF LogInv

LEMMA ExtendsRows ==
  ASSUME Typed, Typed', NEW t \in Tables, NEW c \in Nat, Extends(t, c),
         NEW r \in CapturedRow \cup Row
  PROVE  /\ RowFacts(r) => RowFacts(r)'
         /\ r \in Row /\ SavedFacts(r) => SavedFacts(r)'
<1>1. /\ r.table \in Tables /\ r.content \in Nat /\ r.life \in Nat /\ r.version \in Nat
      /\ written[r.table] \in Nat /\ written'[r.table] \in Nat
      /\ written[r.table] <= written'[r.table]
  BY DEF CapturedRow, Row, Typed, Extends
<1>2. UNCHANGED <<now, lowest>>
  BY DEF Extends
<1>3. CASE r.table # t
  <2>1. table'[r.table] = table[r.table]
    BY <1>1, <1>3, ExtendsParts
  <2>2. RowFacts(r) => RowFacts(r)'
    BY <1>1, <2>1 DEF RowFacts, Alive, Exists, Life
  <2>3. r \in Row /\ SavedFacts(r) => SavedFacts(r)'
    BY <1>2, <2>1, <2>2 DEF SavedFacts, Kept, Alive, Needed, Exists, Life, RetentionExpired
  <2>4. QED
    BY <2>2, <2>3
<1>4. CASE r.table = t
  <2> DEFINE old == table[t].log
             new == table'[t].log
  <2>1. /\ table'[t].gone = table[t].gone /\ Exists(t) /\ Exists(t)' /\ Life(t)' = Life(t)
        /\ Len(old) \in Nat \ {0} /\ Len(new) = Len(old) + 1
        /\ \A i \in 1 .. Len(old) : /\ new[i].content = old[i].content
                                    /\ i # Len(old) => new[i].until = old[i].until
                                    /\ i = Len(old) => new[i].until = now
    BY ExtendsParts
  <2>2. Alive(r) = (Life(t) = r.life) /\ Alive(r)' = (Life(t) = r.life)
    BY <1>4, <2>1 DEF Alive
  <2>3. RowFacts(r) => RowFacts(r)'
    <3> SUFFICES ASSUME RowFacts(r) PROVE RowFacts(r)'
      OBVIOUS
    <3>1. Life(t)' = r.life => /\ r.version + 1 \in 1 .. Len(new)
                               /\ new[r.version + 1].content = r.content
      <4>1. Life(t)' = r.life => /\ r.version + 1 \in 1 .. Len(old)
                                 /\ old[r.version + 1].content = r.content
        BY <1>4, <2>1, <2>2 DEF RowFacts
      <4> HIDE DEF old, new
      <4>2. \A i \in 1 .. Len(old) : i \in 1 .. Len(new)
        BY <2>1
      <4>3. QED
        BY <2>1, <4>1, <4>2
    <3>2. r.life <= r.content /\ r.content <= written'[r.table]
      BY <1>1 DEF RowFacts, Alive
    <3>3. QED
      BY <1>4, <2>1, <2>2, <3>1, <3>2 DEF RowFacts
  <2>4. ASSUME r \in Row, SavedFacts(r) PROVE SavedFacts(r)'
    <3>1. r.created \in Nat /\ now \in Nat /\ r.created <= now
      BY <2>4 DEF Row, Typed, SavedFacts
    <3>2. r.prompt /\ Life(t)' = r.life => Needed(r)'
      <4> SUFFICES ASSUME r.prompt, Life(t)' = r.life PROVE Needed(r)'
        OBVIOUS
      <4>1. PICK i \in 1 .. Len(old) : /\ old[i].content = r.content
                                       /\ i = Len(old) \/ r.created <= old[i].until
        BY <1>4, <2>1, <2>2, <2>4 DEF SavedFacts, Needed
      <4> HIDE DEF old, new
      <4>2. i \in 1 .. Len(new) /\ new[i].content = r.content /\ r.created <= new[i].until
        BY <2>1, <3>1, <4>1
      <4>3. QED
        BY <1>4, <4>2 DEF Needed, new
    <3>3. Kept(r)'
      BY <1>2, <1>4, <2>1, <2>2, <2>4 DEF SavedFacts, Kept, RetentionExpired
    <3>4. QED
      BY <1>2, <1>4, <2>1, <2>2, <2>3, <2>4, <3>2, <3>3 DEF SavedFacts
  <2>5. QED
    BY <2>3, <2>4
<1>5. QED
  BY <1>3, <1>4

\* A dropped table asks nothing of anybody.
LEMMA DropFacts ==
  ASSUME Typed, Typed', LogInv, NEW t \in Tables, Drop(t)
  PROVE  /\ LogInv'
         /\ \A r \in CapturedRow \cup Row :
              /\ RowFacts(r) => RowFacts(r)'
              /\ r \in Row /\ SavedFacts(r) => SavedFacts(r)'
<1>1. /\ table' = [table EXCEPT ![t] = NoTable]
      /\ UNCHANGED <<written, now, hours, lowest>>
  BY DEF Drop, clock
<1>2. ~ Exists(t)' /\ \A u \in Tables : u # t => table'[u] = table[u]
  BY <1>1 DEF Exists, Typed
<1>3. LogInv'
  BY <1>1, <1>2 DEF LogInv, Exists, Life
<1>4. ASSUME NEW r \in CapturedRow \cup Row
      PROVE  /\ RowFacts(r) => RowFacts(r)'
             /\ r \in Row /\ SavedFacts(r) => SavedFacts(r)'
  <2>1. r.table \in Tables
    BY DEF CapturedRow, Row
  <2>2. CASE r.table = t
    <3>1. ~ Alive(r)' /\ ~ Exists(r.table)'
      BY <1>2, <2>2 DEF Alive
    <3>2. RowFacts(r) => RowFacts(r)'
      BY <1>1, <3>1 DEF RowFacts
    <3>3. QED
      BY <1>1, <3>1, <3>2 DEF SavedFacts, Kept
  <2>3. CASE r.table # t
    <3>1. table'[r.table] = table[r.table]
      BY <1>2, <2>1, <2>3
    <3>2. RowFacts(r) => RowFacts(r)'
      BY <1>1, <3>1 DEF RowFacts, Alive, Exists, Life
    <3>3. QED
      BY <1>1, <3>1, <3>2 DEF SavedFacts, Kept, Alive, Needed, Exists, Life, RetentionExpired
  <2>4. QED
    BY <2>2, <2>3
<1>5. QED
  BY <1>3, <1>4

\* A new life.
LEMMA CreateFacts ==
  ASSUME Typed, Typed', LogInv, NEW t \in Tables, Create(t)
  PROVE  /\ LogInv'
         /\ \A r \in CapturedRow \cup Row :
              /\ RowFacts(r) => RowFacts(r)'
              /\ r \in Row /\ SavedFacts(r) => SavedFacts(r)'
<1> DEFINE e == [content |-> written[t] + 1, until |-> now]
           h == [log |-> <<e>>, gone |-> {}]
<1>1. written[t] \in Nat /\ now \in Nat /\ e \in V /\ e.content = written[t] + 1
  BY DEF Typed, V
<1>2. h \in Histories /\ h.log # <<>> /\ Len(h.log) = 1 /\ h.log[1] = e /\ h.gone = {}
  <2>1. <<e>> \in Seq(V) /\ <<e>> # <<>> /\ Len(<<e>>) = 1 /\ <<e>>[1] = e
    BY <1>1, FirstLog
  <2> HIDE DEF e
  <2>2. QED
    BY <2>1 DEF Histories, V
<1>3. table' = [table EXCEPT ![t] = h] /\ written' = [written EXCEPT ![t] = @ + 1]
      /\ UNCHANGED <<now, hours, lowest>>
  BY DEF Create, clock
<1> HIDE DEF h, e
<1>4. table'[t] = h /\ Exists(t)' /\ \A u \in Tables : u # t => table'[u] = table[u]
  BY <1>2, <1>3, TableTyped DEF Exists
<1>5. /\ \A u \in Tables : written[u] \in Nat /\ written'[u] \in Nat /\ written[u] <= written'[u]
      /\ written'[t] = written[t] + 1
      /\ \A u \in Tables : u # t => written'[u] = written[u]
  BY <1>1, <1>3 DEF Typed
<1>6. Life(t)' = written[t] + 1 /\ Current(table'[t].log) = written[t] + 1
  BY <1>1, <1>2, <1>4 DEF Life, Current
<1>7. LogInv'
  <2>1. ASSUME NEW u \in Tables, Exists(u)'
        PROVE  /\ \A i \in 1 .. Len(table'[u].log) :
                    Life(u)' <= table'[u].log[i].content /\ table'[u].log[i].content <= written'[u]
               /\ Current(table'[u].log) \notin table'[u].gone
               /\ \A d \in table'[u].gone : d <= written'[u]
    <3>1. CASE u = t
      <4>1. \A i \in 1 .. 1 : i = 1
        OBVIOUS
      <4>2. QED
        BY <1>1, <1>2, <1>4, <1>5, <1>6, <3>1, <4>1
    <3>2. CASE u # t
      BY <1>4, <1>5, <2>1, <3>2 DEF LogInv, Life, Exists
    <3>3. QED
      BY <3>1, <3>2
  <2>2. QED
    BY <2>1 DEF LogInv
<1>8. ASSUME NEW r \in CapturedRow \cup Row
      PROVE  /\ RowFacts(r) => RowFacts(r)'
             /\ r \in Row /\ SavedFacts(r) => SavedFacts(r)'
  <2>1. r.table \in Tables /\ r.content \in Nat /\ r.life \in Nat
    BY DEF CapturedRow, Row
  <2>2. CASE r.table # t
    <3>1. table'[r.table] = table[r.table] /\ written'[r.table] = written[r.table]
      BY <1>4, <1>5, <2>1, <2>2
    <3>2. RowFacts(r) => RowFacts(r)'
      BY <3>1 DEF RowFacts, Alive, Exists, Life
    <3>3. r \in Row /\ SavedFacts(r) => SavedFacts(r)'
      BY <1>3, <3>1, <3>2 DEF SavedFacts, Kept, Alive, Needed, Exists, Life, RetentionExpired
    <3>4. QED
      BY <3>2, <3>3
  <2>3. CASE r.table = t
    <3>1. RowFacts(r) => r.content < Life(t)' /\ r.life < Life(t)' /\ r.content <= written'[t]
      BY <1>1, <1>5, <1>6, <2>1, <2>3 DEF RowFacts, Alive
    <3>2. Life(t)' \in Nat
      BY <1>1, <1>6
    <3>3. RowFacts(r) => RowFacts(r)' /\ Life(t)' # r.life
      BY <1>4, <2>1, <2>3, <3>1, <3>2 DEF RowFacts, Alive
    <3>4. r \in Row /\ SavedFacts(r) => SavedFacts(r)'
      BY <1>3, <2>3, <3>3 DEF SavedFacts, Kept, Alive
    <3>5. QED
      BY <3>3, <3>4
  <2>4. QED
    BY <2>2, <2>3
<1>9. QED
  BY <1>7, <1>8

\* VACUUM removes nothing that is current, or that a row within its retention
\* needs.
LEMMA VacuumFacts ==
  ASSUME Typed, Typed', LogInv, NEW t \in Tables, Vacuum(t)
  PROVE  /\ LogInv'
         /\ \A r \in CapturedRow \cup Row :
              /\ RowFacts(r) => RowFacts(r)'
              /\ r \in Row /\ SavedFacts(r) => SavedFacts(r)'
<1> DEFINE old == table[t].log
           h == [log |-> old, gone |-> table[t].gone \cup Expired(old)]
<1>1. /\ Exists(t) /\ table[t] \in Histories /\ old \in Seq(V) /\ old # <<>>
      /\ Len(old) \in Nat \ {0} /\ \A i \in 1 .. Len(old) : old[i] \in V
  BY LogType DEF Vacuum
<1>2. Expired(old) \subseteq Nat
  BY <1>1 DEF Expired, V
<1>3. h \in Histories /\ [table[t] EXCEPT !.gone = table[t].gone \cup Expired(old)] = h
  <2>1. table[t].gone \cup Expired(old) \in SUBSET Nat
    BY <1>1, <1>2 DEF Histories
  <2>2. QED
    BY <1>1, <2>1, HistoryParts
<1>4. table' = [table EXCEPT ![t] = h] /\ UNCHANGED <<written, now, hours, lowest>>
  BY <1>3 DEF Vacuum, clock
<1>5. /\ table'[t].log = old /\ table'[t].gone = table[t].gone \cup Expired(old)
      /\ Exists(t)' /\ \A u \in Tables : u # t => table'[u] = table[u]
  <2>1. h.log = old /\ h.gone = table[t].gone \cup Expired(old)
    OBVIOUS
  <2> HIDE DEF h
  <2>2. table'[t] = h /\ h # NoTable /\ \A u \in Tables : u # t => table'[u] = table[u]
    BY <1>1, <1>3, <1>4, <2>1, TableTyped
  <2>3. QED
    BY <2>1, <2>2 DEF Exists
<1> HIDE DEF h
<1>6. \A u \in Tables : (Exists(u)' => Exists(u)) /\ (Exists(u) => Exists(u)')
                         /\ Life(u)' = Life(u) /\ table'[u].log = table[u].log
  BY <1>1, <1>5 DEF Exists, Life
<1>7. LogInv'
  <2>1. ASSUME NEW u \in Tables, Exists(u)'
        PROVE  /\ \A i \in 1 .. Len(table'[u].log) :
                    Life(u)' <= table'[u].log[i].content /\ table'[u].log[i].content <= written'[u]
               /\ Current(table'[u].log) \notin table'[u].gone
               /\ \A d \in table'[u].gone : d <= written'[u]
    <3>1. CASE u = t
      <4>1. \A c \in Expired(old) : c # Current(old) /\ c <= written[t]
        BY <1>1 DEF Expired, LogInv
      <4>2. QED
        BY <1>1, <1>4, <1>5, <1>6, <3>1, <4>1 DEF LogInv
    <3>2. CASE u # t
      BY <1>4, <1>5, <1>6, <2>1, <3>2 DEF LogInv
    <3>3. QED
      BY <3>1, <3>2
  <2>2. QED
    BY <2>1 DEF LogInv
<1>8. ASSUME NEW r \in CapturedRow \cup Row
      PROVE  /\ RowFacts(r) => RowFacts(r)'
             /\ r \in Row /\ SavedFacts(r) => SavedFacts(r)'
  <2>1. r.table \in Tables
    BY DEF CapturedRow, Row
  <2>2. RowFacts(r) => RowFacts(r)'
    BY <1>4, <1>6, <2>1 DEF RowFacts, Alive
  <2>3. ASSUME r \in Row, SavedFacts(r) PROVE SavedFacts(r)'
    <3>1. /\ r.created \in Nat /\ r.hours \in Nat /\ now \in Nat /\ hours \in Nat /\ lowest \in Nat
          /\ lowest <= hours
      BY <2>3, RestoreAssumption DEF Row, Typed
    <3>2. ASSUME r.table = t, ~ RetentionExpired(r), r.prompt, r.hours <= lowest, Alive(r)
          PROVE  r.content \notin Expired(old)
      <4>1. PICK i \in 1 .. Len(old) : /\ old[i].content = r.content
                                       /\ i = Len(old) \/ r.created <= old[i].until
        BY <2>3, <3>2 DEF SavedFacts, Needed
      <4>2. CASE i = Len(old)
        BY <4>1, <4>2 DEF Expired, Current
      <4>3. CASE r.created <= old[i].until
        <5>1. old[i].until \in Nat
          BY <1>1 DEF V
        <5>2. ~ (old[i].until < now - hours)
          BY <3>1, <3>2, <4>3, <5>1 DEF RetentionExpired
        <5>3. QED
          BY <4>1, <5>2 DEF Expired
      <4>4. QED
        BY <4>1, <4>2, <4>3
    <3>3. Kept(r)'
      BY <1>4, <1>5, <1>6, <2>1, <2>3, <3>2 DEF SavedFacts, Kept, Alive, RetentionExpired
    <3>4. Needed(r) => Needed(r)'
      BY <1>6, <2>1 DEF Needed
    <3>5. Alive(r)' = Alive(r)
      BY <1>6, <2>1 DEF Alive
    <3>6. QED
      BY <1>4, <2>2, <2>3, <3>3, <3>4, <3>5 DEF SavedFacts
  <2>4. QED
    BY <2>2, <2>3
<1>9. QED
  BY <1>7, <1>8

\* Time passes, or the retention is configured.
LEMMA ClockFacts ==
  ASSUME Typed, Typed', LogInv, Tick \/ Configure
  PROVE  /\ LogInv'
         /\ \A r \in CapturedRow \cup Row :
              /\ RowFacts(r) => RowFacts(r)'
              /\ r \in Row /\ SavedFacts(r) => SavedFacts(r)'
<1>1. UNCHANGED <<table, written>> /\ now <= now' /\ lowest' <= lowest
      /\ now \in Nat /\ now' \in Nat /\ lowest \in Nat /\ lowest' \in Nat
  BY RestoreAssumption DEF Tick, Configure, tableVars, Typed
<1>2. LogInv'
  BY <1>1 DEF LogInv, Exists, Life
<1>3. ASSUME NEW r \in CapturedRow \cup Row
      PROVE  RowFacts(r) => RowFacts(r)'
  BY <1>1 DEF RowFacts, Alive, Exists, Life
<1>4. ASSUME NEW r \in Row, SavedFacts(r) PROVE SavedFacts(r)'
  <2>1. r.created \in Nat /\ r.hours \in Nat
    BY DEF Row
  <2>2. Kept(r)'
    BY <1>1, <1>4, <2>1 DEF SavedFacts, Kept, Alive, RetentionExpired, Exists, Life
  <2>3. Needed(r) => Needed(r)'
    BY <1>1 DEF Needed
  <2>4. r.created <= now'
    BY <1>1, <1>4, <2>1 DEF SavedFacts
  <2>5. RowFacts(r)'
    BY <1>3, <1>4 DEF SavedFacts
  <2>6. Alive(r)' = Alive(r)
    BY <1>1 DEF Alive, Exists, Life
  <2>7. QED
    BY <1>4, <2>2, <2>3, <2>4, <2>5, <2>6 DEF SavedFacts
<1>5. QED
  BY <1>2, <1>3, <1>4

LEMMA DataInit == Init => DataInv
<1> SUFFICES ASSUME Init PROVE DataInv
  OBVIOUS
<1>1. ASSUME NEW t \in Tables, Exists(t)
      PROVE  /\ table[t].log = <<[content |-> 1, until |-> 0]>> /\ table[t].gone = {}
             /\ written[t] = 1
  BY <1>1 DEF Init, Exists
<1>2. LogInv
  <2>1. ASSUME NEW t \in Tables, Exists(t)
        PROVE  /\ \A i \in 1 .. Len(table[t].log) :
                    Life(t) <= table[t].log[i].content /\ table[t].log[i].content <= written[t]
               /\ Current(table[t].log) \notin table[t].gone
               /\ \A c \in table[t].gone : c <= written[t]
    <3> DEFINE e == [content |-> 1, until |-> 0]
    <3>1. e \in V /\ e.content = 1
      BY DEF V
    <3>2. Len(<<e>>) = 1 /\ <<e>>[1] = e
      BY <3>1, FirstLog
    <3>3. table[t].log = <<e>>
      BY <1>1, <2>1
    <3> HIDE DEF e
    <3>4. \A i \in 1 .. Len(table[t].log) : table[t].log[i].content = 1
      BY <3>1, <3>2, <3>3
    <3>5. Life(t) = 1
      BY <3>1, <3>2, <3>3 DEF Life
    <3>6. QED
      BY <1>1, <2>1, <3>4, <3>5
  <2>2. QED
    BY <2>1 DEF LogInv
<1>3. QED
  BY <1>2 DEF Init, NoPoint, DataInv

LEMMA DataAround ==
  ASSUME Typed, Typed', DataInv, Around
  PROVE  DataInv'
<1>1. UNCHANGED <<points, session>>
  BY DEF Around, Tick, Configure, Write, Drop, Create, Vacuum
<1>2. /\ LogInv'
      /\ \A r \in CapturedRow \cup Row :
           /\ RowFacts(r) => RowFacts(r)'
           /\ r \in Row /\ SavedFacts(r) => SavedFacts(r)'
  <2>1. CASE Tick \/ Configure
    BY <2>1, ClockFacts DEF DataInv
  <2>2. ASSUME NEW t \in Tables, Write(t)
        PROVE  /\ LogInv'
               /\ \A r \in CapturedRow \cup Row :
                    /\ RowFacts(r) => RowFacts(r)'
                    /\ r \in Row /\ SavedFacts(r) => SavedFacts(r)'
    <3>1. Extends(t, written[t] + 1)
      <4>1. Exists(t) /\ written' = [written EXCEPT ![t] = @ + 1]
            /\ table' = [table EXCEPT ![t].log = Committed(@, written[t] + 1)]
            /\ UNCHANGED <<now, hours, lowest>>
        BY <2>2 DEF Write, clock
      <4>2. \A u \in Tables : written[u] \in Nat
        BY DEF Typed
      <4>3. /\ written'[t] = written[t] + 1
            /\ \A u \in Tables : u # t => written'[u] = written[u]
        BY <4>1 DEF Typed
      <4>4. \A u \in Tables : written[u] <= written'[u]
        <5>1. ASSUME NEW u \in Tables PROVE written[u] <= written'[u]
          BY <4>2, <4>3
        <5>2. QED
          BY <5>1
      <4>5. Life(t) <= written[t] + 1 /\ written[t] + 1 \notin table[t].gone
        <5>1. 1 \in 1 .. Len(table[t].log) /\ Life(t) \in Nat /\ table[t].gone \subseteq Nat
          BY <4>1, LogType
        <5>2. table[t].log[1].content <= written[t] /\ \A c \in table[t].gone : c <= written[t]
          BY <4>1, <5>1 DEF DataInv, LogInv
        <5>3. \A c \in table[t].gone : c # written[t] + 1
          BY <4>2, <5>1, <5>2
        <5>4. QED
          BY <4>2, <5>1, <5>2, <5>3 DEF Life
      <4>6. QED
        BY <4>1, <4>2, <4>3, <4>4, <4>5 DEF Extends
    <3>2. written[t] + 1 \in Nat
      BY DEF Typed
    <3>3. QED
      BY <3>1, <3>2, ExtendsLogs, ExtendsRows DEF DataInv
  <2>3. QED
    BY <2>1, <2>2, DropFacts, CreateFacts, VacuumFacts DEF Around, DataInv
<1>3. /\ \A s \in Sessions : session[s].rows \subseteq CapturedRow
      /\ points \subseteq Row
  BY DEF Typed, Point
<1>4. QED
  BY <1>1, <1>2, <1>3 DEF DataInv

LEMMA DataSession ==
  ASSUME Typed, Typed', DataInv, NEW s \in Sessions, SessionStep(s)
  PROVE  DataInv'
<1>1. UNCHANGED <<now, hours, lowest, table, written>>
  BY DEF SessionStep, BeginCreate, Incomplete, CreateRaises, Save, Capture, PassOver, clock, tableVars
<1>2. LogInv'
  BY <1>1 DEF DataInv, LogInv, Exists, Life
<1>3. \A r : RowFacts(r) => RowFacts(r)'
  BY <1>1 DEF RowFacts, Alive, Exists, Life
<1>4. \A r : SavedFacts(r) => SavedFacts(r)'
  BY <1>1, <1>3 DEF SavedFacts, Kept, Alive, Needed, Exists, Life, RetentionExpired
<1>5. session \in [Sessions -> Point]
  BY DEF Typed
<1>6. \A u \in Sessions : \A r \in session'[u].rows : RowFacts(r)
  <2>1. ASSUME NEW u \in Sessions, u # s PROVE session'[u] = session[u]
    BY <1>5, <2>1 DEF SessionStep, BeginCreate, Incomplete, CreateRaises, Save, Capture, PassOver
  <2>2. ASSUME NEW r \in session'[s].rows PROVE RowFacts(r)
    <3>1. CASE r \in session[s].rows
      BY <3>1 DEF DataInv
    <3>2. CASE r \notin session[s].rows
      <4>1. CASE \/ \E specs \in MasterSpecs : BeginCreate(s, specs)
                 \/ Incomplete(s) \/ CreateRaises(s) \/ Save(s)
        BY <1>5, <2>2, <4>1 DEF BeginCreate, Incomplete, CreateRaises, Save, NoPoint
      <4>2. CASE \E e \in Entries : PassOver(s, e)
        BY <1>5, <2>2, <3>2, <4>2 DEF PassOver, Point
      <4>3. ASSUME NEW e \in Entries, Capture(s, e)
            PROVE  RowFacts(r)
        <5> DEFINE row == [table |-> e[1], type |-> e[2], version |-> CurrentVersion(e[1]),
                           content |-> Current(table[e[1]].log), life |-> Life(e[1])]
        <5>1. session' = [session EXCEPT ![s].todo = @ \ {e}, ![s].rows = @ \cup {row}]
              /\ Exists(e[1]) /\ e[1] \in Tables
          BY <4>3 DEF Capture, Tables, Names
        <5>2. /\ row.table = e[1] /\ row.version = CurrentVersion(e[1])
              /\ row.content = Current(table[e[1]].log) /\ row.life = Life(e[1])
          OBVIOUS
        <5> HIDE DEF row
        <5>3. r = row
          BY <1>5, <2>2, <3>2, <5>1 DEF Point
        <5>4. /\ row.version + 1 = Len(table[e[1]].log)
              /\ Len(table[e[1]].log) \in 1 .. Len(table[e[1]].log)
          BY <5>1, <5>2, LogType
        <5>5. row.life <= row.content /\ row.content <= written[e[1]]
          BY <5>1, <5>2, <5>4 DEF DataInv, LogInv, Current
        <5>6. QED
          BY <5>1, <5>2, <5>3, <5>4, <5>5 DEF RowFacts, Alive, Current
      <4>4. QED
        BY <4>1, <4>2, <4>3 DEF SessionStep
    <3>3. QED
      BY <3>1, <3>2
  <2>3. QED
    BY <2>1, <2>2 DEF DataInv
<1>7. \A r \in points' : SavedFacts(r)
  <2>1. CASE ~ Save(s)
    <3>1. points' = points
      BY <2>1 DEF SessionStep, BeginCreate, Incomplete, CreateRaises, Capture, PassOver
    <3>2. QED
      BY <3>1 DEF DataInv
  <2>2. CASE Save(s)
    <3>1. ASSUME NEW q \in session[s].rows PROVE SavedFacts(PointRow(s, q))
      <4> DEFINE r == PointRow(s, q)
      <4>1. /\ r.table = q.table /\ r.version = q.version /\ r.content = q.content
            /\ r.life = q.life /\ r.created = now
            /\ r.prompt = (Exists(q.table) /\ Current(table[q.table].log) = q.content)
        BY DEF PointRow
      <4> HIDE DEF r
      <4>2. RowFacts(q) /\ q.table \in Tables /\ now \in Nat
        BY <1>5 DEF DataInv, Typed, Point, CapturedRow
      <4>3. RowFacts(r)
        BY <4>1, <4>2 DEF RowFacts, Alive
      <4>4. r.prompt => r.content \notin table[r.table].gone
        BY <4>1, <4>2 DEF DataInv, LogInv
      <4>5. r.prompt => Needed(r)
        <5>1. Exists(q.table) => Len(table[q.table].log) \in 1 .. Len(table[q.table].log)
          BY <4>2, LogType
        <5>2. QED
          BY <4>1, <5>1 DEF Needed, Current
      <4>6. SavedFacts(r)
        BY <4>1, <4>2, <4>3, <4>4, <4>5 DEF SavedFacts, Kept, Alive
      <4>7. QED
        BY <4>6 DEF r
    <3>2. QED
      BY <2>2, <3>1 DEF Save, DataInv
  <2>3. QED
    BY <2>1, <2>2
<1>8. QED
  BY <1>2, <1>3, <1>4, <1>6, <1>7 DEF DataInv

LEMMA DataRequest ==
  ASSUME Typed, Typed', DataInv, RequestStep
  PROVE  DataInv'
<1>1. UNCHANGED <<points, session, now, hours, lowest, written>>
  BY DEF RequestStep, Request, RestoreStep, ValidationRaises, Reject, Accept,
         RestoreTable, RestoreFails, Complete, Crash, clock, tableVars
<1>2. CASE ~ \E r \in request.todo : RestoreTable(r)
  <2>1. table' = table
    BY <1>2 DEF RequestStep, Request, RestoreStep, ValidationRaises, Reject, Accept, RestoreFails,
       Complete, Crash,
       tableVars
  <2>2. QED
    BY <1>1, <2>1 DEF DataInv, LogInv, SavedFacts, RowFacts, Alive, Kept, Needed, Exists, Life,
                      RetentionExpired
<1>3. ASSUME NEW r \in request.todo, RestoreTable(r)
      PROVE  DataInv'
  <2> DEFINE t == r.table
             c == Version(t, r.version).content
  <2>1. r \in Row /\ t \in Tables /\ r.version \in Nat /\ Restorable(t, r.version)
        /\ table' = [table EXCEPT ![t].log = Committed(@, c)]
    BY <1>3 DEF Typed, RestoreRequest, Row, RestoreTable
  <2>2. Exists(t) /\ r.version <= CurrentVersion(t) /\ c \notin table[t].gone
    BY <2>1 DEF Restorable, InHistory
  <2>3. r.version + 1 \in 1 .. Len(table[t].log)
    BY <2>1, <2>2, LogType
  <2>4. c \in Nat /\ Life(t) <= c /\ c <= written[t]
    <3>1. table[t].log[r.version + 1] \in V
      BY <2>1, <2>2, <2>3, LogType
    <3>2. QED
      BY <2>1, <2>2, <2>3, <3>1 DEF Version, V, DataInv, LogInv
  <2> HIDE DEF t, c
  <2>5. \A u \in Tables : written[u] <= written'[u]
    BY <1>1 DEF Typed
  <2>6. Extends(t, c)
    BY <1>1, <2>1, <2>2, <2>4, <2>5 DEF Extends
  <2>7. /\ \A s \in Sessions : session[s].rows \subseteq CapturedRow
        /\ points \subseteq Row
    BY DEF Typed, Point
  <2>8. LogInv'
    BY <2>1, <2>4, <2>6, ExtendsLogs DEF DataInv
  <2>9. \A q \in CapturedRow \cup Row : /\ RowFacts(q) => RowFacts(q)'
                                        /\ q \in Row /\ SavedFacts(q) => SavedFacts(q)'
    BY <2>1, <2>4, <2>6, ExtendsRows
  <2>10. QED
    BY <1>1, <2>7, <2>8, <2>9 DEF DataInv
<1>4. QED
  BY <1>2, <1>3

-----------------------------------------------------------------------------
(* Restoring.                                                              *)

\* What was done to a table is what one of its rows asked for, and a request is
\* complete when nothing is left to do.
Matched ==
    \A t \in Tables : request.done[t] # NoContent =>
        \E r \in request.rows :
          /\ r.table = t
          /\ r.life = request.done[t].life => r.content = request.done[t].content
ReqInv ==
    /\ request.rows \subseteq points
    /\ request.step # "idle" => request.status \in {"REQUESTED", "IN_PROGRESS"}
    /\ request.step = "restore" =>
         /\ request.expected \subseteq TablesOf(request.rows)
         /\ \A r \in request.rows \ request.todo : request.done[r.table] # NoContent
    /\ Matched
    /\ request.status = "COMPLETED" =>
         /\ request.expected \subseteq TablesOf(request.rows)
         /\ \A r \in request.rows : request.done[r.table] # NoContent

LEMMA EndedInv ==
  ASSUME NEW status \in {"NONE", "REQUESTED", "IN_PROGRESS", "FAILED"}, NEW cut,
         request' = Ended(status, cut)
  PROVE  ReqInv'
<1>1. /\ request'.rows = {} /\ request'.step = "idle" /\ request'.status = status
      /\ \A t \in Tables : request'.done[t] = NoContent
  BY DEF Ended
<1>2. QED
  BY <1>1 DEF ReqInv, Matched

LEMMA ReqOthers ==
  ASSUME ReqInv, request' = request, points \subseteq points'
  PROVE  ReqInv'
BY DEF ReqInv, Matched

LEMMA ReqRequest ==
  ASSUME Typed, Typed', DataInv, ReqInv, RequestStep
  PROVE  ReqInv'
<1>1. points' = points
  BY DEF RequestStep, Request, RestoreStep, ValidationRaises, Reject, Accept,
         RestoreTable, RestoreFails, Complete, Crash
<1>2. request \in RestoreRequest /\ points \subseteq Row
  BY DEF Typed
<1>3. ASSUME NEW id \in 1 .. LastNumber + 1, NEW specs \in MasterSpecs, Request(id, specs)
      PROVE  ReqInv'
  <2>1. /\ request'.rows = RowsOf(id) /\ request'.step = "validate"
        /\ request'.status = "REQUESTED"
        /\ \A t \in Tables : request'.done[t] = NoContent
    BY <1>3 DEF Request, Ended
  <2>2. request'.rows \subseteq points'
    BY <1>1, <2>1 DEF RowsOf
  <2>3. QED
    BY <2>1, <2>2 DEF ReqInv, Matched
<1>4. CASE EndsNow
  <2>1. request' = Ended("FAILED", "no") \/ \E c \in Cuts : request' = Ended(request.status, c)
    BY <1>4, EndsWith
  <2>2. request.status \in {"REQUESTED", "IN_PROGRESS"}
    BY <1>4 DEF EndsNow, ValidationRaises, Reject, Crash, RestoreFails, Accept, Complete, ReqInv
  <2>3. QED
    BY <2>1, <2>2, EndedInv
<1>6. CASE Accept /\ ~ AuditRaises
  <2>1. /\ request'.rows = request.rows /\ request'.todo = request.rows
        /\ request'.done = request.done /\ request'.status = "IN_PROGRESS"
        /\ request'.step = "restore" /\ request'.expected = request.expected
    BY <1>2, <1>6 DEF Accept, RestoreRequest
  <2>2. request.expected \subseteq TablesOf(request.rows)
    BY <1>6 DEF Accept, MayPass, ValidFrom
  <2>3. QED
    BY <1>1, <2>1, <2>2 DEF ReqInv, Matched, TablesOf
<1>7. CASE Complete /\ ~ AuditRaises
  <2>1. /\ request'.rows = request.rows /\ request'.done = request.done
        /\ request'.status = "COMPLETED" /\ request'.step = "idle"
        /\ request'.expected = request.expected
        /\ request.step = "restore" /\ request.todo = {}
    BY <1>2, <1>7 DEF Complete, RestoreRequest
  <2>2. QED
    BY <1>1, <2>1 DEF ReqInv, Matched, TablesOf
<1>8. ASSUME NEW r \in request.todo, RestoreTable(r)
      PROVE  ReqInv'
  <2> DEFINE t == r.table
             c == Version(t, r.version).content
             d == [content |-> c, life |-> Life(t)]
  <2>1. /\ r \in request.rows /\ r \in points /\ t \in Tables
        /\ request.step = "restore" /\ Restorable(t, r.version)
        /\ request' = [request EXCEPT !.todo = @ \ {r}, !.done[t] = d]
    BY <1>2, <1>8 DEF Typed, ReqInv, Row, RestoreTable
  <2>2. RowFacts(r)
    BY <2>1 DEF DataInv, SavedFacts
  <2>3. d.life = Life(t) /\ (r.life = d.life => r.content = d.content)
    BY <2>1, <2>2 DEF RowFacts, Alive, Restorable, Version
  <2>4. d \in Restored /\ d # NoContent
    <3>1. c \in Nat /\ Life(t) \in Nat
      <4>1. Exists(t) /\ r.version \in Nat /\ r.version <= CurrentVersion(t)
        BY <1>2, <2>1 DEF Restorable, InHistory, Row
      <4>2. r.version + 1 \in 1 .. Len(table[t].log) /\ Life(t) \in Nat
        BY <2>1, <4>1, LogType
      <4>3. table[t].log[r.version + 1] \in V
        BY <2>1, <4>1, <4>2, LogType
      <4>4. QED
        BY <4>2, <4>3 DEF Version, V
    <3>2. QED
      BY <3>1, RestoreAssumption DEF Restored
  <2> HIDE DEF d, t
  <2>5. /\ request'.rows = request.rows /\ request'.todo = request.todo \ {r}
        /\ request'.step = "restore" /\ request'.status = request.status
        /\ request'.expected = request.expected
        /\ request'.done[t] = d
        /\ \A u \in Tables : u # t => request'.done[u] = request.done[u]
    BY <1>2, <2>1 DEF RestoreRequest
  <2>6. Matched'
    <3>1. ASSUME NEW u \in Tables, request'.done[u] # NoContent
          PROVE  \E q \in request.rows :
                   /\ q.table = u
                   /\ q.life = request'.done[u].life => q.content = request'.done[u].content
      <4>1. CASE u = t
        BY <2>1, <2>3, <2>5, <4>1 DEF t
      <4>2. CASE u # t
        BY <2>5, <3>1, <4>2 DEF ReqInv, Matched
      <4>3. QED
        BY <4>1, <4>2
    <3>2. QED
      BY <2>5, <3>1 DEF Matched
  <2>7. ASSUME NEW q \in request.rows, q \notin request.todo \ {r}
        PROVE  request'.done[q.table] # NoContent
    <3>1. q.table \in Tables
      BY <1>2 DEF RestoreRequest, Row
    <3>2. CASE q.table = t
      BY <2>4, <2>5, <3>2
    <3>3. CASE q.table # t
      BY <2>1, <2>5, <2>7, <3>1, <3>3 DEF ReqInv, t
    <3>4. QED
      BY <3>2, <3>3
  <2>8. QED
    BY <1>1, <2>1, <2>5, <2>6, <2>7 DEF ReqInv, TablesOf
<1>9. QED
  BY <1>3, <1>4, <1>6, <1>7, <1>8 DEF RequestStep, RestoreStep, EndsNow

-----------------------------------------------------------------------------
(* The inductive invariant, and what it says.                              *)

IInv == Typed /\ DataInv /\ ReqInv

LEMMA InvInit == Init => IInv
<1> SUFFICES ASSUME Init PROVE IInv
  OBVIOUS
<1>1. ReqInv
  BY DEF Init, Ended, ReqInv, Matched
<1>2. QED
  BY <1>1, TypedInit, DataInit DEF IInv

LEMMA InvStep == IInv /\ [Next]_vars => IInv'
<1> SUFFICES ASSUME IInv, [Next]_vars PROVE IInv'
  OBVIOUS
<1>1. Typed /\ Typed' /\ DataInv /\ ReqInv
  BY TypedStep DEF IInv
<1>2. CASE UNCHANGED vars
  <2>1. UNCHANGED <<now, hours, lowest, table, written, points, session, request>>
    BY <1>2 DEF vars, clock, tableVars
  <2>2. DataInv'
    BY <1>1, <2>1 DEF DataInv, LogInv, SavedFacts, RowFacts, Alive, Kept, Needed, Exists, Life,
                      RetentionExpired
  <2>3. ReqInv'
    BY <1>1, <2>1 DEF ReqInv, Matched
  <2>4. QED
    BY <1>1, <2>2, <2>3 DEF IInv
<1>3. CASE Around
  <2>1. UNCHANGED <<points, request>>
    BY <1>3 DEF Around, Tick, Configure, Write, Drop, Create, Vacuum
  <2>2. ReqInv'
    BY <1>1, <2>1, ReqOthers
  <2>3. QED
    BY <1>1, <1>3, <2>2, DataAround DEF IInv
<1>4. ASSUME NEW s \in Sessions, SessionStep(s)
      PROVE  IInv'
  <2>1. request' = request /\ points \subseteq points'
    BY <1>4 DEF SessionStep, BeginCreate, Incomplete, CreateRaises, Save, Capture, PassOver
  <2>2. QED
    BY <1>1, <1>4, <2>1, DataSession, ReqOthers DEF IInv
<1>5. CASE RequestStep
  BY <1>1, <1>5, DataRequest, ReqRequest DEF IInv
<1>6. QED
  BY <1>2, <1>3, <1>4, <1>5 DEF Next, Around, SessionStep, RequestStep

LEMMA Inductive == Spec => []IInv
<1>1. QED
  BY InvInit, InvStep, PTL DEF Spec

\* Every variable has its type.
THEOREM TypeCorrect == Spec => []TypeOK
<1>1. Typed => TypeOK
  BY DEF Typed, TypeOK, Point, RestoreRequest, Cuts, Exists
<1>2. IInv => TypeOK
  BY <1>1 DEF IInv
<1>3. QED
  BY <1>2, Inductive, PTL

\* create_restore_point and _validate_restore_point_rows: within the retention it
\* was created with, a restore point is accepted under any specs it covers, whatever
\* happens to tables that live on and however many sessions save under its identifier.
THEOREM PointsValid == Spec => []PointsStayValid
<1>1. IInv => PointsStayValid
  <2> SUFFICES ASSUME IInv, NEW id \in {r.id : r \in points},
                      \A r \in RowsOf(id) : /\ now <= r.created + r.hours
                                            /\ Exists(r.table) /\ Life(r.table) = r.life,
                      NEW specs \in MasterSpecs, Names(specs) \subseteq TablesOf(RowsOf(id))
               PROVE  ~ MayFail(RowsOf(id), Names(specs))
    BY DEF PointsStayValid
  <2>1. RowsOf(id) # {} /\ RowsOf(id) \subseteq points /\ points \subseteq Row
    BY DEF RowsOf, IInv, Typed
  <2>2. ASSUME NEW r \in RowsOf(id) PROVE ~ RetentionExpired(r)
    <3>1. now \in Nat /\ r.created \in Nat /\ r.hours \in Nat /\ now <= r.created + r.hours
      BY <2>1 DEF IInv, Typed, Row
    <3>2. QED
      BY <3>1 DEF RetentionExpired
  <2>3. ASSUME NEW r \in RowsOf(id) PROVE Exists(r.table) /\ InHistory(r.table, r.version)
    <3>1. r.table \in Tables /\ r.version \in Nat /\ Exists(r.table)
      BY <2>1 DEF Row
    <3>2. r.version + 1 \in 1 .. Len(table[r.table].log)
      BY <2>1 DEF IInv, DataInv, SavedFacts, RowFacts, Alive
    <3>3. Len(table[r.table].log) \in Nat
      BY <3>1, LogType DEF IInv
    <3>4. QED
      BY <3>1, <3>2, <3>3 DEF InHistory, CurrentVersion
  <2>4. QED
    BY <2>1, <2>2, <2>3 DEF MayFail, ValidFrom
<1>2. QED
  BY <1>1, Inductive, PTL

\* The cleanup's VACUUM and the validation's retention agree: what a row within
\* its retention needs is there, unless the retention was lowered or the table
\* rewritten.
THEOREM RetentionHolds == Spec => []WithinRetentionIsKept
<1>1. IInv => WithinRetentionIsKept
  BY DEF IInv, DataInv, SavedFacts, Kept, Alive, WithinRetentionIsKept
<1>2. QED
  BY <1>1, Inductive, PTL

\* initiate_restore: an audit row says COMPLETED only if every table of the caller's
\* specs and of the restore point was set to what was captured, where it is still
\* the same table.
THEOREM RestoresAreTrue == Spec => []CompletedRestores
<1>1. IInv => CompletedRestores
  <2> SUFFICES ASSUME IInv, request.status = "COMPLETED" PROVE CompletedRestores
    BY DEF CompletedRestores
  <2>1. request.expected \subseteq TablesOf(request.rows) /\ Matched
        /\ \A r \in request.rows : request.done[r.table] # NoContent
    BY DEF IInv, ReqInv
  <2>2. TablesOf(request.rows) \subseteq Tables
    BY DEF IInv, Typed, RestoreRequest, Row, TablesOf
  <2>3. \A t \in TablesOf(request.rows) : request.done[t] # NoContent
    BY <2>1 DEF TablesOf
  <2>4. QED
    BY <2>1, <2>2, <2>3 DEF Matched, CompletedRestores
<1>2. QED
  BY <1>1, Inductive, PTL

=============================================================================
