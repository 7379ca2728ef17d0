---------------------------- MODULE SystemRestore ----------------------------
(***************************************************************************)
(* Restore points: capturing the Delta versions of all tables of the       *)
(* master specs, listing and validating what was captured, and restoring   *)
(* it; next to the pipeline that writes and overwrites the tables and the  *)
(* retention cleanup that vacuums them. Every call is given master specs   *)
(* of its own, so a point may be asked for under other specs than those it *)
(* was created under.                                                      *)
(*                                                                         *)
(* A table's contents are numbered in the order they are written, over all *)
(* its lives: an overwrite drops the table and then creates it again, in a *)
(* new life whose Delta history begins at version 0. VACUUM removes the    *)
(* files of contents that are no longer current and were replaced more     *)
(* than the retention ago; the history itself keeps naming their versions. *)
(*                                                                         *)
(* The order in which a list of rows is worked off is left open.           *)
(***************************************************************************)
EXTENDS Integers, Sequences, FiniteSets

CONSTANTS Entries,     \* <<table, type>> pairs: a table may be SOURCE and TARGET
          MasterSpecs, \* the entries of the master specs a call may be given
          Sessions,    \* callers of create_restore_point
          LastNumber,  \* the largest number with four digits
          HoursValues, \* the values of global_vacuum_hours
          MaxTime,     \* bound: hours that pass
          MaxContents, \* bound: contents written to each table
          MaxPoints,   \* bound: calls of create_restore_point
          MaxRequests, \* bound: calls of initiate_restore
          NoTable,     \* the table does not exist
          NoContent    \* no content restored

\* expected_table_set
Names(specs) == {e[1] : e \in specs}

Tables == Names(Entries)

ASSUME RestoreAssumption ==
    /\ MasterSpecs \subseteq SUBSET Entries
    /\ Sessions # {}
    /\ LastNumber \in Nat /\ MaxTime \in Nat /\ MaxContents \in [Tables -> Nat]
    /\ MaxPoints \in Nat /\ MaxRequests \in Nat
    /\ HoursValues \subseteq Nat \ {0}
    /\ NoContent \notin [content : Nat, life : Nat]
    /\ NoTable \notin [log : Seq([content : Nat, until : Nat]), gone : SUBSET Nat]

VARIABLES now,      \* hours since the beginning
          hours,    \* global_vacuum_hours in the configuration
          table,    \* table -> its history, and the contents VACUUM has removed
          written,  \* table -> contents written so far
          points,   \* rows of SYSTEM_RESTORE_POINTS
          session,  \* session -> the restore point it is creating
          request,  \* the last restore request: its audit row and its progress
          calls,    \* points and requests begun so far
          lowest    \* history: the smallest retention ever configured

tableVars == <<table, written>>
clock == <<now, hours, lowest>>
vars == <<clock, tableVars, points, session, request, calls>>

Exists(t) == table[t] # NoTable

\* Version v of a table.
Version(t, v) == table[t].log[v + 1]

\* Faulty variant: versions are counted from one.
VersionBefore(t) == Len(table[t].log) - 2

\* The newest row of DESCRIBE HISTORY.
CurrentVersion(t) == Len(table[t].log) - 1
InHistory(t, v) == v <= CurrentVersion(t)

-----------------------------------------------------------------------------
(* Delta tables.                                                           *)

\* A commit: the version it replaces ends now.
Committed(log, content) ==
    LET last == Len(log)
    IN  Append([log EXCEPT ![last].until = now], [content |-> content, until |-> now])

Current(log) == log[Len(log)].content

\* The files VACUUM RETAIN hours removes: of contents that are not current and
\* that no version of the last hours has used.
Expired(log) ==
    {c \in {log[i].content : i \in 1 .. Len(log)} :
        /\ c # Current(log)
        /\ \A i \in 1 .. Len(log) : log[i].content = c => log[i].until < now - hours}

\* No restore point being created, and no restore in progress. What cut a request
\* short before its audit row was final is a history variable.
NoPoint == [step |-> "idle", id |-> 0, expected |-> {}, hours |-> 0, todo |-> {}, rows |-> {}]
Ended(status, cut) ==
    [step |-> "idle", status |-> status, expected |-> {}, rows |-> {}, todo |-> {},
     done |-> [t \in Tables |-> NoContent], cut |-> cut]

Init ==
    /\ now = 0 /\ hours \in HoursValues /\ lowest = hours
    /\ \E made \in SUBSET Tables :
         /\ table = [t \in Tables |-> IF t \in made
                        THEN [log |-> <<[content |-> 1, until |-> 0]>>, gone |-> {}]
                        ELSE NoTable]
         /\ written = [t \in Tables |-> IF t \in made THEN 1 ELSE 0]
    /\ points = {}
    /\ session = [s \in Sessions |-> NoPoint]
    /\ request = Ended("NONE", "no")
    /\ calls = [points |-> 0, requests |-> 0]

Tick ==
    /\ now < MaxTime
    /\ now' = now + 1
    /\ UNCHANGED <<hours, lowest, tableVars, points, session, request, calls>>

\* config.ini is edited.
Configure ==
    /\ hours' \in HoursValues \ {hours}
    /\ lowest' = IF hours' < lowest THEN hours' ELSE lowest
    /\ UNCHANGED <<now, tableVars, points, session, request, calls>>

\* A load, a DELETE or an OPTIMIZE commits a version with new files.
Write(t) ==
    /\ Exists(t) /\ written[t] < MaxContents[t]
    /\ written' = [written EXCEPT ![t] = @ + 1]
    /\ table' = [table EXCEPT ![t].log = Committed(@, written[t] + 1)]
    /\ UNCHANGED <<clock, points, session, request, calls>>

\* The first half of an overwrite: the table is dropped with its history. If the
\* load dies now, there is no table until another one writes it.
Drop(t) ==
    /\ Exists(t)
    /\ table' = [table EXCEPT ![t] = NoTable]
    /\ UNCHANGED <<clock, written, points, session, request, calls>>

\* The second half, or a first load: the table begins a new life.
Create(t) ==
    /\ ~ Exists(t) /\ written[t] < MaxContents[t]
    /\ written' = [written EXCEPT ![t] = @ + 1]
    /\ table' = [table EXCEPT ![t] =
                    [log |-> <<[content |-> written[t] + 1, until |-> now]>>, gone |-> {}]]
    /\ UNCHANGED <<clock, points, session, request, calls>>

\* _apply_delta_retention for one table: its DELETE and OPTIMIZE may each
\* rewrite files, which is a Write; then VACUUM.
Vacuum(t) ==
    /\ Exists(t)
    /\ table' = [table EXCEPT ![t].gone = @ \cup Expired(table[t].log)]
    /\ UNCHANGED <<clock, written, points, session, request, calls>>

-----------------------------------------------------------------------------
(* create_restore_point                                                    *)

\* _next_restore_point_id: one more than the largest number of four digits.
NextNumber ==
    LET numbers == {r.id : r \in points} \cap 1 .. LastNumber
    IN  IF numbers = {} THEN 1
        ELSE 1 + CHOOSE n \in numbers : \A m \in numbers : m <= n

\* The specs and the configuration are those the call was made with.
BeginCreate(s, specs) ==
    /\ session[s].step = "idle" /\ calls.points < MaxPoints
    /\ calls' = [calls EXCEPT !.points = @ + 1]
    /\ session' = [session EXCEPT ![s] =
                      [step |-> "capture", id |-> NextNumber, expected |-> Names(specs),
                       hours |-> hours, todo |-> specs, rows |-> {}]]
    /\ UNCHANGED <<clock, tableVars, points, request>>

\* The first content of the life a table is in.
Life(t) == table[t].log[1].content

\* The current version of one entry's table. What it holds and the life it
\* belongs to are history variables of the model: the code keeps the number.
Capture(s, e) ==
    /\ session[s].step = "capture"
    /\ e \in session[s].todo /\ Exists(e[1])
    /\ session' = [session EXCEPT
         ![s].todo = @ \ {e},
         ![s].rows = @ \cup
             {[table |-> e[1], type |-> e[2], version |-> CurrentVersion(e[1]),
               content |-> Current(table[e[1]].log), life |-> Life(e[1])]}]
    /\ UNCHANGED <<clock, tableVars, points, request, calls>>

\* An entry whose table does not exist when its turn comes is passed over.
PassOver(s, e) ==
    /\ session[s].step = "capture"
    /\ e \in session[s].todo /\ ~ Exists(e[1])
    /\ session' = [session EXCEPT ![s].todo = @ \ {e}]
    /\ UNCHANGED <<clock, tableVars, points, request, calls>>

Captured(s) == {r.table : r \in session[s].rows}

\* There is something to save, and no table is missing.
Whole(s) == session[s].rows # {} /\ session[s].expected \subseteq Captured(s)

\* A table was not there: HF097, and nothing is saved.
Incomplete(s) ==
    /\ session[s].step = "capture" /\ session[s].todo = {}
    /\ ~ Whole(s)
    /\ session' = [session EXCEPT ![s] = NoPoint]
    /\ UNCHANGED <<clock, tableVars, points, request, calls>>

\* The call ends in an exception or dies: a table was dropped between the check
\* that it exists and the query of its history, or the rows cannot be appended.
CreateRaises(s) ==
    /\ session[s].step = "capture"
    /\ session' = [session EXCEPT ![s] = NoPoint]
    /\ UNCHANGED <<clock, tableVars, points, request, calls>>

\* The row saved; "prompt" (history) unless the table was rewritten in between.
PointRow(s, r) ==
    [id |-> session[s].id, table |-> r.table, type |-> r.type, version |-> r.version,
     created |-> now, hours |-> session[s].hours, content |-> r.content, life |-> r.life,
     prompt |-> Exists(r.table) /\ Current(table[r.table].log) = r.content]

\* The rows of the restore point are appended in one commit. The set of tables
\* is complete; a table that came or went meanwhile may lack one of its rows.
Save(s) ==
    /\ session[s].step = "capture" /\ session[s].todo = {}
    /\ Whole(s)
    /\ points' = points \cup {PointRow(s, r) : r \in session[s].rows}
    /\ session' = [session EXCEPT ![s] = NoPoint]
    /\ UNCHANGED <<clock, tableVars, request, calls>>

-----------------------------------------------------------------------------
(* Validation.                                                             *)

RowsOf(id) == {r \in points : r.id = id}

\* Faulty variants: a row is kept for one hour too long, or for as long as the
\* configuration says now.
RetentionExpiredLate(r) == r.created < now - r.hours - 1
RetentionExpiredNow(r) == r.created < now - hours

\* created < now - retention_hours
RetentionExpired(r) == r.created < now - r.hours

TablesOf(rows) == {r.table : r \in rows}

\* Every table the caller's specs expect is there, the retention of the first row
\* has not expired, and every version is named by the history of its table.
ValidFrom(first, rows, expected) ==
    /\ ~ RetentionExpired(first)
    /\ expected \subseteq TablesOf(rows)
    /\ \A r \in rows : Exists(r.table) /\ InHistory(r.table, r.version)

\* list_restore_points lists the points that pass.
MayPass(rows, expected) == \E first \in rows : ValidFrom(first, rows, expected)
MayFail(rows, expected) == rows = {} \/ \E first \in rows : ~ ValidFrom(first, rows, expected)

-----------------------------------------------------------------------------
(* initiate_restore                                                        *)

\* Any identifier may be asked for, under any specs. The audit row is REQUESTED.
Request(id, specs) ==
    /\ request.step = "idle" /\ calls.requests < MaxRequests
    /\ calls' = [calls EXCEPT !.requests = @ + 1]
    /\ request' = [Ended("REQUESTED", "no") EXCEPT !.step = "validate", !.rows = RowsOf(id),
                                                  !.expected = Names(specs)]
    /\ UNCHANGED <<clock, tableVars, points, session>>

\* _update_audit raises: the audit row stays as it is, and the request is over.
AuditRaises == request' = Ended(request.status, "audit")

\* Loading or validating the rows raises, for instance when a table is dropped
\* between the check that it exists and the query of its history.
ValidationRaises ==
    /\ request.step = "validate"
    /\ request' = Ended(request.status, "validation")
    /\ UNCHANGED <<clock, tableVars, points, session, calls>>

Reject ==
    /\ request.step = "validate" /\ MayFail(request.rows, request.expected)
    /\ request' = Ended("FAILED", "no") \/ AuditRaises
    /\ UNCHANGED <<clock, tableVars, points, session, calls>>

Accept ==
    /\ request.step = "validate" /\ MayPass(request.rows, request.expected)
    /\ \/ request' = [request EXCEPT !.step = "restore", !.status = "IN_PROGRESS",
                                     !.todo = request.rows]
       \/ AuditRaises
    /\ UNCHANGED <<clock, tableVars, points, session, calls>>

\* RESTORE TABLE needs the version and its files.
Restorable(t, v) == /\ Exists(t) /\ InHistory(t, v)
                    /\ Version(t, v).content \notin table[t].gone

RestoreTable(r) ==
    /\ request.step = "restore" /\ r \in request.todo
    /\ Restorable(r.table, r.version)
    /\ LET content == Version(r.table, r.version).content
       IN  /\ table' = [table EXCEPT ![r.table].log = Committed(@, content)]
           /\ request' = [request EXCEPT !.todo = @ \ {r}, !.done[r.table] =
                                     [content |-> content, life |-> Life(r.table)]]
    /\ UNCHANGED <<clock, written, points, session, calls>>

\* Faulty variant: the exception leaves the loop without an audit update.
RestoreRaises(r) ==
    /\ request.step = "restore" /\ r \in request.todo
    /\ request' = Ended(request.status, "no")
    /\ UNCHANGED <<clock, tableVars, points, session, calls>>

\* Faulty variant: a table that cannot be restored is passed over.
RestoreSkips(r) ==
    /\ request.step = "restore" /\ r \in request.todo
    /\ request' = [request EXCEPT !.todo = @ \ {r}]
    /\ UNCHANGED <<clock, tableVars, points, session, calls>>

\* RESTORE fails, because the version is not Restorable or for a reason of its
\* own. The first table that fails ends the request; the others stay as they are
\* by then.
RestoreFails(r) ==
    /\ request.step = "restore" /\ r \in request.todo
    /\ request' = Ended("FAILED", "no") \/ AuditRaises
    /\ UNCHANGED <<clock, tableVars, points, session, calls>>

\* Every table is restored. The last audit update is outside the try block.
Complete ==
    /\ request.step = "restore" /\ request.todo = {}
    /\ \/ request' = [request EXCEPT !.step = "idle", !.status = "COMPLETED"]
       \/ AuditRaises
    /\ UNCHANGED <<clock, tableVars, points, session, calls>>

\* The process dies; the audit row stays as it is.
Crash ==
    /\ request.step # "idle"
    /\ request' = Ended(request.status, "process")
    /\ UNCHANGED <<clock, tableVars, points, session, calls>>

RestoreStep ==
    \/ ValidationRaises \/ Reject \/ Accept \/ Complete
    \/ \E r \in request.todo : RestoreTable(r) \/ RestoreFails(r)

Next ==
    \/ Tick \/ Configure
    \/ \E t \in Tables : Write(t) \/ Drop(t) \/ Create(t) \/ Vacuum(t)
    \/ \E s \in Sessions :
         \/ \E specs \in MasterSpecs : BeginCreate(s, specs)
         \/ Incomplete(s) \/ CreateRaises(s) \/ Save(s)
         \/ \E e \in Entries : Capture(s, e) \/ PassOver(s, e)
    \/ \E id \in 1 .. LastNumber + 1, specs \in MasterSpecs : Request(id, specs)
    \/ RestoreStep \/ Crash

\* A restore that was requested goes on.
Spec == Init /\ [][Next]_vars /\ WF_vars(RestoreStep)

-----------------------------------------------------------------------------
(* Properties.                                                             *)

Histories == [log : Seq([content : Nat, until : Nat]), gone : SUBSET Nat]
CapturedRow == [table : Tables, type : {e[2] : e \in Entries}, version : Nat,
                content : Nat, life : Nat]
Row == [id : Nat, table : Tables, type : {e[2] : e \in Entries}, version : Nat,
        created : Nat, hours : Nat, content : Nat, life : Nat, prompt : BOOLEAN]
Restored == [content : Nat, life : Nat]

\* Every variable has its type.
TypeOK ==
    /\ now \in Nat /\ hours \in HoursValues /\ lowest \in HoursValues
    /\ \A t \in Tables : Exists(t) => table[t] \in Histories /\ table[t].log # <<>>
    /\ written \in [Tables -> Nat]
    /\ points \subseteq Row
    /\ \A s \in Sessions :
         /\ session[s].step \in {"idle", "capture"}
         /\ session[s].expected \subseteq Tables
         /\ session[s].todo \subseteq Entries /\ session[s].rows \subseteq CapturedRow
    /\ request.step \in {"idle", "validate", "restore"}
    /\ request.status \in {"NONE", "REQUESTED", "IN_PROGRESS", "COMPLETED", "FAILED"}
    /\ request.expected \subseteq Tables
    /\ request.todo \subseteq request.rows /\ request.rows \subseteq Row
    /\ request.done \in [Tables -> Restored \cup {NoContent}]
    /\ request.cut \in {"no", "process", "validation", "audit"}
    /\ calls \in [points : Nat, requests : Nat]

\* A restore point stays good for the retention it was created with: it is listed
\* and accepted whatever is written, restored, vacuumed or configured meanwhile, as
\* long as its tables live on and the caller's specs ask for no other table.
PointsStayValid ==
    \A id \in {r.id : r \in points} :
        (\A r \in RowsOf(id) : /\ now <= r.created + r.hours
                               /\ Exists(r.table) /\ Life(r.table) = r.life)
        => \A specs \in MasterSpecs :
             Names(specs) \subseteq TablesOf(RowsOf(id)) => ~ MayFail(RowsOf(id), Names(specs))

\* Validation and VACUUM agree on time: while a captured row is within its
\* retention, the files it needs are there, although writers replace them and
\* the cleanup runs at any time; as long as the retention is not lowered and
\* the table is not rewritten while the point is being created.
WithinRetentionIsKept ==
    \A r \in points :
        /\ ~ RetentionExpired(r)
        /\ r.prompt /\ r.hours <= lowest
        /\ Exists(r.table) /\ Life(r.table) = r.life
        => r.content \notin table[r.table].gone

\* An audit row says COMPLETED only if every table that the caller's specs expect,
\* and every other one of the restore point, was restored, and to what the restore
\* point captured, provided it was still the same table.
CompletedRestores ==
    request.status = "COMPLETED" =>
        /\ request.expected \subseteq TablesOf(request.rows)
        /\ \A t \in TablesOf(request.rows) :
             /\ request.done[t] # NoContent
             /\ \E r \in request.rows :
                  /\ r.table = t
                  /\ r.life = request.done[t].life => r.content = request.done[t].content

\* A request comes to an end and its audit row tells how, unless something cut it
\* short that initiate_restore does not handle: the process died, loading or
\* validating the rows raised, or an update of the audit row did. A failure of a
\* RESTORE is not among them.
RequestSettles ==
    request.step # "idle" ~>
        request.step = "idle" /\ (request.cut # "no" \/ request.status \in {"COMPLETED", "FAILED"})

\* A completed restore is a full rollback: every table holds what it held when
\* the restore point was created.
RolledBack ==
    request.status = "COMPLETED" =>
        \A t \in TablesOf(request.rows) :
            \E r \in request.rows : r.table = t /\ r.content = request.done[t].content

=============================================================================
