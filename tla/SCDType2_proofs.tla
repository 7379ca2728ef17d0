--------------------------- MODULE SCDType2_proofs ---------------------------
(***************************************************************************)
(* Proofs about SCDType2: no key has two active versions, the active ones  *)
(* are the rows of t_full, and the target is a history; for any keys,      *)
(* values, snapshots, layouts, bounds and failures.                        *)
(***************************************************************************)
EXTENDS SCDType2, StagingLayer_proofs, SequenceTheorems, WellFoundedInduction

LoadSteps == {"rebuild", "create", "fill", "close", "insert", "register"}

TargetType ==
    /\ pc \in StagingSteps \cup LoadSteps
    /\ target \in TargetTable \cup {NoTable}
    /\ pc \in {"rebuild", "fill", "close", "insert", "register"} => target # NoTable
    /\ pc = "create" => target = NoTable
    /\ pc = "fill" => target.rows = NoRows
    /\ result \in {"none", "loaded", "skipped", "nochange", "failed"}
    /\ known \in Rows /\ changed \subseteq Keys /\ purged \subseteq Keys
    /\ raced \in BOOLEAN /\ torn \in BOOLEAN /\ disturbed \in BOOLEAN

Typed == StagingInv /\ TargetType

TargetRows == IF Exists(target) THEN target.rows ELSE NoRows
ActiveVals(versions) == {versions[i].val : i \in Active(versions)}

-----------------------------------------------------------------------------
(* Sequences of versions.                                                  *)

LEMMA SeqParts ==
  ASSUME NEW s \in Seq(Version)
  PROVE  /\ Len(s) \in Nat /\ DOMAIN s = 1 .. Len(s) /\ s = [i \in 1 .. Len(s) |-> s[i]]
         /\ \A i \in DOMAIN s : s[i] \in Version
         /\ Active(s) \subseteq DOMAIN s
<1>1. Len(s) \in Nat /\ DOMAIN s = 1 .. Len(s) /\ \A i \in 1 .. Len(s) : s[i] \in Version
  BY LenProperties, ElementOfSeq
<1>2. s \in [1 .. Len(s) -> Version]
  BY LenProperties
<1>3. QED
  BY <1>1, <1>2 DEF Active

LEMMA FunctionIsSeq ==
  ASSUME NEW n \in Nat, NEW f \in [1 .. n -> Version]
  PROVE  f \in Seq(Version)
BY SeqDef

LEMMA EmptyVersions ==
  /\ <<>> \in Seq(Version) /\ Active(<<>>) = {} /\ ActiveVals(<<>>) = {}
  /\ NoRows \in [Keys -> Seq(Version)]
BY EmptySeq DEF Active, ActiveVals, NoRows

\* A version that is changed in place.
LEMMA ChangedInPlace ==
  ASSUME NEW s \in Seq(Version), NEW t, t = [i \in DOMAIN s |-> t[i]],
         \A i \in DOMAIN s : t[i] \in Version
  PROVE  t \in Seq(Version) /\ DOMAIN t = DOMAIN s
<1>1. Len(s) \in Nat /\ DOMAIN s = 1 .. Len(s)
  BY SeqParts
<1>2. DOMAIN t = DOMAIN s /\ t \in [1 .. Len(s) -> Version]
  BY <1>1
<1>3. QED
  BY <1>1, <1>2, FunctionIsSeq

\* A version that begins now is added at the end.
LEMMA VersionAdded ==
  ASSUME NEW s \in Seq(Version), NEW v \in Version, v.open
  PROVE  /\ Append(s, v) \in Seq(Version)
         /\ Active(s) = {} => /\ \A i, j \in Active(Append(s, v)) : i = j
                              /\ ActiveVals(Append(s, v)) = {v.val}
         /\ Active(Append(s, v)) # {}
<1> DEFINE t == Append(s, v)
           n == Len(s)
<1>1. n \in Nat /\ DOMAIN s = 1 .. n
  BY SeqParts
<1>2. t \in Seq(Version) /\ Len(t) = n + 1 /\ t[n + 1] = v /\ \A i \in 1 .. n : t[i] = s[i]
  BY AppendProperties
<1>3. DOMAIN t = 1 .. n + 1
  BY <1>2, LenProperties
<1> HIDE DEF t
<1>4. n + 1 \in Active(t)
  BY <1>1, <1>2, <1>3 DEF Active
<1>5. Active(s) = {} => Active(t) = {n + 1}
  <2>1. \A i \in 1 .. n + 1 : i = n + 1 \/ i \in 1 .. n
    BY <1>1
  <2>2. QED
    BY <1>1, <1>2, <1>3, <1>4, <2>1 DEF Active
<1>6. QED
  BY <1>2, <1>4, <1>5 DEF ActiveVals, t

-----------------------------------------------------------------------------
(* What retention leaves.                                                  *)

Ascending(at) == \A i, j \in DOMAIN at : i < j => at[i] < at[j]
Covers(at, positions) == \A p \in positions : \E i \in DOMAIN at : at[i] = p
Ordered(positions, n) ==
    \E at \in UNION {[1 .. m -> positions] : m \in 0 .. n} : Ascending(at) /\ Covers(at, positions)

\* One more position, greater than the others.
LEMMA OneMore ==
  ASSUME NEW n \in Nat, NEW positions \in SUBSET (1 .. n + 1), n + 1 \in positions,
         Ordered(positions \ {n + 1}, n)
  PROVE  Ordered(positions, n + 1)
<1> DEFINE rest == positions \ {n + 1}
<1>1. PICK m \in 0 .. n : \E at \in [1 .. m -> rest] : Ascending(at) /\ Covers(at, rest)
  BY DEF Ordered
<1>2. PICK at \in [1 .. m -> rest] : Ascending(at) /\ Covers(at, rest)
  BY <1>1
<1> DEFINE new == [i \in 1 .. m + 1 |-> IF i = m + 1 THEN n + 1 ELSE at[i]]
<1>3. m \in Nat /\ m + 1 \in 0 .. n + 1
  BY <1>1
<1>4. \A i \in 1 .. m + 1 : i = m + 1 \/ i \in 1 .. m
  BY <1>3
<1>5. \A i \in 1 .. m : i # m + 1 /\ i \in 1 .. m + 1 /\ at[i] \in rest /\ at[i] < n + 1
  <2>1. \A p \in rest : p < n + 1
    OBVIOUS
  <2>2. \A i \in 1 .. m : at[i] \in rest
    BY <1>2
  <2> HIDE DEF rest
  <2>3. QED
    BY <1>3, <2>1, <2>2
<1>6. new \in [1 .. m + 1 -> positions]
  BY <1>4, <1>5
<1>7. Ascending(new)
  <2>1. ASSUME NEW i \in 1 .. m + 1, NEW j \in 1 .. m + 1, i < j
        PROVE  new[i] < new[j]
    <3>1. i \in 1 .. m
      BY <1>3, <2>1
    <3>2. CASE j = m + 1
      BY <1>5, <3>1, <3>2
    <3>3. CASE j # m + 1
      <4>1. j \in 1 .. m
        BY <1>4, <3>3
      <4>2. at[i] < at[j]
        BY <1>2, <2>1, <3>1, <4>1 DEF Ascending
      <4>3. QED
        BY <1>5, <3>1, <4>1, <4>2
    <3>4. QED
      BY <3>2, <3>3
  <2>2. QED
    BY <2>1 DEF Ascending
<1>8. Covers(new, positions)
  <2>1. ASSUME NEW p \in positions PROVE \E i \in 1 .. m + 1 : new[i] = p
    <3>1. CASE p = n + 1
      BY <1>3, <3>1
    <3>2. CASE p # n + 1
      <4>1. PICK i \in 1 .. m : at[i] = p
        BY <1>2, <3>2 DEF Covers
      <4>2. QED
        BY <1>5, <4>1
    <3>3. QED
      BY <3>1, <3>2
  <2>2. QED
    BY <2>1 DEF Covers
<1>9. QED
  <2> HIDE DEF new
  <2>1. QED
    BY <1>3, <1>6, <1>7, <1>8 DEF Ordered

\* Positions can be put in order: there is no least bound for which they cannot.
LEMMA OrderExists ==
  ASSUME NEW n \in Nat, NEW positions \in SUBSET (1 .. n)
  PROVE  Ordered(positions, n)
<1> DEFINE T == {m \in Nat : \E S \in SUBSET (1 .. m) : ~ Ordered(S, m)}
<1>1. SUFFICES ASSUME T # {} PROVE FALSE
  OBVIOUS
<1>2. PICK m \in T : \A y \in T : ~ <<y, m>> \in OpToRel(<, Nat)
  <2>1. T \subseteq Nat
    OBVIOUS
  <2> HIDE DEF T
  <2>2. QED
    BY <1>1, <2>1, WFMin, NatLessThanWellFounded
<1>3. m \in Nat /\ \A y \in T : ~ (y < m)
  BY <1>2 DEF OpToRel
<1>4. PICK S \in SUBSET (1 .. m) : ~ Ordered(S, m)
  BY <1>2
<1>5. CASE m = 0
  <2>1. S = {}
    BY <1>4, <1>5
  <2>2. <<>> \in [1 .. 0 -> S] /\ DOMAIN <<>> = {}
    OBVIOUS
  <2>3. Ascending(<<>>) /\ Covers(<<>>, S)
    BY <2>1, <2>2 DEF Ascending, Covers
  <2>4. 0 \in 0 .. m
    BY <1>5
  <2>5. QED
    BY <1>4, <2>2, <2>3, <2>4 DEF Ordered
<1>6. CASE m # 0
  <2> DEFINE p == m - 1
  <2>1. p \in Nat /\ p + 1 = m /\ p < m
    BY <1>3, <1>6
  <2>2. \A R \in SUBSET (1 .. p) : Ordered(R, p)
    BY <1>3, <2>1
  <2> HIDE DEF p, T
  <2>3. S \ {m} \in SUBSET (1 .. p)
    BY <1>3, <2>1
  <2>4. CASE m \in S
    BY <1>4, <2>1, <2>2, <2>3, <2>4, OneMore
  <2>5. CASE m \notin S
    <3>1. Ordered(S, p) /\ 0 .. p \subseteq 0 .. m
      BY <1>3, <2>1, <2>2, <2>3, <2>5
    <3>2. QED
      BY <1>4, <3>1 DEF Ordered
  <2>6. QED
    BY <2>4, <2>5
<1>7. QED
  BY <1>5, <1>6

LEMMA UnexpiredFacts ==
  ASSUME NEW s \in Seq(Version)
  PROVE  /\ Unexpired(s) \in Seq(Version)
         /\ \E at \in [DOMAIN Unexpired(s) -> DOMAIN s] :
              /\ Ascending(at)
              /\ \A i \in DOMAIN at : Unexpired(s)[i] = s[at[i]]
              /\ \A n \in DOMAIN s : s[n].expired \/ \E i \in DOMAIN at : at[i] = n
<1> DEFINE n == Len(s)
           keep == {i \in DOMAIN s : ~ s[i].expired}
           at == InOrder(keep, n)
<1>1. n \in Nat /\ DOMAIN s = 1 .. n /\ keep \in SUBSET (1 .. n)
      /\ \A i \in DOMAIN s : s[i] \in Version
  BY SeqParts
<1>2. Ordered(keep, n)
  <2> HIDE DEF keep, n
  <2>1. QED
    BY <1>1, OrderExists
<1>3. /\ at \in UNION {[1 .. m -> keep] : m \in 0 .. n}
      /\ Ascending(at) /\ Covers(at, keep)
  <2> HIDE DEF keep, n
  <2>1. QED
    BY <1>2 DEF Ordered, InOrder, Ascending, Covers
<1>4. PICK m \in 0 .. n : at \in [1 .. m -> keep]
  BY <1>3
<1>5. Unexpired(s) = [i \in DOMAIN at |-> s[at[i]]]
  BY DEF Unexpired
<1> HIDE DEF at
<1>6. DOMAIN Unexpired(s) = 1 .. m /\ DOMAIN at = 1 .. m /\ m \in Nat
      /\ \A i \in 1 .. m : at[i] \in DOMAIN s /\ Unexpired(s)[i] = s[at[i]]
  BY <1>1, <1>4, <1>5
<1>7. Unexpired(s) \in [1 .. m -> Version]
  BY <1>1, <1>5, <1>6
<1>8. Unexpired(s) \in Seq(Version)
  BY <1>6, <1>7, FunctionIsSeq
<1>9. at \in [DOMAIN Unexpired(s) -> DOMAIN s]
  BY <1>4, <1>6
<1>10. \A i \in DOMAIN s : s[i].expired \/ \E j \in DOMAIN at : at[j] = i
  BY <1>3 DEF Covers
<1>11. \A i \in DOMAIN at : Unexpired(s)[i] = s[at[i]]
  BY <1>6
<1>12. QED
  BY <1>3, <1>8, <1>9, <1>10, <1>11

\* Retention leaves of the active versions at most what was there.
LEMMA UnexpiredActive ==
  ASSUME NEW s \in Seq(Version)
  PROVE  /\ (\A i, j \in Active(s) : i = j) => \A i, j \in Active(Unexpired(s)) : i = j
         /\ ActiveVals(Unexpired(s)) \subseteq ActiveVals(s)
         /\ Active(s) = {} => Active(Unexpired(s)) = {}
<1> DEFINE t == Unexpired(s)
<1>1. PICK at \in [DOMAIN t -> DOMAIN s] :
        /\ Ascending(at)
        /\ \A i \in DOMAIN at : t[i] = s[at[i]]
  BY UnexpiredFacts
<1>2. t \in Seq(Version)
  BY UnexpiredFacts
<1> HIDE DEF t
<1>3. \A i \in Active(t) : i \in DOMAIN t /\ at[i] \in Active(s) /\ t[i] = s[at[i]]
  BY <1>1 DEF Active
<1>4. ASSUME \A i, j \in Active(s) : i = j, NEW i \in Active(t), NEW j \in Active(t)
      PROVE  i = j
  <2>1. at[i] = at[j]
    BY <1>3, <1>4
  <2>2. i \in Int /\ j \in Int /\ at[i] \in Int /\ at[j] \in Int
    BY <1>1, <1>2, <1>3, SeqParts
  <2>3. i < j => at[i] < at[j]
    BY <1>1, <1>3 DEF Ascending
  <2>4. j < i => at[j] < at[i]
    BY <1>1, <1>3 DEF Ascending
  <2>5. QED
    BY <2>1, <2>2, <2>3, <2>4
<1>5. QED
  BY <1>3, <1>4 DEF ActiveVals, t

\* Time passes.
Aged(s) == [i \in DOMAIN s |-> [s[i] EXCEPT !.expired = TRUE]]

LEMMA AgedFacts ==
  ASSUME NEW s \in Seq(Version)
  PROVE  /\ Aged(s) \in Seq(Version) /\ Active(Aged(s)) = Active(s)
         /\ ActiveVals(Aged(s)) = ActiveVals(s)
<1>1. \A i \in DOMAIN s : /\ s[i] \in Version /\ Aged(s)[i] \in Version
                          /\ Aged(s)[i].open = s[i].open /\ Aged(s)[i].val = s[i].val
  <2>1. ASSUME NEW i \in DOMAIN s
        PROVE  s[i] \in Version /\ Aged(s)[i] = [s[i] EXCEPT !.expired = TRUE]
    BY SeqParts DEF Aged
  <2>2. \A v \in Version : LET w == [v EXCEPT !.expired = TRUE]
                          IN  w \in Version /\ w.open = v.open /\ w.val = v.val
    BY DEF Version
  <2> HIDE DEF Aged
  <2>3. QED
    BY <2>1, <2>2
<1>2. Aged(s) \in Seq(Version) /\ DOMAIN Aged(s) = DOMAIN s
  <2>1. Aged(s) = [i \in DOMAIN s |-> Aged(s)[i]]
    BY DEF Aged
  <2> HIDE DEF Aged
  <2>2. QED
    BY <1>1, <2>1, ChangedInPlace
<1>3. QED
  BY <1>1, <1>2 DEF Active, ActiveVals

-----------------------------------------------------------------------------
(* Row events applied to the versions.                                     *)

\* What the closing MERGE leaves active of the keys that have an event.
ClosedBy(rows, events) ==
    \A k \in Keys : events[k] # NoEvent =>
        \A i \in Active(rows[k]) : rows[k][i].val = events[k].val /\ events[k].op # "delete"

LEMMA NewVersionType ==
  ASSUME NEW e \in Event, e # NoEvent
  PROVE  /\ NewVersion(e) \in Version /\ NewVersion(e).open
         /\ NewVersion(e).val = e.val /\ e.val \in Vals
         /\ NewVersion(e) = History!Fresh(e.val)
BY EventParts DEF NewVersion, Version, History!Fresh

LEMMA CloseFacts ==
  ASSUME NEW rows \in [Keys -> Seq(Version)], NEW events \in Events
  PROVE  LET new == CloseVersions(rows, events)
         IN  /\ new \in [Keys -> Seq(Version)] /\ ClosedBy(new, events)
             /\ \A k \in Keys :
                  /\ events[k] = NoEvent => new[k] = rows[k]
                  /\ DOMAIN new[k] = DOMAIN rows[k]
                  /\ Active(new[k]) \subseteq Active(rows[k])
                  /\ \A i \in DOMAIN rows[k] :
                       \/ new[k][i] = rows[k][i]
                       \/ rows[k][i].open /\ new[k][i] = History!Closed(rows[k][i])
<1> DEFINE new == CloseVersions(rows, events)
<1>1. ASSUME NEW k \in Keys
      PROVE  /\ new[k] \in Seq(Version) /\ DOMAIN new[k] = DOMAIN rows[k]
             /\ events[k] = NoEvent => new[k] = rows[k]
             /\ Active(new[k]) \subseteq Active(rows[k])
             /\ \A i \in DOMAIN rows[k] :
                  \/ new[k][i] = rows[k][i]
                  \/ rows[k][i].open /\ new[k][i] = History!Closed(rows[k][i])
             /\ events[k] # NoEvent => \A i \in Active(new[k]) :
                  new[k][i].val = events[k].val /\ events[k].op # "delete"
  <2> DEFINE s == rows[k]
             e == events[k]
             Differs(v) == v.open /\ e # NoEvent /\ (v.val # e.val \/ e.op = "delete")
  <2>1. s \in Seq(Version) /\ \A i \in DOMAIN s : s[i] \in Version
    BY SeqParts
  <2>2. new[k] = [i \in DOMAIN s |-> IF Differs(s[i])
                                     THEN [s[i] EXCEPT !.open = FALSE, !.expired = FALSE]
                                     ELSE s[i]]
    BY DEF CloseVersions
  <2> HIDE DEF new, s, e
  <2>3. ASSUME NEW i \in DOMAIN s
        PROVE  /\ new[k][i] \in Version
               /\ Differs(s[i]) => new[k][i] = History!Closed(s[i]) /\ ~ new[k][i].open
               /\ ~ Differs(s[i]) => new[k][i] = s[i]
    BY <2>1, <2>2 DEF Version, History!Closed
  <2>4. new[k] \in Seq(Version) /\ DOMAIN new[k] = DOMAIN s
    <3>1. new[k] = [i \in DOMAIN s |-> new[k][i]]
      BY <2>2
    <3>2. QED
      BY <2>1, <2>3, <3>1, ChangedInPlace
  <2>5. e = NoEvent => new[k] = s
    <3>1. new[k] = [i \in DOMAIN s |-> new[k][i]] /\ s = [i \in DOMAIN s |-> s[i]]
      BY <2>1, <2>2, SeqParts
    <3>2. QED
      BY <2>3, <3>1
  <2>6. \A i \in Active(new[k]) : i \in DOMAIN s /\ new[k][i] = s[i] /\ ~ Differs(s[i]) /\ s[i].open
    BY <2>3, <2>4 DEF Active
  <2>7. QED
    BY <2>3, <2>4, <2>5, <2>6 DEF Active, s, e
<1>2. new \in [Keys -> Seq(Version)]
  BY <1>1 DEF CloseVersions
<1>3. QED
  <2> HIDE DEF new
  <2>1. ClosedBy(new, events)
    BY <1>1 DEF ClosedBy
  <2>2. QED
    BY <1>1, <1>2, <2>1 DEF new

LEMMA CloseCloses ==
  ASSUME NEW rows \in [Keys -> Seq(Version)], NEW events \in Events
  PROVE  /\ ClosedBy(CloseVersions(rows, events), events)
         /\ \A k \in Keys : Active(CloseVersions(rows, events)[k]) \subseteq Active(rows[k])
<1> DEFINE new == CloseVersions(rows, events)
<1>1. ClosedBy(new, events) /\ \A k \in Keys : Active(new[k]) \subseteq Active(rows[k])
  BY CloseFacts
<1>2. QED
  BY <1>1

LEMMA InsertFacts ==
  ASSUME NEW rows \in [Keys -> Seq(Version)], NEW events \in Events
  PROVE  LET new == InsertVersions(rows, events)
         IN  /\ new \in [Keys -> Seq(Version)]
             /\ \A k \in Keys :
                  /\ new[k] = rows[k] \/ \E v \in Vals : new[k] = Append(rows[k], History!Fresh(v))
                  /\ events[k] = NoEvent \/ events[k].op = "delete" => new[k] = rows[k]
             /\ ClosedBy(rows, events) =>
                  \A k \in Keys :
                    /\ (\A i, j \in Active(rows[k]) : i = j) => \A i, j \in Active(new[k]) : i = j
                    /\ events[k].op = "delete" => ActiveVals(new[k]) = {}
                    /\ events[k].op \in {"insert", "update"} => ActiveVals(new[k]) = {events[k].val}
<1> DEFINE new == InsertVersions(rows, events)
<1>1. ASSUME NEW k \in Keys
      PROVE  /\ new[k] \in Seq(Version)
             /\ new[k] = rows[k] \/ \E v \in Vals : new[k] = Append(rows[k], History!Fresh(v))
             /\ events[k] = NoEvent \/ events[k].op = "delete" => new[k] = rows[k]
             /\ ClosedBy(rows, events) =>
                  /\ (\A i, j \in Active(rows[k]) : i = j) => \A i, j \in Active(new[k]) : i = j
                  /\ events[k].op = "delete" => ActiveVals(new[k]) = {}
                  /\ events[k].op \in {"insert", "update"} => ActiveVals(new[k]) = {events[k].val}
  <2> DEFINE s == rows[k]
             e == events[k]
             t == Append(s, NewVersion(e))
             Inserted == /\ e.op \in {"insert", "update"}
                         /\ \A i \in Active(s) : s[i].val # e.val
  <2>1. s \in Seq(Version) /\ e \in Event
    BY DEF Events
  <2>2. new[k] = IF Inserted THEN t ELSE s
    BY DEF InsertVersions
  <2>3. ClosedBy(rows, events) /\ e # NoEvent =>
          \A i \in Active(s) : s[i].val = e.val /\ e.op # "delete"
    BY DEF ClosedBy
  <2>4. e.op \in {"insert", "update", "delete"} => e # NoEvent
    BY DEF NoEvent
  <2>5. e = NoEvent => e.op = "none"
    BY DEF NoEvent
  <2> HIDE DEF new, s, e
  <2>6. CASE Inserted
    <3>1. NewVersion(e) \in Version /\ NewVersion(e).open /\ NewVersion(e).val = e.val
          /\ e.val \in Vals /\ NewVersion(e) = History!Fresh(e.val)
      BY <2>1, <2>4, <2>6, NewVersionType
    <3>2. t \in Seq(Version)
          /\ (Active(s) = {} => (\A i, j \in Active(t) : i = j) /\ ActiveVals(t) = {e.val})
      BY <2>1, <3>1, VersionAdded
    <3>3. ClosedBy(rows, events) => Active(s) = {}
      BY <2>3, <2>4, <2>6
    <3>4. new[k] = t /\ e.op \in {"insert", "update"} /\ e.op # "delete" /\ e # NoEvent
      BY <2>2, <2>4, <2>6
    <3>5. \E v \in Vals : t = Append(s, History!Fresh(v))
      BY <3>1
    <3> HIDE DEF t
    <3>6. /\ new[k] \in Seq(Version)
          /\ new[k] = s \/ \E v \in Vals : new[k] = Append(s, History!Fresh(v))
          /\ e = NoEvent \/ e.op = "delete" => new[k] = s
      BY <3>2, <3>4, <3>5
    <3>7. ASSUME ClosedBy(rows, events)
          PROVE  (\A i, j \in Active(new[k]) : i = j) /\ ActiveVals(new[k]) = {e.val}
      BY <3>2, <3>3, <3>4, <3>7
    <3>8. QED
      BY <3>4, <3>6, <3>7 DEF s, e
  <2>7. CASE ~ Inserted
    <3>1. new[k] = s
      BY <2>2, <2>7
    <3>2. ClosedBy(rows, events) /\ e.op = "delete" => ActiveVals(s) = {}
      BY <2>3, <2>4 DEF ActiveVals
    <3>3. ClosedBy(rows, events) /\ e.op \in {"insert", "update"} => ActiveVals(s) = {e.val}
      <4>1. ASSUME ClosedBy(rows, events), e.op \in {"insert", "update"}
            PROVE  ActiveVals(s) = {e.val}
        <5>1. \A i \in Active(s) : s[i].val = e.val
          BY <2>3, <2>4, <4>1
        <5>2. Active(s) # {}
          BY <2>7, <4>1
        <5>3. QED
          BY <5>1, <5>2 DEF ActiveVals
      <4>2. QED
        BY <4>1
    <3>4. QED
      BY <2>1, <3>1, <3>2, <3>3 DEF s, e
  <2>8. QED
    BY <2>6, <2>7
<1>2. new \in [Keys -> Seq(Version)]
  BY <1>1 DEF InsertVersions
<1>3. QED
  <2> HIDE DEF new
  <2>1. QED
    BY <1>1, <1>2 DEF new

LEMMA InsertAdds ==
  ASSUME NEW rows \in [Keys -> Seq(Version)], NEW events \in Events, NEW k \in Keys
  PROVE  \/ InsertVersions(rows, events)[k] = rows[k]
         \/ \E v \in Vals : InsertVersions(rows, events)[k] = Append(rows[k], History!Fresh(v))
<1> DEFINE new == InsertVersions(rows, events)
<1>1. new[k] = rows[k] \/ \E v \in Vals : new[k] = Append(rows[k], History!Fresh(v))
  BY InsertFacts
<1>2. QED
  BY <1>1

LEMMA InitialFacts ==
  ASSUME NEW events \in Events
  PROVE  LET new == InitialVersions(events)
         IN  /\ new \in [Keys -> Seq(Version)]
             /\ \A k \in Keys :
                  /\ new[k] = <<>> \/ \E v \in Vals : new[k] = Append(<<>>, History!Fresh(v))
                  /\ \A i, j \in Active(new[k]) : i = j
                  /\ events[k] = NoEvent => ActiveVals(new[k]) = {}
                  /\ events[k] # NoEvent => ActiveVals(new[k]) = {events[k].val}
<1> DEFINE new == InitialVersions(events)
<1>1. ASSUME NEW k \in Keys
      PROVE  /\ new[k] \in Seq(Version)
             /\ new[k] = <<>> \/ \E v \in Vals : new[k] = Append(<<>>, History!Fresh(v))
             /\ \A i, j \in Active(new[k]) : i = j
             /\ events[k] = NoEvent => ActiveVals(new[k]) = {}
             /\ events[k] # NoEvent => ActiveVals(new[k]) = {events[k].val}
  <2>1. CASE events[k] = NoEvent
    <3>1. new[k] = <<>>
      BY <2>1 DEF InitialVersions
    <3>2. QED
      BY <2>1, <3>1, EmptyVersions
  <2>2. CASE events[k] # NoEvent
    <3> DEFINE v == NewVersion(events[k])
               t == Append(<<>>, v)
    <3>1. events[k] \in Event
      BY DEF Events
    <3>2. v \in Version /\ v.open /\ v.val = events[k].val /\ events[k].val \in Vals
          /\ v = History!Fresh(events[k].val)
      BY <2>2, <3>1, NewVersionType
    <3>3. new[k] = <<v>>
      BY <2>2 DEF InitialVersions
    <3> HIDE DEF v, new
    <3>4. new[k] = t
      BY <3>3
    <3>5. t \in Seq(Version) /\ (\A i, j \in Active(t) : i = j) /\ ActiveVals(t) = {v.val}
      BY <3>2, EmptyVersions, VersionAdded
    <3>6. \E w \in Vals : t = Append(<<>>, History!Fresh(w))
      BY <3>2
    <3> HIDE DEF t
    <3>7. QED
      BY <2>2, <3>2, <3>4, <3>5, <3>6
  <2>3. QED
    BY <2>1, <2>2
<1>2. new \in [Keys -> Seq(Version)]
  BY <1>1 DEF InitialVersions
<1>3. QED
  <2> HIDE DEF new
  <2>1. QED
    BY <1>1, <1>2 DEF new

-----------------------------------------------------------------------------
(* What the steps of the load and of retention do to the tables.           *)

LoadStep ==
    \/ RejectLoadType \/ BeginRun \/ NoChanges \/ ReadEvents \/ RebuildTarget \/ CreateTarget
    \/ FillTarget \/ CloseChanged \/ InsertNew \/ Register \/ FailInLoad

Cleanup == Expire \/ Retention

LEMMA LoadStepKept ==
  ASSUME Typed, LoadStep \/ Cleanup
  PROVE  /\ UNCHANGED <<source, feed, full, incr, changes, job, known>>
         /\ StagingInv' /\ StagedEvents' = StagedEvents
<1> USE DEF LoadStep, Cleanup, RejectLoadType, BeginRun, NoChanges, ReadEvents, RebuildTarget,
            CreateTarget, FillTarget, CloseChanged, InsertNew, Register, FailInLoad, Expire,
            Retention
<1>1. UNCHANGED <<source, feed, full, incr, changes, job, known>>
  BY DEF environment, stagingTables, stagingVars, lasting
<1>2. faults' \in Nat
  BY DEF Typed, StagingInv, StagingTyped, StagingTypeOK, stagingVars
<1>3. pc' \notin Unstamped /\ (pc' \in {"idle", "version"} \/ pc \notin BeforeIncr)
  BY DEF GoTo, EndRun, Unstamped, BeforeIncr, BeforeFull, stagingVars
<1>4. StagingInv'
  BY <1>1, <1>2, <1>3, StagingKept DEF Typed
<1>5. QED
  BY <1>1, <1>4 DEF StagedEvents, Live

LEMMA StagedEventsType ==
  ASSUME Typed, pc \notin BeforeIncr
  PROVE  StagedEvents \in Events
<1>1. source.rows \in Rows /\ incr \in IncrTable
  BY DEF Typed, StagingInv, StagingTyped, StagingTypeOK, Exists
<1>2. QED
  BY <1>1, InsertsType DEF StagedEvents, IncrTable

LEMMA TargetParts ==
  ASSUME Typed
  PROVE  /\ feed.layout \in Layouts /\ target \in TargetTable \cup {NoTable}
         /\ TargetRows \in [Keys -> Seq(Version)]
         /\ target # NoTable =>
              /\ target \in TargetTable
              /\ target.rows \in [Keys -> Seq(Version)] /\ TargetRows = target.rows
              /\ target.layout \in Layouts /\ target.loadType \in LoadTypes
BY EmptyVersions DEF Typed, TargetType, TargetRows, TargetTable, Exists, StagingInv, StagingTyped,
   StagingTypeOK

\* A target whose rows are replaced, in place or by a new table.
LEMMA RowsReplaced ==
  ASSUME NEW t \in TargetTable, NEW rows \in [Keys -> Seq(Version)]
  PROVE  LET new == [t EXCEPT !.rows = rows]
         IN  /\ new \in TargetTable /\ new # NoTable /\ new.rows = rows
             /\ new.layout = t.layout
BY TargetAssumption DEF TargetTable

LEMMA FreshTable ==
  ASSUME NEW rows \in [Keys -> Seq(Version)], NEW layout \in Layouts
  PROVE  LET new == [rows |-> rows, layout |-> layout, loadType |-> "none"]
         IN  new \in TargetTable /\ new # NoTable
BY TargetAssumption DEF TargetTable, LoadTypes

LEMMA RowsKept ==
  ASSUME Typed, BeginRun \/ RebuildTarget \/ CreateTarget \/ Register
  PROVE  /\ target' \in TargetTable \cup {NoTable} /\ TargetRows' = TargetRows
         /\ ~ BeginRun => target' # NoTable
         /\ BeginRun => (target' = NoTable <=> target = NoTable)
         /\ CreateTarget => target'.rows = NoRows
         /\ (BeginRun \/ Register) /\ target # NoTable => target'.layout = target.layout
<1>1. feed.layout \in Layouts /\ target \in TargetTable \cup {NoTable}
      /\ (target # NoTable => target \in TargetTable /\ target.rows \in [Keys -> Seq(Version)]
                              /\ TargetRows = target.rows)
  BY TargetParts
<1>2. target = NoTable => TargetRows = NoRows
  BY DEF TargetRows, Exists
<1>3. TargetRows' = IF target' = NoTable THEN NoRows ELSE target'.rows
  BY DEF TargetRows, Exists
<1> HIDE DEF TargetRows
<1>4. CASE BeginRun \/ Register
  <2>1. \/ target = NoTable /\ target' = NoTable /\ BeginRun
        \/ target # NoTable /\ target' = [target EXCEPT !.loadType = "SCD_TYPE_2"]
    BY <1>4 DEF BeginRun, Register, Exists, Typed, TargetType
  <2>2. ~ CreateTarget
    BY <1>4 DEF BeginRun, Register, CreateTarget
  <2>3. CASE target = NoTable
    BY <1>2, <1>3, <2>1, <2>2, <2>3
  <2>4. CASE target # NoTable
    <3> DEFINE new == [target EXCEPT !.loadType = "SCD_TYPE_2"]
    <3>1. new \in TargetTable /\ new # NoTable /\ new.rows = target.rows
          /\ new.layout = target.layout
      BY <1>1, <2>4, TargetAssumption DEF TargetTable, LoadTypes
    <3>2. QED
      BY <1>1, <1>3, <2>1, <2>2, <2>4, <3>1
  <2>5. QED
    BY <2>3, <2>4
<1>5. CASE RebuildTarget
  <2>1. target # NoTable /\ target' = [rows |-> target.rows, layout |-> feed.layout,
                                       loadType |-> "none"]
        /\ ~ CreateTarget /\ ~ BeginRun /\ ~ Register
    BY <1>5 DEF RebuildTarget, Typed, TargetType, CreateTarget, BeginRun, Register
  <2>2. target' \in TargetTable /\ target' # NoTable
    BY <1>1, <2>1, FreshTable
  <2>3. QED
    BY <1>1, <1>3, <2>1, <2>2
<1>6. CASE CreateTarget
  <2>1. target = NoTable /\ target' = [rows |-> NoRows, layout |-> feed.layout,
                                       loadType |-> "none"]
        /\ ~ BeginRun /\ ~ Register
    BY <1>6 DEF CreateTarget, Typed, TargetType, BeginRun, Register
  <2>2. target' \in TargetTable /\ target' # NoTable
    BY <1>1, <2>1, FreshTable, EmptyVersions
  <2>3. QED
    BY <1>2, <1>3, <2>1, <2>2
<1>7. QED
  BY <1>4, <1>5, <1>6

LEMMA RowsChanged ==
  ASSUME Typed, NEW rows \in [Keys -> Seq(Version)], target # NoTable,
         target' = [target EXCEPT !.rows = rows]
  PROVE  /\ target' \in TargetTable /\ target' # NoTable
         /\ target'.rows = rows /\ TargetRows' = rows /\ target'.layout = target.layout
<1>1. target \in TargetTable
  BY TargetParts
<1>2. target' \in TargetTable /\ target' # NoTable /\ target'.rows = rows
      /\ target'.layout = target.layout
  BY <1>1, RowsReplaced
<1>3. QED
  BY <1>2 DEF TargetRows, Exists

LEMMA MergeStepRows ==
  ASSUME Typed, FillTarget \/ CloseChanged \/ InsertNew
  PROVE  /\ target' \in TargetTable /\ target # NoTable /\ target' # NoTable
         /\ target'.layout = target.layout /\ StagedEvents \in Events
         /\ target.rows \in [Keys -> Seq(Version)] /\ TargetRows = target.rows
         /\ TargetRows' = target'.rows
         /\ FillTarget => target'.rows = InitialVersions(StagedEvents)
         /\ CloseChanged => target'.rows = CloseVersions(target.rows, StagedEvents)
         /\ InsertNew => target'.rows = InsertVersions(target.rows, StagedEvents)
<1>1. StagedEvents \in Events /\ target # NoTable
  BY StagedEventsType DEF FillTarget, CloseChanged, InsertNew, BeforeIncr, BeforeFull, Typed,
     TargetType
<1>2. target.rows \in [Keys -> Seq(Version)] /\ TargetRows = target.rows
  BY <1>1, TargetParts
<1>3. pc \in {"fill", "close", "insert"} /\ (FillTarget => pc = "fill")
      /\ (CloseChanged => pc = "close") /\ (InsertNew => pc = "insert")
  BY DEF FillTarget, CloseChanged, InsertNew
<1>4. CASE FillTarget
  <2> DEFINE rows == InitialVersions(StagedEvents)
  <2>1. rows \in [Keys -> Seq(Version)] /\ target' = [target EXCEPT !.rows = rows]
    BY <1>1, <1>4, InitialFacts DEF FillTarget
  <2> HIDE DEF rows
  <2>2. target' \in TargetTable /\ target' # NoTable /\ target'.rows = rows
        /\ TargetRows' = rows /\ target'.layout = target.layout
    BY <1>1, <2>1, RowsChanged
  <2>3. QED
    BY <1>1, <1>2, <1>3, <1>4, <2>2 DEF rows
<1>5. CASE CloseChanged
  <2> DEFINE rows == CloseVersions(target.rows, StagedEvents)
  <2>1. rows \in [Keys -> Seq(Version)] /\ target' = [target EXCEPT !.rows = rows]
    BY <1>1, <1>2, <1>5, CloseFacts DEF CloseChanged
  <2> HIDE DEF rows
  <2>2. target' \in TargetTable /\ target' # NoTable /\ target'.rows = rows
        /\ TargetRows' = rows /\ target'.layout = target.layout
    BY <1>1, <2>1, RowsChanged
  <2>3. QED
    BY <1>1, <1>2, <1>3, <1>5, <2>2 DEF rows
<1>6. CASE InsertNew
  <2> DEFINE rows == InsertVersions(target.rows, StagedEvents)
  <2>1. rows \in [Keys -> Seq(Version)] /\ target' = [target EXCEPT !.rows = rows]
    BY <1>1, <1>2, <1>6, InsertFacts DEF InsertNew
  <2> HIDE DEF rows
  <2>2. target' \in TargetTable /\ target' # NoTable /\ target'.rows = rows
        /\ TargetRows' = rows /\ target'.layout = target.layout
    BY <1>1, <2>1, RowsChanged
  <2>3. QED
    BY <1>1, <1>2, <1>3, <1>6, <2>2 DEF rows
<1>7. QED
  BY <1>4, <1>5, <1>6

LEMMA CleanupRows ==
  ASSUME Typed, Cleanup
  PROVE  /\ target' \in TargetTable /\ target # NoTable /\ target' # NoTable
         /\ target'.layout = target.layout
         /\ target.rows \in [Keys -> Seq(Version)] /\ TargetRows = target.rows
         /\ TargetRows' = target'.rows
         /\ \/ target'.rows = [k \in Keys |-> Aged(target.rows[k])]
            \/ target'.rows = [k \in Keys |-> Unexpired(target.rows[k])]
         /\ Expire => target'.rows = [k \in Keys |-> Aged(target.rows[k])]
         /\ Retention => target'.rows = [k \in Keys |-> Unexpired(target.rows[k])]
<1>1. target # NoTable
  BY DEF Cleanup, Expire, Retention, Exists
<1>2. target.rows \in [Keys -> Seq(Version)] /\ TargetRows = target.rows
  BY <1>1, TargetParts
<1>3. ASSUME Expire PROVE target'.rows = [k \in Keys |-> Aged(target.rows[k])]
                          /\ target' \in TargetTable /\ target' # NoTable
                          /\ target'.layout = target.layout /\ TargetRows' = target'.rows
  <2> DEFINE rows == [k \in Keys |-> Aged(target.rows[k])]
  <2>1. target' = [target EXCEPT !.rows = rows]
    BY <1>3 DEF Expire, Aged
  <2>2. rows \in [Keys -> Seq(Version)]
    BY <1>2, AgedFacts
  <2> HIDE DEF rows
  <2>3. target' \in TargetTable /\ target' # NoTable /\ target'.rows = rows
        /\ TargetRows' = rows /\ target'.layout = target.layout
    BY <1>1, <2>1, <2>2, RowsChanged
  <2>4. QED
    BY <2>3 DEF rows
<1>4. ASSUME Retention PROVE target'.rows = [k \in Keys |-> Unexpired(target.rows[k])]
                             /\ target' \in TargetTable /\ target' # NoTable
                             /\ target'.layout = target.layout /\ TargetRows' = target'.rows
  <2> DEFINE rows == [k \in Keys |-> Unexpired(target.rows[k])]
  <2>1. target' = [target EXCEPT !.rows = rows]
    BY <1>4 DEF Retention
  <2>2. rows \in [Keys -> Seq(Version)]
    BY <1>2, UnexpiredFacts
  <2> HIDE DEF rows
  <2>3. target' \in TargetTable /\ target' # NoTable /\ target'.rows = rows
        /\ TargetRows' = rows /\ target'.layout = target.layout
    BY <1>1, <2>1, <2>2, RowsChanged
  <2>4. QED
    BY <2>3 DEF rows
<1>5. QED
  BY <1>1, <1>2, <1>3, <1>4 DEF Cleanup

-----------------------------------------------------------------------------
(* Types.                                                                  *)

LEMMA LoadStepType ==
  ASSUME Typed, LoadStep \/ Cleanup
  PROVE  TargetType'
<1> USE DEF TargetType, StagingSteps, LoadSteps
<1>1. target \in TargetTable \cup {NoTable} /\ TargetType
  BY DEF Typed
<1>2. UNCHANGED known
  BY LoadStepKept
<1>3. CASE RejectLoadType \/ NoChanges \/ ReadEvents \/ FailInLoad
  BY <1>1, <1>2, <1>3 DEF RejectLoadType, NoChanges, ReadEvents, FailInLoad, GoTo, EndRun, ofRun,
     lasting, Forgotten, Exists, TargetMismatch
<1>4. CASE BeginRun \/ RebuildTarget \/ CreateTarget \/ Register
  <2>1. target' \in TargetTable \cup {NoTable} /\ (~ BeginRun => target' # NoTable)
        /\ (CreateTarget => target'.rows = NoRows)
    BY <1>4, RowsKept
  <2>2. \/ BeginRun /\ pc' = "version" /\ result' = result
        \/ CreateTarget /\ ~ BeginRun /\ pc' = "fill" /\ result' = result
        \/ pc' = "idle" /\ result' \in {"loaded", "failed"}
    BY <1>4 DEF BeginRun, RebuildTarget, CreateTarget, Register, GoTo, EndRun
  <2>3. changed' \in {changed, {}} /\ purged' = purged /\ torn' = torn
        /\ raced' \in BOOLEAN /\ disturbed' \in BOOLEAN
    BY <1>1, <1>4 DEF BeginRun, RebuildTarget, CreateTarget, Register, ofRun, lasting, Forgotten
  <2>4. QED
    BY <1>1, <1>2, <2>1, <2>2, <2>3
<1>5. CASE FillTarget \/ CloseChanged \/ InsertNew
  <2>1. target' \in TargetTable /\ target' # NoTable
    BY <1>5, MergeStepRows
  <2>2. \/ pc' \in {"insert", "register"} /\ result' = result
        \/ pc' = "idle" /\ result' = "loaded"
    BY <1>5 DEF FillTarget, CloseChanged, InsertNew, GoTo, EndRun
  <2>3. changed' \in {changed, {}} /\ purged' \subseteq purged /\ torn' = torn
        /\ raced' \in BOOLEAN /\ disturbed' \in BOOLEAN
    BY <1>1, <1>5 DEF FillTarget, CloseChanged, InsertNew, ofRun, lasting, Forgotten
  <2>4. QED
    BY <1>1, <1>2, <2>1, <2>2, <2>3
<1>6. CASE Cleanup
  <2>1. target' \in TargetTable /\ target' # NoTable
    BY <1>6, CleanupRows
  <2>2. pc = "idle" /\ pc' = pc /\ result' = result
    BY <1>6 DEF Cleanup, Expire, Retention, stagingVars
  <2>3. changed' = changed /\ purged' \subseteq Keys /\ torn' = torn
        /\ raced' = raced /\ disturbed' = disturbed
    BY <1>1, <1>6 DEF Cleanup, Expire, Retention, ofRun, lasting
  <2>4. QED
    BY <1>1, <1>2, <2>1, <2>2, <2>3
<1>7. QED
  BY <1>3, <1>4, <1>5, <1>6 DEF LoadStep

\* The steps of staging, the source and the specs.
LEMMA OtherStepType ==
  ASSUME Typed, StagingInv', Staging \/ SourceStep \/ SpecsStep \/ FailInStaging
  PROVE  TargetType'
<1>1. target' = target /\ disturbed' \in BOOLEAN /\ raced' \in BOOLEAN /\ torn' \in BOOLEAN
      /\ purged' = purged
  BY DEF Staging, SourceStep, SpecsStep, FailInStaging, ofRun, lasting, Forgotten, Typed,
     TargetType
<1>2. pc' \in StagingSteps \cup LoadSteps /\ (pc' \in LoadSteps => pc' = pc)
      /\ result' \in {"none", "loaded", "skipped", "nochange", "failed"}
  BY DEF Staging, SourceStep, SpecsStep, FailInStaging, StagingStep, SourceCommit,
         ChangePartitionKeys, FailStaging, StagingRaises, NullPartition, ReadVersion, CountSource,
         NoNewData, Restage, SaveFull, StampFull, EnableChangeDataFeed, BeginMerge, MergeFull,
         MergeNothing, NoChangeDataFeed, SaveIncr, SaveChanges, StampMerged, GoTo, EndRun,
         StagingSteps, LoadSteps, Typed, TargetType
<1>3. Exists(full') => full' \in FullTable /\ full'.rows \in Rows
  BY DEF StagingInv, StagingTyped, StagingTypeOK, Exists, FullTable
<1>4. known' \in Rows /\ changed' \subseteq Keys
  BY <1>3 DEF Staging, SourceStep, SpecsStep, FailInStaging, Written, Changing, Forgotten, ofRun,
     lasting, Typed, TargetType
<1>5. QED
  BY <1>1, <1>2, <1>4 DEF Typed, TargetType, LoadSteps

LEMMA TypedStep == Typed /\ [Next]_scdVars => Typed'
<1> SUFFICES ASSUME Typed, [Next]_scdVars PROVE Typed'
  OBVIOUS
<1>1. CASE LoadStep \/ Cleanup
  BY <1>1, LoadStepKept, LoadStepType DEF Typed
<1>2. CASE Staging \/ SourceStep \/ SpecsStep \/ FailInStaging
  <2>1. StagingInv'
    BY <1>2, StagingProgress DEF Staging, SourceStep, SpecsStep, FailInStaging, Typed
  <2>2. QED
    BY <1>2, <2>1, OtherStepType DEF Typed
<1>3. CASE UNCHANGED scdVars
  BY <1>3 DEF scdVars, ofRun, lasting, stagingVars, environment, stagingTables, Typed, StagingInv,
              StagingTyped, StagingTypeOK, StampInv, Synced, Exists, TargetType
<1>4. QED
  BY <1>1, <1>2, <1>3 DEF Next, Run, LoadStep, Cleanup

LEMMA TypedInit == Init => Typed
<1> SUFFICES ASSUME Init PROVE Typed
  OBVIOUS
<1>1. StagingInv /\ pc = "idle" /\ result = "none"
  BY StagingStart DEF Init, StagingInit
<1>2. target \in TargetTable \cup {NoTable}
  BY <1>1, EmptyVersions DEF Init, TargetTable, LoadTypes, StagingInv, StagingTyped, StagingTypeOK
<1>3. known \in Rows
  BY DEF Init, Rows
<1>4. QED
  BY <1>1, <1>2, <1>3 DEF Init, Typed, TargetType, StagingSteps

-----------------------------------------------------------------------------
(* One active version.                                                     *)

AtMostOne(rows) == \A k \in Keys : \A i, j \in Active(rows[k]) : i = j

OneInv ==
    ~ torn /\ target # NoTable =>
      /\ AtMostOne(target.rows)
      /\ pc = "insert" => ClosedBy(target.rows, StagedEvents)

LEMMA OneInit == Init => OneInv
<1> SUFFICES ASSUME Init, target # NoTable PROVE OneInv
  BY DEF OneInv
<1>1. target.rows = NoRows /\ pc = "idle"
  BY DEF Init, StagingInit
<1>2. AtMostOne(NoRows)
  BY EmptyVersions DEF AtMostOne, NoRows
<1>3. QED
  BY <1>1, <1>2 DEF OneInv

LEMMA OneLoad ==
  ASSUME Typed, OneInv, LoadStep \/ Cleanup
  PROVE  OneInv'
<1> SUFFICES ASSUME ~ torn', target' # NoTable
             PROVE  AtMostOne(target.rows)' /\ (pc' = "insert" => ClosedBy(target.rows, StagedEvents)')
  BY DEF OneInv
<1>1. StagedEvents' = StagedEvents
  BY LoadStepKept
<1>2. ~ torn
  BY DEF LoadStep, Cleanup, RejectLoadType, BeginRun, NoChanges, ReadEvents, RebuildTarget,
     CreateTarget, FillTarget, CloseChanged, InsertNew, Register, FailInLoad, Expire, Retention,
     lasting
<1>3. TargetRows = (IF target = NoTable THEN NoRows ELSE target.rows) /\ TargetRows' = target'.rows
  BY DEF TargetRows, Exists
<1>4. AtMostOne(TargetRows)
  BY <1>2, <1>3, EmptyVersions DEF OneInv, AtMostOne, NoRows
<1> HIDE DEF TargetRows
<1>5. CASE RejectLoadType \/ NoChanges \/ ReadEvents \/ FailInLoad
  <2>1. pc' # "insert" /\ target' = target
    BY <1>5 DEF RejectLoadType, NoChanges, ReadEvents, FailInLoad, GoTo, EndRun
  <2>2. QED
    BY <1>3, <1>4, <2>1 DEF AtMostOne
<1>6. CASE BeginRun \/ RebuildTarget \/ CreateTarget \/ Register
  <2>1. pc' # "insert" /\ TargetRows' = TargetRows
    BY <1>6, RowsKept DEF BeginRun, RebuildTarget, CreateTarget, Register, GoTo, EndRun
  <2>2. QED
    BY <1>3, <1>4, <2>1 DEF AtMostOne
<1>7. CASE FillTarget
  <2>1. pc' # "insert" /\ target'.rows = InitialVersions(StagedEvents) /\ StagedEvents \in Events
    BY <1>7, MergeStepRows DEF FillTarget, EndRun
  <2>2. AtMostOne(target.rows)'
    <3> DEFINE rows == InitialVersions(StagedEvents)
    <3>1. \A k \in Keys : \A i, j \in Active(rows[k]) : i = j
      BY <2>1, InitialFacts
    <3> HIDE DEF rows
    <3>2. target'.rows = rows
      BY <2>1 DEF rows
    <3>3. QED
      BY <3>1, <3>2 DEF AtMostOne
  <2>3. QED
    BY <2>1, <2>2
<1>8. CASE CloseChanged
  <2>1. /\ target'.rows = CloseVersions(target.rows, StagedEvents) /\ StagedEvents \in Events
        /\ target.rows \in [Keys -> Seq(Version)] /\ TargetRows = target.rows
    BY <1>8, MergeStepRows
  <2>2. ClosedBy(target'.rows, StagedEvents)
        /\ \A k \in Keys : Active(target'.rows[k]) \subseteq Active(target.rows[k])
    <3>1. /\ ClosedBy(CloseVersions(target.rows, StagedEvents), StagedEvents)
          /\ \A k \in Keys : Active(CloseVersions(target.rows, StagedEvents)[k])
                               \subseteq Active(target.rows[k])
      BY <2>1, CloseCloses
    <3> HIDE DEF ClosedBy
    <3>2. QED
      BY <2>1, <3>1
  <2>3. AtMostOne(target.rows)
    BY <1>4, <2>1
  <2>4. AtMostOne(target.rows)'
    BY <2>2, <2>3 DEF AtMostOne
  <2>5. QED
    BY <1>1, <2>2, <2>4 DEF ClosedBy
<1>9. CASE InsertNew
  <2>1. /\ target'.rows = InsertVersions(target.rows, StagedEvents) /\ StagedEvents \in Events
        /\ target.rows \in [Keys -> Seq(Version)] /\ TargetRows = target.rows
        /\ pc = "insert" /\ pc' # "insert" /\ target # NoTable
    BY <1>9, MergeStepRows DEF InsertNew, GoTo
  <2>2. ClosedBy(target.rows, StagedEvents)
    BY <1>2, <2>1 DEF OneInv
  <2>3. AtMostOne(target.rows)'
    <3> DEFINE rows == InsertVersions(target.rows, StagedEvents)
    <3>1. \A k \in Keys : \A i, j \in Active(target.rows[k]) : i = j
      BY <1>4, <2>1 DEF AtMostOne
    <3>2. \A k \in Keys : \A i, j \in Active(rows[k]) : i = j
      BY <2>1, <2>2, <3>1, InsertFacts
    <3> HIDE DEF rows
    <3>3. target'.rows = rows
      BY <2>1 DEF rows
    <3>4. QED
      BY <3>2, <3>3 DEF AtMostOne
  <2>4. QED
    BY <2>1, <2>3
<1>10. CASE Cleanup
  <2>1. pc' # "insert"
    BY <1>10 DEF Cleanup, Expire, Retention, stagingVars
  <2>2. /\ target.rows \in [Keys -> Seq(Version)] /\ TargetRows = target.rows
        /\ \/ target'.rows = [k \in Keys |-> Aged(target.rows[k])]
           \/ target'.rows = [k \in Keys |-> Unexpired(target.rows[k])]
    BY <1>10, CleanupRows
  <2>3. ASSUME NEW k \in Keys
        PROVE  \A i, j \in Active(target'.rows[k]) : i = j
    <3>1. target.rows[k] \in Seq(Version) /\ \A i, j \in Active(target.rows[k]) : i = j
      BY <1>4, <2>2 DEF AtMostOne
    <3>2. target'.rows[k] = Aged(target.rows[k]) \/ target'.rows[k] = Unexpired(target.rows[k])
      BY <2>2
    <3>3. QED
      BY <3>1, <3>2, AgedFacts, UnexpiredActive
  <2>4. QED
    BY <2>1, <2>3 DEF AtMostOne
<1>11. QED
  BY <1>5, <1>6, <1>7, <1>8, <1>9, <1>10 DEF LoadStep

\* A source that changes between the two MERGEs tears them apart.
LEMMA OneOutside ==
  ASSUME Typed, OneInv, Staging \/ SourceStep \/ SpecsStep \/ FailInStaging
  PROVE  OneInv'
<1> SUFFICES ASSUME ~ torn', target' # NoTable
             PROVE  AtMostOne(target.rows)' /\ (pc' = "insert" => ClosedBy(target.rows, StagedEvents)')
  BY DEF OneInv
<1>1. target' = target /\ ~ torn
  BY DEF Staging, SourceStep, SpecsStep, FailInStaging, ofRun, lasting, Typed, TargetType
<1>2. AtMostOne(target.rows)'
  BY <1>1 DEF OneInv, AtMostOne
<1>3. CASE SourceStep
  <2>1. /\ UNCHANGED <<pc, incr, job>>
        /\ torn' = (torn \/ (pc # "idle" /\ Live /\ source'.rows # source.rows /\ pc = "insert"))
    BY <1>3 DEF SourceStep, SourceCommit, stagingTables
  <2>2. pc = "insert" => StagedEvents' = StagedEvents
    BY <2>1 DEF StagedEvents, Live
  <2>3. QED
    BY <1>1, <1>2, <2>1, <2>2 DEF OneInv, ClosedBy
<1>4. CASE Staging \/ SpecsStep \/ FailInStaging
  <2>1. pc' # "insert"
    BY <1>4 DEF Staging, SpecsStep, FailInStaging, StagingStep, ChangePartitionKeys, FailStaging,
                StagingRaises, NullPartition, ReadVersion, CountSource, NoNewData, Restage,
                SaveFull, StampFull, EnableChangeDataFeed, BeginMerge, MergeFull, MergeNothing,
                NoChangeDataFeed, SaveIncr, SaveChanges, StampMerged, GoTo, EndRun
  <2>2. QED
    BY <1>2, <2>1
<1>5. QED
  BY <1>3, <1>4

-----------------------------------------------------------------------------
(* The target is a history.                                                *)

\* The target as HistoryTable sees it.
AsTable(t) == IF t # NoTable THEN t.rows ELSE NoTable

LEMMA HistoryInit == Init => History!Init
<1> SUFFICES ASSUME Init PROVE AsTable(target) = NoTable \/ AsTable(target) = [k \in Keys |-> <<>>]
  BY DEF History!Init, AsTable, Exists
<1>1. QED
  BY DEF Init, AsTable, NoRows

\* Every step creates the table, adds to it, closes versions, lets time pass,
\* forgets, loses it, or leaves it alone.
LEMMA HistoryStep ==
  ASSUME Typed, [Next]_scdVars
  PROVE  History!Next \/ AsTable(target)' = AsTable(target)
<1>1. /\ target \in TargetTable \cup {NoTable} /\ feed.layout \in Layouts
      /\ target # NoTable => AsTable(target) = target.rows /\ target.rows \in [Keys -> Seq(Version)]
      /\ target = NoTable => AsTable(target) = NoTable
  BY TargetParts DEF AsTable
<1>2. NoTable \notin [Keys -> Seq(Version)]
  BY TargetAssumption
<1>3. (target' # NoTable => AsTable(target)' = target'.rows)
      /\ (target' = NoTable => AsTable(target)' = NoTable)
  BY DEF AsTable
<1> USE DEF Exists
<1>4. CASE RejectLoadType \/ NoChanges \/ ReadEvents \/ Staging \/ SourceStep \/ SpecsStep
           \/ FailInStaging \/ UNCHANGED scdVars
  <2>1. target' = target
    BY <1>4 DEF RejectLoadType, NoChanges, ReadEvents, Staging, SourceStep, SpecsStep,
       FailInStaging, scdVars
  <2>2. QED
    BY <2>1 DEF AsTable
<1>5. CASE BeginRun \/ RebuildTarget \/ CreateTarget \/ Register
  <2>1. /\ TargetRows' = TargetRows /\ (BeginRun => (target' = NoTable <=> target = NoTable))
        /\ (~ BeginRun => target' # NoTable) /\ (CreateTarget => target'.rows = NoRows)
        /\ target' \in TargetTable \cup {NoTable}
    BY <1>5, RowsKept
  <2>2. CASE CreateTarget
    <3>1. target = NoTable /\ ~ BeginRun
      BY <2>2 DEF CreateTarget, BeginRun, Typed, TargetType
    <3>2. AsTable(target) = NoTable /\ AsTable(target)' = NoRows /\ NoRows # NoTable
      BY <1>1, <1>2, <1>3, <2>1, <2>2, <3>1, EmptyVersions
    <3>3. DOMAIN NoRows = Keys /\ \A k \in Keys : NoRows[k] = <<>>
      BY DEF NoRows
    <3>4. History!Create
      BY <3>2, <3>3 DEF History!Create, AsTable
    <3>5. QED
      BY <3>4 DEF History!Next
  <2>3. CASE ~ CreateTarget
    <3>1. target' = NoTable <=> target = NoTable
      BY <1>5, <2>1, <2>3 DEF RebuildTarget, Register, Typed, TargetType
    <3>2. QED
      BY <2>1, <3>1 DEF TargetRows, AsTable
  <2>4. QED
    BY <2>2, <2>3
<1>6. CASE FillTarget \/ InsertNew
  <2>1. /\ target # NoTable /\ target' # NoTable /\ StagedEvents \in Events
        /\ target.rows \in [Keys -> Seq(Version)] /\ target' \in TargetTable
        /\ FillTarget => target'.rows = InitialVersions(StagedEvents)
        /\ InsertNew => target'.rows = InsertVersions(target.rows, StagedEvents)
    BY <1>6, MergeStepRows
  <2>2. target'.rows \in [Keys -> Seq(Version)]
    BY <2>1 DEF TargetTable
  <2>3. \A k \in Keys : \/ target'.rows[k] = target.rows[k]
                        \/ \E v \in Vals : target'.rows[k] = Append(target.rows[k], History!Fresh(v))
    <3>1. CASE FillTarget
      <4>1. target.rows = NoRows
        BY <3>1 DEF FillTarget, Typed, TargetType
      <4>2. \A k \in Keys : target.rows[k] = <<>>
        BY <4>1 DEF NoRows
      <4>3. QED
        BY <2>1, <3>1, <4>2, InitialFacts
    <3>2. CASE InsertNew
      <4> DEFINE old == target.rows
                 new == InsertVersions(old, StagedEvents)
      <4>1. target'.rows = new /\ old \in [Keys -> Seq(Version)]
        BY <2>1, <3>2
      <4>2. \A k \in Keys :
              new[k] = old[k] \/ \E v \in Vals : new[k] = Append(old[k], History!Fresh(v))
        <5>1. StagedEvents \in Events /\ old \in [Keys -> Seq(Version)]
          BY <2>1, <4>1
        <5> HIDE DEF old
        <5>2. QED
          BY <5>1, InsertAdds
      <4> HIDE DEF new
      <4>3. QED
        BY <4>1, <4>2
    <3>3. QED
      BY <1>6, <3>1, <3>2
  <2>4. AsTable(target) # NoTable /\ AsTable(target)' # NoTable /\ DOMAIN AsTable(target)' = Keys
        /\ AsTable(target) = target.rows /\ AsTable(target)' = target'.rows
    BY <1>1, <1>2, <1>3, <2>1, <2>2
  <2>5. History!Add
    BY <2>3, <2>4 DEF History!Add, AsTable
  <2>6. QED
    BY <2>5 DEF History!Next
<1>7. CASE CloseChanged
  <2>1. /\ target # NoTable /\ target' # NoTable /\ StagedEvents \in Events
        /\ target.rows \in [Keys -> Seq(Version)] /\ target' \in TargetTable
        /\ target'.rows = CloseVersions(target.rows, StagedEvents)
    BY <1>7, MergeStepRows
  <2>2. target'.rows \in [Keys -> Seq(Version)]
    BY <2>1 DEF TargetTable
  <2>3. \A k \in Keys :
          /\ DOMAIN target'.rows[k] = DOMAIN target.rows[k]
          /\ \A i \in DOMAIN target.rows[k] :
               \/ target'.rows[k][i] = target.rows[k][i]
               \/ /\ target.rows[k][i].open
                  /\ target'.rows[k][i] = History!Closed(target.rows[k][i])
    BY <2>1, CloseFacts
  <2>4. AsTable(target) # NoTable /\ AsTable(target)' # NoTable /\ DOMAIN AsTable(target)' = Keys
        /\ AsTable(target) = target.rows /\ AsTable(target)' = target'.rows
    BY <1>1, <1>2, <1>3, <2>1, <2>2
  <2>5. History!Close
    BY <2>3, <2>4 DEF History!Close, AsTable
  <2>6. QED
    BY <2>5 DEF History!Next
<1>8. CASE Cleanup
  <2>1. /\ target # NoTable /\ target' # NoTable
        /\ target.rows \in [Keys -> Seq(Version)] /\ target' \in TargetTable
        /\ \/ target'.rows = [k \in Keys |-> Aged(target.rows[k])]
           \/ target'.rows = [k \in Keys |-> Unexpired(target.rows[k])]
    BY <1>8, CleanupRows
  <2>2. target'.rows \in [Keys -> Seq(Version)]
    BY <2>1 DEF TargetTable
  <2>3. AsTable(target) # NoTable /\ AsTable(target)' # NoTable /\ DOMAIN AsTable(target)' = Keys
        /\ AsTable(target) = target.rows /\ AsTable(target)' = target'.rows
    BY <1>1, <1>2, <1>3, <2>1, <2>2
  <2>4. CASE target'.rows = [k \in Keys |-> Aged(target.rows[k])]
    <3>1. History!Age
      BY <2>3, <2>4 DEF History!Age, AsTable, Aged
    <3>2. QED
      BY <3>1 DEF History!Next
  <2>5. CASE target'.rows = [k \in Keys |-> Unexpired(target.rows[k])]
    <3>1. ASSUME NEW k \in Keys
          PROVE  \E at \in [DOMAIN target'.rows[k] -> DOMAIN target.rows[k]] :
                   /\ \A i, j \in DOMAIN at : i < j => at[i] < at[j]
                   /\ \A i \in DOMAIN at : target'.rows[k][i] = target.rows[k][at[i]]
                   /\ \A n \in DOMAIN target.rows[k] :
                        target.rows[k][n].expired \/ \E i \in DOMAIN at : at[i] = n
      <4> DEFINE s == target.rows[k]
                 t == Unexpired(s)
      <4>1. target'.rows[k] = t /\ s \in Seq(Version)
        BY <2>1, <2>5
      <4>2. PICK at \in [DOMAIN t -> DOMAIN s] :
              /\ Ascending(at)
              /\ \A i \in DOMAIN at : t[i] = s[at[i]]
              /\ \A n \in DOMAIN s : s[n].expired \/ \E i \in DOMAIN at : at[i] = n
        <5> HIDE DEF s
        <5>1. QED
          BY <4>1, UnexpiredFacts
      <4>3. \A i, j \in DOMAIN at : i < j => at[i] < at[j]
        BY <4>2 DEF Ascending
      <4> HIDE DEF t
      <4>4. QED
        BY <4>1, <4>2, <4>3
    <3>2. History!Forget
      BY <2>3, <3>1 DEF History!Forget, AsTable
    <3>3. QED
      BY <3>2 DEF History!Next
  <2>6. QED
    BY <2>1, <2>4, <2>5
<1>9. CASE FailInLoad
  <2>1. target' = target \/ (pc = "rebuild" /\ target' = NoTable)
    BY <1>9 DEF FailInLoad
  <2>2. CASE target' = target
    BY <2>2 DEF AsTable
  <2>3. CASE pc = "rebuild" /\ target' = NoTable
    <3>1. target # NoTable
      BY <2>3 DEF Typed, TargetType
    <3>2. AsTable(target) # NoTable /\ AsTable(target)' = NoTable
      BY <1>1, <1>2, <1>3, <2>3, <3>1
    <3>3. History!Lose
      BY <3>2 DEF History!Lose, AsTable
    <3>4. QED
      BY <3>3 DEF History!Next
  <2>4. QED
    BY <2>1, <2>2, <2>3
<1>10. QED
  BY <1>4, <1>5, <1>6, <1>7, <1>8, <1>9 DEF Next, Run, Cleanup

-----------------------------------------------------------------------------
(* The active versions and t_full.                                         *)

\* Steps before t_full is written or merged, and after, until both MERGEs of
\* the target are done.
BeforeChange == {"idle", "version", "count", "compare", "saveFull", "merge"}
AfterMerge == {"saveIncr", "saveChanges", "stampMerged", "apply"} \cup (LoadSteps \ {"register"})
AfterSave == {"stampFull", "enableCdf"} \cup AfterMerge

\* Which of the two ways through staging a run has taken.
Route ==
    /\ pc \in {"saveFull", "stampFull", "enableCdf"} => Live
    /\ pc \in {"merge", "stampMerged"} => ~ Live

\* The row events of a MERGE are about the keys that changed.
EventsAgree(events) ==
    \A k \in Keys :
      /\ events[k] # NoEvent <=> k \in changed
      /\ events[k].op = "delete" => known[k] = Absent
      /\ events[k].op \in {"insert", "update"} => events[k].val = known[k]

\* What the history variables know of t_full and of the events.
KnownInv ==
    /\ Exists(full) => known = full.rows
    /\ pc \in BeforeChange => changed = {}
    /\ pc \in AfterSave /\ Live /\ ~ raced => full.rows = source.rows
    /\ pc \in AfterMerge /\ ~ Live => EventsAgree(job.events)
    /\ pc \in AfterMerge \ {"saveIncr"} /\ ~ Live => incr.events = job.events

Mirrors(k) == ActiveVals(TargetRows[k]) = {known[k]} \ {Absent}
Inactive(k) == Active(TargetRows[k]) = {}

NotFilled == target = NoTable \/ pc = "fill"

\* While no row event was lost: the keys whose versions wait for an event are
\* those that changed, and a first load has no target next to it.
Undisturbed ==
    /\ NotFilled => purged = {}
    /\ \A k \in purged : Inactive(k)
    /\ pc \in BeforeChange \cup {"register"} => \A k \in Keys \ purged : Mirrors(k)
    /\ pc \in AfterSave => \A k \in Keys \ (purged \cup changed) : Mirrors(k)
    /\ pc \in AfterSave /\ Live /\ ~ NotFilled => target.layout # feed.layout
    /\ pc \in AfterMerge /\ ~ Live /\ NotFilled => \A k \in Keys : job.events[k].op # "delete"
    /\ pc \in {"close", "insert"} => ~ Live

MirrorInv ==
    /\ Route /\ KnownInv
    /\ torn => disturbed
    /\ ~ disturbed => Undisturbed

LEMMA MirrorInit == Init => MirrorInv
<1> SUFFICES ASSUME Init PROVE MirrorInv
  OBVIOUS
<1>1. TargetRows = NoRows /\ pc = "idle" /\ full = NoTable /\ changed = {} /\ purged = {}
      /\ ~ torn /\ \A k \in Keys : known[k] = Absent
  BY DEF Init, StagingInit, TargetRows, Exists
<1>2. \A k \in Keys : ActiveVals(NoRows[k]) = {}
  BY EmptyVersions DEF NoRows
<1>3. \A k \in Keys : Mirrors(k)
  BY <1>1, <1>2 DEF Mirrors
<1> HIDE DEF NoRows
<1>4. Route /\ KnownInv
  BY <1>1 DEF Route, KnownInv, BeforeChange, AfterMerge, AfterSave, LoadSteps, Exists
<1>5. Undisturbed
  BY <1>1, <1>3 DEF Undisturbed, AfterMerge, AfterSave, LoadSteps
<1>6. QED
  BY <1>1, <1>4, <1>5 DEF MirrorInv

\* The row events of a MERGE are about the keys whose row it changes.
LEMMA RowEventsAgree ==
  ASSUME NEW before \in Rows, NEW after \in Rows, NEW k \in Keys
  PROVE  LET event == RowEvents(before, after)[k]
         IN  /\ event # NoEvent <=> before[k] # after[k]
             /\ event.op = "delete" => after[k] = Absent /\ before[k] # Absent
             /\ event.op \in {"insert", "update"} => event.val = after[k]
<1> DEFINE event == RowEvents(before, after)[k]
<1>1. CASE before[k] = after[k]
  BY <1>1 DEF RowEvents, NoEvent
<1>2. CASE before[k] # after[k] /\ before[k] = Absent
  <2>1. event = [op |-> "insert", val |-> after[k]]
    BY <1>2 DEF RowEvents
  <2>2. QED
    BY <1>2, <2>1 DEF NoEvent
<1>3. CASE before[k] # after[k] /\ before[k] # Absent /\ after[k] = Absent
  <2>1. event = [op |-> "delete", val |-> before[k]]
    BY <1>3 DEF RowEvents
  <2>2. QED
    BY <1>3, <2>1 DEF NoEvent
<1>4. CASE before[k] # after[k] /\ before[k] # Absent /\ after[k] # Absent
  <2>1. event = [op |-> "update", val |-> after[k]]
    BY <1>4 DEF RowEvents
  <2>2. QED
    BY <1>4, <2>1 DEF NoEvent
<1>5. QED
  BY <1>1, <1>2, <1>3, <1>4

\* A step that leaves the target's rows and what is known of t_full alone.
LEMMA SameMirrors ==
  ASSUME TargetRows' = TargetRows, NEW k \in Keys
  PROVE  /\ known'[k] = known[k] => Mirrors(k)' = Mirrors(k)
         /\ Inactive(k)' = Inactive(k)
BY DEF Mirrors, Inactive

LEMMA MirrorStaging ==
  ASSUME Typed, MirrorInv, Staging
  PROVE  MirrorInv'
<1> USE DEF MirrorInv, Undisturbed, Route, KnownInv, BeforeChange, AfterMerge, AfterSave, LoadSteps,
            Live, NotFilled
<1>1. UNCHANGED <<source, feed, target, torn, purged>> /\ TargetRows' = TargetRows
      /\ known' = (IF Written THEN full'.rows ELSE known)
      /\ changed' = (IF pc' = "idle" THEN {} ELSE changed \cup Changing)
      /\ disturbed' = (disturbed \/ Overlaid \/ (pc = "saveIncr" /\ ~ full.cdf))
      /\ raced' = (raced /\ pc \notin {"compare", "saveFull"} /\ pc' # "idle")
  BY DEF Staging, StagingStep, ReadVersion, CountSource, NoNewData, Restage, SaveFull, StampFull,
         EnableChangeDataFeed, BeginMerge, MergeFull, MergeNothing, NoChangeDataFeed, SaveIncr,
         SaveChanges, StampMerged, environment, TargetRows, Exists
<1>2. /\ full \in FullTable \cup {NoTable} /\ (pc \notin BeforeFull => full \in FullTable /\ Exists(full))
      /\ source.rows \in Rows /\ job \in [ver : Nat, live : BOOLEAN, events : Events]
      /\ known \in Rows /\ changed \subseteq Keys /\ purged \subseteq Keys
      /\ disturbed \in BOOLEAN /\ raced \in BOOLEAN /\ torn \in BOOLEAN
  BY DEF Typed, StagingInv, StagingTyped, StagingTypeOK, TargetType, Exists
<1>3. (pc # "saveFull" => ~ Overlaid) /\ disturbed' \in BOOLEAN /\ (disturbed => disturbed')
  BY <1>1, <1>2 DEF Overlaid
<1>4. (Written => full'.rows = known) =>
        known' = known /\ changed' = (IF pc' = "idle" THEN {} ELSE changed)
  BY <1>1 DEF Changing
<1>5. \A k \in Keys : (known'[k] = known[k] => Mirrors(k)' = Mirrors(k))
                      /\ Inactive(k)' = Inactive(k)
  BY <1>1, SameMirrors
<1>6. pc \in {"saveFull", "merge"} \/ ~ Written
  BY DEF Written
<1> HIDE DEF Overlaid
<1>7. CASE ReadVersion \/ CountSource \/ NoNewData \/ MergeNothing
  <2>1. UNCHANGED <<full, incr>> /\ pc \in BeforeChange /\ pc' \in {"count", "compare", "idle"}
        /\ pc # "saveFull"
    BY <1>7 DEF ReadVersion, CountSource, NoNewData, MergeNothing, GoTo, EndRun, stagingTables
  <2>2. known' = known /\ changed' = {}
    BY <1>4, <2>1 DEF Written
  <2>3. QED
    BY <1>1, <1>2, <1>3, <1>5, <2>1, <2>2 DEF Exists
<1>8. CASE Restage
  <2>1. (full' = full \/ full' = NoTable) /\ pc = "compare" /\ pc' = "saveFull" /\ job'.live
    BY <1>2, <1>8 DEF Restage, GoTo, stagingTables
  <2>2. known' = known /\ changed' = {}
    BY <1>4, <1>6, <2>1
  <2>3. QED
    BY <1>1, <1>2, <1>3, <1>5, <2>1, <2>2 DEF Exists
<1>9. CASE SaveFull
  <2>1. pc = "saveFull" /\ pc' = "stampFull" /\ job' = job /\ full'.rows = source.rows
        /\ Exists(full') /\ Live
    <3>1. full' \in FullTable
      BY <1>2, <1>9 DEF SaveFull, FullTable, Typed, StagingInv, StagingTyped, StagingTypeOK
    <3>2. QED
      BY <1>9, <3>1, NoTableIsNew DEF SaveFull, GoTo, Exists
  <2>2. known' = source.rows /\ changed' = {k \in Keys : known[k] # source.rows[k]}
    BY <1>1, <2>1 DEF Changing, Written
  <2>3. KnownInv' /\ Route'
    BY <1>1, <1>2, <2>1, <2>2 DEF Exists
  <2>4. ~ disturbed' => target = NoTable \/ target.layout # feed.layout
    BY <1>1, <2>1 DEF Overlaid, TargetMismatch, Exists
  <2>5. \A k \in Keys \ changed' : known'[k] = known[k]
    BY <2>2
  <2>6. ~ disturbed' => Undisturbed'
    BY <1>1, <1>2, <1>3, <1>5, <2>1, <2>4, <2>5
  <2>7. QED
    BY <1>1, <1>2, <1>3, <2>3, <2>6
<1>10. CASE StampFull \/ EnableChangeDataFeed
  <2>1. /\ full \in FullTable /\ Exists(full) /\ job' = job /\ pc \in {"stampFull", "enableCdf"}
        /\ pc' \in {"enableCdf", "saveIncr"} /\ full'.rows = full.rows
    BY <1>2, <1>10 DEF StampFull, EnableChangeDataFeed, GoTo, BeforeFull, FullTable
  <2>2. known' = known /\ changed' = changed
    BY <1>4, <1>6, <2>1
  <2>3. QED
    BY <1>1, <1>2, <1>3, <1>5, <2>1, <2>2 DEF Exists
<1>11. CASE BeginMerge
  <2>1. full' = full /\ pc = "compare" /\ pc' = "merge" /\ ~ job'.live
    BY <1>2, <1>11 DEF BeginMerge, GoTo, stagingTables
  <2>2. known' = known /\ changed' = {}
    BY <1>4, <1>6, <2>1
  <2>3. QED
    BY <1>1, <1>2, <1>3, <1>5, <2>1, <2>2 DEF Exists
<1>12. CASE MergeFull
  <2> DEFINE rows == MergeRows(full.rows, source.rows)
  <2>1. pc = "merge" /\ pc' = "saveIncr" /\ full \in FullTable /\ full.rows \in Rows /\ Exists(full)
    BY <1>2, <1>12 DEF MergeFull, GoTo, BeforeFull, FullTable
  <2>2. rows \in Rows
    BY <1>2, <2>1, MergeType
  <2>3. full'.rows = rows /\ job'.live = job.live /\ job'.events = RowEvents(full.rows, rows)
    BY <1>2, <1>12, <2>1 DEF MergeFull, FullTable
  <2>4. Exists(full') /\ known = full.rows /\ ~ Live
    <3>1. full' \in FullTable
      BY <1>12, <2>1, <2>2 DEF MergeFull, FullTable
    <3>2. QED
      BY <2>1, <3>1, NoTableIsNew DEF Exists
  <2> HIDE DEF rows
  <2>5. known' = rows /\ changed' = {k \in Keys : known[k] # rows[k]}
    BY <1>1, <2>1, <2>3, <2>4 DEF Changing, Written
  <2>6. \A k \in Keys :
          /\ job'.events[k] # NoEvent <=> k \in changed'
          /\ job'.events[k].op = "delete" => known'[k] = Absent /\ known[k] # Absent
          /\ job'.events[k].op \in {"insert", "update"} => job'.events[k].val = known'[k]
    <3> DEFINE events == RowEvents(full.rows, rows)
    <3>1. \A k \in Keys :
            /\ events[k] # NoEvent <=> full.rows[k] # rows[k]
            /\ events[k].op = "delete" => rows[k] = Absent /\ full.rows[k] # Absent
            /\ events[k].op \in {"insert", "update"} => events[k].val = rows[k]
      BY <2>1, <2>2, RowEventsAgree
    <3> HIDE DEF events
    <3>2. job'.events = events
      BY <2>3 DEF events
    <3>3. QED
      BY <2>4, <2>5, <3>1, <3>2
  <2>7. KnownInv' /\ Route'
    BY <1>1, <2>1, <2>3, <2>4, <2>5, <2>6 DEF EventsAgree
  <2>8. ~ disturbed' /\ target = NoTable => \A k \in Keys : known[k] = Absent
    <3> SUFFICES ASSUME ~ disturbed', target = NoTable, NEW k \in Keys PROVE known[k] = Absent
      OBVIOUS
    <3>1. Mirrors(k)
      BY <1>3, <2>1
    <3>2. ActiveVals(TargetRows[k]) = {}
      BY EmptyVersions DEF TargetRows, NoRows, Exists
    <3>3. QED
      BY <3>1, <3>2 DEF Mirrors
  <2>9. \A k \in Keys \ changed' : known'[k] = known[k]
    BY <2>5
  <2>10. ~ disturbed' => Undisturbed'
    BY <1>1, <1>2, <1>3, <1>5, <2>1, <2>3, <2>4, <2>6, <2>8, <2>9
  <2>11. QED
    BY <1>1, <1>2, <1>3, <2>7, <2>10
<1>13. CASE NoChangeDataFeed
  <2>1. pc = "saveIncr" /\ pc' = "idle" /\ disturbed' /\ full' = full
    BY <1>1, <1>2, <1>13 DEF NoChangeDataFeed, EndRun, stagingTables
  <2>2. known' = known /\ changed' = {}
    BY <1>4, <1>6, <2>1
  <2>3. QED
    BY <2>1, <2>2 DEF Exists
<1>14. CASE SaveIncr \/ SaveChanges \/ StampMerged
  <2>1. /\ full \in FullTable /\ Exists(full) /\ job' = job /\ full'.rows = full.rows
        /\ \/ pc = "saveIncr" /\ pc' = "saveChanges" /\ (~ job.live => incr'.events = job.events)
           \/ pc = "saveChanges" /\ pc' = "apply" /\ incr' = incr /\ job.live
           \/ pc = "saveChanges" /\ pc' = "stampMerged" /\ incr' = incr /\ ~ job.live
           \/ pc = "stampMerged" /\ pc' = "apply" /\ incr' = incr
    BY <1>2, <1>14 DEF SaveIncr, SaveChanges, StampMerged, GoTo, BeforeFull, FullTable
  <2>2. known' = known /\ changed' = changed
    BY <1>4, <1>6, <2>1
  <2>3. KnownInv' /\ Route'
    BY <1>1, <1>2, <2>1, <2>2 DEF Exists, EventsAgree
  <2>4. ~ disturbed' => Undisturbed'
    BY <1>1, <1>2, <1>3, <1>5, <2>1, <2>2
  <2>5. QED
    BY <1>1, <1>2, <1>3, <2>3, <2>4
<1>15. QED
  BY <1>7, <1>8, <1>9, <1>10, <1>11, <1>12, <1>13, <1>14 DEF Staging, StagingStep

LEMMA MirrorOutside ==
  ASSUME Typed, MirrorInv, SourceStep \/ SpecsStep \/ FailInStaging
  PROVE  MirrorInv'
<1> USE DEF MirrorInv, Undisturbed, Route, KnownInv, BeforeChange, AfterMerge, AfterSave, LoadSteps,
            Live, NotFilled
<1>1. target' = target /\ TargetRows' = TargetRows /\ job' = job /\ purged' = purged
  BY DEF SourceStep, SpecsStep, FailInStaging, SourceCommit, ChangePartitionKeys, FailStaging,
         StagingRaises, NullPartition, stagingTables, TargetRows, Exists, lasting
<1>2. /\ disturbed \in BOOLEAN /\ raced \in BOOLEAN /\ torn \in BOOLEAN
      /\ purged \subseteq Keys /\ changed \subseteq Keys
  BY DEF Typed, TargetType
<1>3. \A k \in Keys : (known'[k] = known[k] => Mirrors(k)' = Mirrors(k))
                      /\ Inactive(k)' = Inactive(k)
  BY <1>1, SameMirrors
<1>4. CASE SourceStep
  <2>1. /\ UNCHANGED <<feed, full, incr, pc, known, changed, disturbed>>
        /\ raced' = (raced \/ (pc # "idle" /\ job.live /\ source'.rows # source.rows))
        /\ torn' = (torn \/ (pc # "idle" /\ job.live /\ source'.rows # source.rows /\ pc = "insert"))
    BY <1>4 DEF SourceStep, SourceCommit, stagingTables
  <2>2. KnownInv' /\ Route'
    BY <1>1, <1>2, <2>1 DEF Exists, EventsAgree
  <2>3. torn' => disturbed'
    BY <2>1
  <2>4. ~ disturbed' => Undisturbed'
    BY <1>1, <1>2, <1>3, <2>1
  <2>5. QED
    BY <2>2, <2>3, <2>4
<1>5. CASE SpecsStep
  <2>1. pc = "idle" /\ UNCHANGED <<full, pc, known, changed, disturbed, torn>>
    BY <1>5 DEF SpecsStep, ChangePartitionKeys, stagingTables, ofRun, lasting
  <2>2. QED
    BY <1>1, <1>2, <1>3, <2>1 DEF Exists
<1>6. CASE FailInStaging
  <2>1. /\ pc' = "idle" /\ changed' = {} /\ (full' = full \/ full' = NoTable) /\ torn' = torn
        /\ known' = (IF Written THEN full'.rows ELSE known) /\ pc # "fill"
        /\ disturbed' = (disturbed \/ pc \notin {"version", "count", "compare", "saveFull", "merge"})
    BY <1>6 DEF FailInStaging, FailStaging, StagingRaises, NullPartition, EndRun,
       stagingTables, Forgotten
  <2>2. known' = known
    BY <2>1 DEF Written, Exists
  <2>3. KnownInv' /\ Route'
    BY <2>1, <2>2 DEF Exists
  <2>4. ~ disturbed' => Undisturbed'
    BY <1>1, <1>2, <1>3, <2>1, <2>2
  <2>5. QED
    BY <1>2, <2>1, <2>3, <2>4
<1>7. QED
  BY <1>4, <1>5, <1>6

\* The events that a load reads are about the keys that changed.
LEMMA EventsRead ==
  ASSUME Typed, MirrorInv, pc \in AfterMerge \ {"saveIncr"}, ~ Live
  PROVE  StagedEvents = job.events /\ EventsAgree(StagedEvents)
BY DEF MirrorInv, KnownInv, StagedEvents, AfterMerge

\* A first load inserts every row of t_full.
LEMMA FirstEvents ==
  ASSUME Typed, MirrorInv, pc = "fill", Live, ~ raced
  PROVE  /\ StagedEvents = Inserts(known)
         /\ \A k \in Keys : /\ known[k] = Absent => StagedEvents[k] = NoEvent
                            /\ known[k] # Absent => StagedEvents[k] # NoEvent
                                                    /\ StagedEvents[k].val = known[k]
<1>1. full.rows = source.rows /\ known = full.rows
  BY DEF MirrorInv, KnownInv, AfterSave, AfterMerge, LoadSteps, Typed, StagingInv, StagingTyped,
     BeforeFull
<1>2. StagedEvents = Inserts(known)
  BY <1>1 DEF StagedEvents
<1>3. ASSUME NEW k \in Keys
      PROVE  Inserts(known)[k] = IF known[k] = Absent THEN NoEvent
                                 ELSE [op |-> "insert", val |-> known[k]]
  BY DEF Inserts
<1>4. \A v : LET e == [op |-> "insert", val |-> v] IN e # NoEvent /\ e.val = v
  BY DEF NoEvent
<1> DEFINE inserts == Inserts(known)
<1>5. \A k \in Keys : /\ known[k] = Absent => inserts[k] = NoEvent
                      /\ known[k] # Absent => inserts[k] # NoEvent /\ inserts[k].val = known[k]
  BY <1>3, <1>4
<1> HIDE DEF inserts
<1>6. QED
  BY <1>2, <1>5 DEF inserts

LEMMA MirrorFill ==
  ASSUME Typed, MirrorInv, FillTarget, ~ disturbed, ~ raced, NEW k \in Keys
  PROVE  ActiveVals(TargetRows'[k]) = {known[k]} \ {Absent}
<1> DEFINE events == StagedEvents
           rows == InitialVersions(events)
<1>1. /\ target'.rows = rows /\ TargetRows' = rows /\ events \in Events
      /\ pc = "fill"
  BY MergeStepRows DEF FillTarget
<1>2. /\ events[k] = NoEvent => ActiveVals(rows[k]) = {}
      /\ events[k] # NoEvent => ActiveVals(rows[k]) = {events[k].val}
  BY <1>1, InitialFacts
<1>3. events[k] \in Event
  BY <1>1 DEF Events
<1>4. CASE Live
  <2>1. /\ known[k] = Absent => events[k] = NoEvent
        /\ known[k] # Absent => events[k] # NoEvent /\ events[k].val = known[k]
    BY <1>1, <1>4, FirstEvents
  <2> HIDE DEF events, rows
  <2>2. QED
    BY <1>1, <1>2, <2>1
<1>5. CASE ~ Live
  <2>1. events = job.events /\ EventsAgree(events)
    BY <1>1, <1>5, EventsRead DEF AfterMerge, LoadSteps
  <2>2. events[k].op # "delete" /\ purged = {} /\ (k \notin changed => Mirrors(k))
    BY <1>1, <1>5, <2>1 DEF MirrorInv, Undisturbed, NotFilled, AfterSave, AfterMerge, LoadSteps
  <2>3. ActiveVals(TargetRows[k]) = {}
    BY <1>1, EmptyVersions DEF Typed, TargetType, TargetRows, NoRows, Exists
  <2>4. CASE k \notin changed
    <3>1. events[k] = NoEvent /\ {known[k]} \ {Absent} = {}
      BY <2>1, <2>2, <2>3, <2>4 DEF EventsAgree, Mirrors
    <3> HIDE DEF events, rows
    <3>2. QED
      BY <1>1, <1>2, <3>1
  <2>5. CASE k \in changed
    <3>1. events[k] # NoEvent
      BY <2>1, <2>5 DEF EventsAgree
    <3> HIDE DEF rows, events
    <3>2. events[k].val \in Vals /\ events[k].op \in {"insert", "update"}
      BY <1>3, <2>2, <3>1, EventParts
    <3>3. events[k].val = known[k]
      BY <2>1, <3>2 DEF EventsAgree
    <3>4. QED
      BY <1>1, <1>2, <3>1, <3>2, <3>3, StagingAssumption
  <2>6. QED
    BY <2>4, <2>5
<1>6. QED
  BY <1>4, <1>5

LEMMA MirrorInsert ==
  ASSUME Typed, OneInv, MirrorInv, InsertNew, ~ disturbed, NEW k \in Keys
  PROVE  /\ k \notin changed => TargetRows'[k] = TargetRows[k]
         /\ k \in changed => ActiveVals(TargetRows'[k]) = {known[k]} \ {Absent}
<1> DEFINE events == StagedEvents
           old == target.rows
           rows == InsertVersions(old, events)
<1>1. /\ TargetRows = old /\ TargetRows' = rows /\ events \in Events
      /\ old \in [Keys -> Seq(Version)] /\ pc = "insert" /\ target # NoTable
  BY MergeStepRows DEF InsertNew
<1>2. ~ Live
  BY <1>1 DEF MirrorInv, Undisturbed
<1>3. events = job.events /\ EventsAgree(events)
  BY <1>1, <1>2, EventsRead DEF AfterMerge, LoadSteps
<1>4. ClosedBy(old, events)
  BY <1>1 DEF OneInv, MirrorInv
<1>5. events[k] \in Event
  BY <1>1 DEF Events
<1> HIDE DEF events, old
<1>6. /\ events[k] = NoEvent => rows[k] = old[k]
      /\ events[k].op = "delete" => ActiveVals(rows[k]) = {}
      /\ events[k].op \in {"insert", "update"} => ActiveVals(rows[k]) = {events[k].val}
  BY <1>1, <1>4, InsertFacts
<1> HIDE DEF rows
<1>7. CASE k \notin changed
  BY <1>1, <1>3, <1>6, <1>7 DEF EventsAgree
<1>8. CASE k \in changed
  <2>1. events[k] # NoEvent
    BY <1>3, <1>8 DEF EventsAgree
  <2>2. events[k].val \in Vals /\ events[k].op \in {"insert", "update", "delete"}
    BY <1>5, <2>1, EventParts
  <2>3. /\ events[k].op = "delete" => known[k] = Absent
        /\ events[k].op \in {"insert", "update"} => events[k].val = known[k]
    BY <1>3 DEF EventsAgree
  <2>4. QED
    BY <1>1, <1>6, <1>8, <2>2, <2>3, StagingAssumption
<1>9. QED
  BY <1>7, <1>8

LEMMA MirrorLoad ==
  ASSUME Typed, OneInv, MirrorInv, LoadStep
  PROVE  MirrorInv'
<1> USE DEF MirrorInv, Undisturbed, Route, KnownInv, BeforeChange, AfterMerge, AfterSave, LoadSteps,
            Live, NotFilled
<1>1. UNCHANGED <<source, feed, full, incr, changes, job, known>>
  BY LoadStepKept
<1>2. /\ disturbed \in BOOLEAN /\ raced \in BOOLEAN /\ torn \in BOOLEAN
      /\ purged \subseteq Keys /\ changed \subseteq Keys
      /\ pc \in {"rebuild", "fill", "close", "insert", "register"} => target # NoTable
      /\ pc = "create" => target = NoTable
  BY DEF Typed, TargetType
<1>3. TargetRows' = TargetRows =>
        \A k \in Keys : Mirrors(k)' = Mirrors(k) /\ Inactive(k)' = Inactive(k)
  BY <1>1, SameMirrors
<1>4. CASE RejectLoadType \/ NoChanges \/ ReadEvents \/ FailInLoad
  <2>1. /\ torn' = torn /\ purged' = purged
        /\ \/ pc = "idle" /\ pc' = "idle" /\ UNCHANGED <<changed, raced, disturbed, target>>
           \/ /\ pc = "apply" /\ pc' = "idle" /\ target' = target /\ changed' = {}
              /\ disturbed' = (disturbed \/ raced \/ changed # {})
           \/ /\ pc = "apply" /\ UNCHANGED <<changed, raced, disturbed, target>>
              /\ \/ pc' = "create" /\ target = NoTable
                 \/ pc' = "rebuild" /\ target # NoTable
                 \/ pc' = "close" /\ target # NoTable /\ target.layout = feed.layout
           \/ /\ pc \in {"apply", "rebuild", "create", "fill", "close", "insert"}
              /\ pc' = "idle" /\ changed' = {} /\ disturbed'
           \/ /\ pc = "register" /\ pc' = "idle" /\ changed' = {} /\ target' = target
              /\ disturbed' = disturbed
    <3>1. CASE RejectLoadType
      BY <3>1 DEF RejectLoadType, EndRun, ofRun, lasting
    <3>2. CASE NoChanges
      BY <3>2 DEF NoChanges, EndRun, Forgotten
    <3>3. CASE ReadEvents
      BY <3>3 DEF ReadEvents, GoTo, ofRun, lasting, TargetMismatch, Exists
    <3>4. CASE FailInLoad
      BY <1>2, <3>4 DEF FailInLoad, EndRun, Forgotten
    <3>5. QED
      BY <1>4, <3>1, <3>2, <3>3, <3>4
  <2>2. target' = target => TargetRows' = TargetRows
    BY DEF TargetRows, Exists
  <2>3. KnownInv' /\ Route'
    BY <1>1, <1>2, <2>1 DEF Exists, EventsAgree
  <2>4. ~ disturbed' => Undisturbed'
    BY <1>1, <1>2, <1>3, <2>1, <2>2
  <2>5. QED
    BY <1>2, <2>1, <2>3, <2>4
<1>5. CASE BeginRun \/ RebuildTarget \/ CreateTarget \/ Register
  <2>1. /\ TargetRows' = TargetRows /\ torn' = torn /\ purged' = purged
        /\ \/ /\ pc = "idle" /\ pc' = "version" /\ UNCHANGED <<changed, raced, disturbed>>
              /\ (target' = NoTable <=> target = NoTable)
           \/ /\ pc = "rebuild" /\ pc' = "idle" /\ changed' = {} /\ target' # NoTable
              /\ disturbed' = (disturbed \/ changed # {})
           \/ /\ pc = "create" /\ pc' = "fill" /\ UNCHANGED <<changed, raced, disturbed>>
           \/ /\ pc = "register" /\ pc' = "idle" /\ changed' = {} /\ target' # NoTable
              /\ disturbed' = disturbed
    <3>1. /\ TargetRows' = TargetRows /\ (~ BeginRun => target' # NoTable)
          /\ (BeginRun => (target' = NoTable <=> target = NoTable))
      BY <1>5, RowsKept
    <3>2. CASE BeginRun
      BY <3>1, <3>2 DEF BeginRun, GoTo, ofRun, lasting
    <3>3. CASE RebuildTarget
      BY <3>1, <3>3 DEF RebuildTarget, BeginRun, EndRun, Forgotten
    <3>4. CASE CreateTarget
      BY <3>1, <3>4 DEF CreateTarget, BeginRun, GoTo, ofRun, lasting
    <3>5. CASE Register
      BY <3>1, <3>5 DEF Register, BeginRun, EndRun, Forgotten, lasting
    <3>6. QED
      BY <1>5, <3>2, <3>3, <3>4, <3>5
  <2>2. KnownInv' /\ Route'
    BY <1>1, <1>2, <2>1 DEF Exists, EventsAgree
  <2>3. ~ disturbed' => Undisturbed'
    BY <1>1, <1>2, <1>3, <2>1
  <2>4. QED
    BY <1>2, <2>1, <2>2, <2>3
<1>6. CASE FillTarget
  <2>1. /\ pc = "fill" /\ pc' = "idle" /\ changed' = {} /\ torn' = torn /\ purged' = purged
        /\ disturbed' = (disturbed \/ raced) /\ target' # NoTable
    BY <1>6, MergeStepRows DEF FillTarget, EndRun, Forgotten
  <2>2. ~ disturbed' => \A k \in Keys : Mirrors(k)'
    BY <1>1, <1>2, <1>6, <2>1, MirrorFill DEF Mirrors
  <2>3. KnownInv' /\ Route'
    BY <1>1, <1>2, <2>1 DEF Exists
  <2>4. ~ disturbed' => Undisturbed'
    BY <1>2, <2>1, <2>2
  <2>5. QED
    BY <1>2, <2>1, <2>3, <2>4
<1>7. CASE CloseChanged
  <2>1. /\ pc = "close" /\ pc' = "insert" /\ UNCHANGED <<changed, raced, torn, disturbed, purged>>
        /\ target # NoTable /\ target' # NoTable /\ target'.layout = target.layout
        /\ target.rows \in [Keys -> Seq(Version)] /\ StagedEvents \in Events
        /\ TargetRows = target.rows /\ TargetRows' = CloseVersions(target.rows, StagedEvents)
    BY <1>7, MergeStepRows DEF CloseChanged, GoTo, ofRun, lasting
  <2>2. \A k \in Keys : /\ Active(TargetRows'[k]) \subseteq Active(TargetRows[k])
                        /\ StagedEvents[k] = NoEvent => TargetRows'[k] = TargetRows[k]
    BY <2>1, CloseFacts
  <2>3. ~ disturbed' => ~ Live /\ EventsAgree(StagedEvents)
    BY <2>1, EventsRead
  <2>4. ~ disturbed' => \A k \in Keys \ changed : TargetRows'[k] = TargetRows[k]
    BY <2>2, <2>3 DEF EventsAgree
  <2>5. ~ disturbed' => \A k \in Keys \ (purged \cup changed) : Mirrors(k)'
    BY <1>1, <2>1, <2>4 DEF Mirrors
  <2>6. ~ disturbed' => \A k \in purged : Inactive(k)'
    BY <1>2, <2>1, <2>2 DEF Inactive
  <2>7. KnownInv' /\ Route'
    BY <1>1, <1>2, <2>1 DEF Exists, EventsAgree
  <2>8. ~ disturbed' => Undisturbed'
    BY <1>1, <1>2, <2>1, <2>5, <2>6
  <2>9. QED
    BY <1>2, <2>1, <2>7, <2>8
<1>8. CASE InsertNew
  <2>1. /\ pc = "insert" /\ pc' = "register" /\ UNCHANGED <<changed, raced, torn>>
        /\ disturbed' = (disturbed \/ raced) /\ target # NoTable /\ target' # NoTable
        /\ purged' = {k \in purged : Active(target'.rows[k]) = {}}
        /\ TargetRows' = target'.rows
    BY <1>8, MergeStepRows DEF InsertNew, GoTo, ofRun
  <2>2. ~ disturbed' =>
          \A k \in Keys : /\ k \notin changed => TargetRows'[k] = TargetRows[k]
                          /\ k \in changed => ActiveVals(TargetRows'[k]) = {known[k]} \ {Absent}
    BY <1>8, <2>1, MirrorInsert
  <2>3. \A k \in purged' : Inactive(k)'
    BY <2>1 DEF Inactive
  <2>4. ASSUME ~ disturbed', NEW k \in Keys \ purged' PROVE Mirrors(k)'
    <3>1. CASE k \in changed
      BY <1>1, <2>2, <2>4, <3>1 DEF Mirrors
    <3>2. CASE k \notin changed
      <4>1. TargetRows'[k] = TargetRows[k]
        BY <2>2, <2>4, <3>2
      <4>2. k \notin purged
        BY <2>1, <2>4, <4>1 DEF Inactive
      <4>3. Mirrors(k)
        BY <2>1, <2>4, <3>2, <4>2
      <4>4. QED
        BY <1>1, <4>1, <4>3 DEF Mirrors
    <3>3. QED
      BY <3>1, <3>2
  <2>5. KnownInv' /\ Route'
    BY <1>1, <1>2, <2>1 DEF Exists
  <2>6. ~ disturbed' => Undisturbed'
    BY <1>2, <2>1, <2>3, <2>4
  <2>7. QED
    BY <1>2, <2>1, <2>5, <2>6
<1>9. QED
  BY <1>4, <1>5, <1>6, <1>7, <1>8 DEF LoadStep

\* Retention takes versions away, and remembers the keys it leaves inactive.
LEMMA MirrorCleanup ==
  ASSUME Typed, MirrorInv, Cleanup
  PROVE  MirrorInv'
<1> USE DEF MirrorInv, Undisturbed, Route, KnownInv, BeforeChange, AfterMerge, AfterSave, LoadSteps,
            Live, NotFilled
<1>1. UNCHANGED <<source, feed, full, incr, changes, job, known>>
  BY LoadStepKept
<1>2. disturbed \in BOOLEAN /\ purged \subseteq Keys
  BY DEF Typed, TargetType
<1>3. pc = "idle" /\ UNCHANGED <<pc, changed, raced, torn, disturbed>>
  BY DEF Cleanup, Expire, Retention, stagingVars, ofRun, lasting
<1>4. /\ target # NoTable /\ target' # NoTable /\ target.rows \in [Keys -> Seq(Version)]
      /\ TargetRows = target.rows /\ TargetRows' = target'.rows
  BY CleanupRows
<1>5. KnownInv' /\ Route'
  BY <1>1, <1>3 DEF Exists
<1>6. CASE Expire
  <2>1. purged' = purged
    BY <1>6 DEF Expire, lasting
  <2>2. \A k \in Keys : Mirrors(k)' = Mirrors(k) /\ Inactive(k)' = Inactive(k)
    <3> SUFFICES ASSUME NEW k \in Keys
                 PROVE  Mirrors(k)' = Mirrors(k) /\ Inactive(k)' = Inactive(k)
      OBVIOUS
    <3>1. TargetRows'[k] = Aged(TargetRows[k]) /\ TargetRows[k] \in Seq(Version)
      BY <1>4, <1>6, CleanupRows
    <3>2. Active(TargetRows'[k]) = Active(TargetRows[k])
          /\ ActiveVals(TargetRows'[k]) = ActiveVals(TargetRows[k])
      BY <3>1, AgedFacts
    <3>3. QED
      BY <1>1, <3>2 DEF Mirrors, Inactive
  <2>3. QED
    BY <1>2, <1>3, <1>4, <1>5, <2>1, <2>2
<1>7. CASE Retention
  <2>1. purged' = purged \cup {k \in Keys : Active(TargetRows[k]) # {} /\ Active(TargetRows'[k]) = {}}
    BY <1>4, <1>7 DEF Retention
  <2>2. ASSUME NEW k \in Keys
        PROVE  /\ ActiveVals(TargetRows'[k]) \subseteq ActiveVals(TargetRows[k])
               /\ Active(TargetRows[k]) = {} => Active(TargetRows'[k]) = {}
    <3>1. TargetRows'[k] = Unexpired(TargetRows[k]) /\ TargetRows[k] \in Seq(Version)
      BY <1>4, <1>7, CleanupRows
    <3>2. QED
      BY <3>1, UnexpiredActive
  <2>3. ASSUME ~ disturbed', NEW k \in purged' PROVE Inactive(k)'
    <3>1. k \in Keys /\ Active(TargetRows'[k]) = {}
      BY <1>2, <1>3, <2>1, <2>2, <2>3 DEF Inactive
    <3>2. QED
      BY <3>1 DEF Inactive
  <2>4. ASSUME ~ disturbed', NEW k \in Keys \ purged' PROVE Mirrors(k)'
    <3>1. ActiveVals(TargetRows[k]) = {known[k]} \ {Absent}
      BY <1>3, <2>1, <2>4 DEF Mirrors
    <3>2. Active(TargetRows[k]) = {} \/ Active(TargetRows'[k]) # {}
      BY <2>1, <2>4
    <3>3. CASE Active(TargetRows[k]) = {}
      <4>1. Active(TargetRows'[k]) = {}
        BY <2>2, <2>4, <3>3
      <4>2. ActiveVals(TargetRows[k]) = {} /\ ActiveVals(TargetRows'[k]) = {}
        BY <3>3, <4>1 DEF ActiveVals
      <4>3. QED
        BY <1>1, <3>1, <4>2 DEF Mirrors
    <3>4. CASE Active(TargetRows'[k]) # {}
      <4>1. ActiveVals(TargetRows'[k]) # {}
        BY <3>4 DEF ActiveVals
      <4>2. ActiveVals(TargetRows'[k]) = {known[k]} \ {Absent}
        BY <2>2, <2>4, <3>1, <4>1
      <4>3. QED
        BY <1>1, <4>2 DEF Mirrors
    <3>5. QED
      BY <3>2, <3>3, <3>4
  <2>5. ~ disturbed' => Undisturbed'
    BY <1>2, <1>3, <1>4, <2>3, <2>4
  <2>6. QED
    BY <1>3, <1>5, <2>5
<1>8. QED
  BY <1>6, <1>7 DEF Cleanup

-----------------------------------------------------------------------------

IInv == Typed /\ OneInv /\ MirrorInv

LEMMA Inductive == Spec => []IInv
<1>1. Init => IInv
  BY TypedInit, OneInit, MirrorInit DEF IInv
<1>2. IInv /\ [Next]_scdVars => IInv'
  <2> SUFFICES ASSUME IInv, [Next]_scdVars PROVE IInv'
    OBVIOUS
  <2>1. Typed'
    BY TypedStep DEF IInv
  <2>2. CASE LoadStep
    BY <2>1, <2>2, OneLoad, MirrorLoad DEF IInv
  <2>3. CASE Cleanup
    BY <2>1, <2>3, OneLoad, MirrorCleanup DEF IInv
  <2>4. CASE Staging
    BY <2>1, <2>4, OneOutside, MirrorStaging DEF IInv
  <2>5. CASE SourceStep \/ SpecsStep \/ FailInStaging
    BY <2>1, <2>5, OneOutside, MirrorOutside DEF IInv
  <2>6. CASE UNCHANGED scdVars
    <3>1. UNCHANGED <<source, feed, full, incr, pc, job, target, changed, raced, known, torn,
                      disturbed, purged>>
      BY <2>6 DEF scdVars, ofRun, lasting, stagingVars, environment, stagingTables
    <3>2. TargetRows' = TargetRows /\ StagedEvents' = StagedEvents
      BY <3>1 DEF TargetRows, StagedEvents, Live, Exists
    <3>3. OneInv'
      BY <3>1, <3>2 DEF IInv, OneInv, AtMostOne, ClosedBy
    <3>4. MirrorInv'
      BY <3>1, <3>2 DEF IInv, MirrorInv, Undisturbed, Route, KnownInv, EventsAgree, Mirrors,
         Inactive, NotFilled, Live, Exists
    <3>5. QED
      BY <2>1, <3>3, <3>4 DEF IInv
  <2>7. QED
    BY <2>2, <2>3, <2>4, <2>5, <2>6 DEF Next, Run, LoadStep, Cleanup
<1>3. QED
  BY <1>1, <1>2, PTL DEF Spec

\* Every variable of an SCD_TYPE_2 feed has its type.
THEOREM TypeCorrect == Spec => []TypeOK
<1>1. IInv => TypeOK
  BY DEF IInv, Typed, StagingInv, StagingTyped, TargetType, LoadSteps, TypeOK
<1>2. QED
  BY <1>1, Inductive, PTL

\* "No new data" is true whenever an SCD_TYPE_2 feed concludes it, for every
\* interleaving of commits to the source with the steps of a run.
THEOREM SkipSound == Spec => []SkipIsSound
<1>1. IInv => SkipIsSound
  BY StampsAreSound DEF IInv, Typed
<1>2. QED
  BY <1>1, Inductive, PTL

\* No key has two active versions, whatever failed or was lost, unless the
\* source changed between the two MERGEs of a run that reads its events there.
THEOREM OneActive == Spec => []OneActivePerKey
<1>1. IInv => OneActivePerKey
  BY DEF IInv, OneInv, AtMostOne, OneActivePerKey, Exists
<1>2. QED
  BY <1>1, Inductive, PTL

\* Between runs the active versions are the rows of t_full, except for keys the
\* retention took them from and where row events were lost.
THEOREM MirrorsStaging == Spec => []ActiveMirrorsStaging
<1>1. IInv => ActiveMirrorsStaging
  <2> SUFFICES ASSUME IInv, pc = "idle", ~ disturbed, Exists(full), Exists(target),
                      NEW k \in Keys \ purged
               PROVE  {target.rows[k][i].val : i \in Active(target.rows[k])}
                        = {full.rows[k]} \ {Absent}
    BY DEF ActiveMirrorsStaging
  <2>1. Mirrors(k) /\ known = full.rows
    BY DEF IInv, MirrorInv, Undisturbed, KnownInv, BeforeChange
  <2>2. TargetRows = target.rows
    BY DEF TargetRows
  <2>3. QED
    BY <2>1, <2>2 DEF Mirrors, ActiveVals
<1>2. QED
  BY <1>1, Inductive, PTL

\* An SCD_TYPE_2 target is a history of its keys: versions are only added and
\* closed, and only what is past the retention is deleted.
THEOREM Implements == Spec => ImplementsHistory
<1>1. (IF Exists(target) THEN target.rows ELSE NoTable) = AsTable(target)
  BY DEF AsTable, Exists
<1>2. (IF Exists(target) THEN target.rows ELSE NoTable)' = AsTable(target)'
  BY DEF AsTable, Exists
<1>3. IInv /\ [Next]_scdVars =>
        [History!Next]_(IF Exists(target) THEN target.rows ELSE NoTable)
  <2> SUFFICES ASSUME IInv, [Next]_scdVars, AsTable(target)' # AsTable(target)
               PROVE  History!Next
    BY <1>1, <1>2
  <2>1. QED
    BY HistoryStep DEF IInv
<1>4. QED
  BY <1>3, HistoryInit, Inductive, PTL DEF Spec, ImplementsHistory, History!Spec

=============================================================================
