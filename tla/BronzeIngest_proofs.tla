------------------------- MODULE BronzeIngest_proofs -------------------------
(***************************************************************************)
(* Proofs about BronzeIngest: the safety properties its run checks hold    *)
(* for any number of attempts, levels, directories, files and payloads.    *)
(***************************************************************************)
EXTENDS BronzeIngest, SequenceTheorems, WellFoundedInduction, TLAPS

\* A set of numbered entries has a greatest one, for LatestEntry to choose.
LEMMA LatestIsGreatest ==
  ASSUME NEW E \in SUBSET Names, E # {}, \A n \in E : n.num # NotANumber
  PROVE  LatestEntry(E) \in E /\ \A n \in E : n.num <= LatestEntry(E).num
<1> DEFINE T == {MaxNumber - n.num : n \in E}
<1>1. \A n \in E : n.num \in 0 .. MaxNumber
  BY BronzeAssumption
<1>2. T \subseteq Nat /\ T # {}
  BY <1>1, BronzeAssumption
<1>3. PICK x \in T : \A y \in T : ~ <<y, x>> \in OpToRel(<, Nat)
  <2> HIDE DEF T
  <2>1. QED
    BY <1>2, WFMin, NatLessThanWellFounded
<1>4. PICK m \in E : x = MaxNumber - m.num
  BY <1>3
<1>5. \A y \in T : ~ (y < x)
  BY <1>2, <1>3 DEF OpToRel
<1>6. ASSUME NEW n \in E PROVE n.num <= m.num
  <2>1. n.num \in 0 .. MaxNumber /\ m.num \in 0 .. MaxNumber /\ MaxNumber \in Nat
    BY <1>1, BronzeAssumption
  <2>2. ~ (MaxNumber - n.num < MaxNumber - m.num)
    BY <1>4, <1>5
  <2>3. QED
    BY <2>1, <2>2
<1>7. QED
  BY <1>6 DEF LatestEntry

-----------------------------------------------------------------------------
(* Types.                                                                  *)

\* Names that Walk makes from numbers.
Entries == [num : 0 .. MaxNumber, plain : {TRUE}]

Steps == {"idle", "request", "sleep", "walk", "read", "save", "count"}
Responses == Answer \cup {NoAnswer}
LandingType ==
    /\ \A d \in dirs : d \in Seq(Names) /\ Len(d) \in 1 .. feed.depth
    /\ files \subseteq [drop : {<<>>} \cup dirs, file : Files]

TableType ==
    table = NoTable \/ (table.path \in Seq(Nat) /\ table.parts # {} /\ table.parts \subseteq Nat)

\* The locals of a run, and where it may be at which step.
LocalsType ==
    /\ pc \in Steps
    /\ attempt \in Nat
    /\ path \in Seq(Entries) /\ Len(path) <= feed.depth
    /\ fetched \subseteq Nat /\ (pc \in {"read", "save"} => fetched # {})
    /\ result \in {"none", "loaded", "failed", "HF051", "HF052", "HF053"}
    /\ answers \in Seq(Responses)

Typed ==
    /\ feed \in [loadType : LoadTypes, attempts : Attempts, format : Formats,
                 multi : BOOLEAN, depth : Depths]
    /\ published \in 0 .. MaxVersion
    /\ LandingType /\ TableType /\ LocalsType

\* An answer that brings no payload and that the loop goes on after.
Failure(answer) == answer = NoAnswer \/ (answer.parquet /\ answer.status # "ok")

\* While a run is in progress every attempt so far was answered, and in vain.
RequestInv ==
    /\ pc # "idle" => result = "none"
    /\ pc \in {"request", "sleep"} =>
         /\ attempt \in 1 .. feed.attempts
         /\ Len(answers) = IF pc = "request" THEN attempt - 1 ELSE attempt
         /\ \A i \in DOMAIN answers : Failure(answers[i])

\* What Answered does to the answers.
LEMMA AnswerAdded ==
  ASSUME Typed, RequestInv, NEW a \in Responses, Answered(a)
  PROVE  /\ answers' \in Seq(Responses) /\ Len(answers') = attempt
         /\ DOMAIN answers' = 1 .. attempt
         /\ answers'[attempt] = a
         /\ \A i \in 1 .. attempt - 1 : answers'[i] = answers[i] /\ Failure(answers[i])
<1> USE DEF Typed, LocalsType
<1>1. /\ attempt \in Nat \ {0} /\ Len(answers) = attempt - 1
      /\ DOMAIN answers = 1 .. attempt - 1
      /\ \A i \in 1 .. attempt - 1 : answers[i] \in Responses /\ Failure(answers[i])
  <2>1. feed.attempts \in Nat
    BY BronzeAssumption
  <2>2. DOMAIN answers = 1 .. Len(answers) /\ \A i \in 1 .. Len(answers) : answers[i] \in Responses
    BY LenProperties, ElementOfSeq
  <2>3. /\ attempt \in 1 .. feed.attempts /\ Len(answers) = attempt - 1
        /\ \A i \in DOMAIN answers : Failure(answers[i])
    BY DEF Answered, RequestInv
  <2>4. attempt \in Nat \ {0}
    BY <2>1, <2>3
  <2>5. QED
    BY <2>2, <2>3, <2>4
<1>2. answers' \in [1 .. attempt -> Responses]
  BY <1>1 DEF Answered
<1>3. answers' \in Seq(Responses)
  BY <1>1, <1>2, SeqDef
<1>4. DOMAIN answers' = 1 .. attempt /\ DOMAIN answers' = 1 .. Len(answers')
      /\ Len(answers') \in Nat
  BY <1>2, <1>3, LenProperties
<1>5. Len(answers') = attempt
  BY <1>1, <1>4
<1>6. QED
  BY <1>1, <1>3, <1>4, <1>5 DEF Answered

LEMMA TypeInit == Init => Typed
<1> SUFFICES ASSUME Init PROVE Typed
  OBVIOUS
<1>1. <<>> \in Seq(Entries) /\ <<>> \in Seq(Responses) /\ Len(<<>>) = 0
  BY EmptySeq
<1>2. feed.depth \in Nat /\ MaxVersion \in Nat
  BY BronzeAssumption DEF Init
<1>3. QED
  BY <1>1, <1>2 DEF Init, Typed, LandingType, TableType, LocalsType, Steps

\* The upstream side.
LEMMA EnvironmentType ==
  ASSUME Typed, Publish \/ Landing
  PROVE  Typed'
<1> USE DEF Typed, LandingType, TableType, LocalsType
<1>1. CASE Publish
  BY <1>1, BronzeAssumption DEF Publish, landing
<1>2. CASE MakeEntry
  <2>1. PICK parent \in {<<>>} \cup dirs, n \in Names :
          Len(parent) < feed.depth /\ dirs' = dirs \cup {Append(parent, n)}
    BY <1>2 DEF MakeEntry
  <2>2. parent \in Seq(Names) /\ Len(parent) \in Nat /\ feed.depth \in Nat
    <3>1. <<>> \in Seq(Names) /\ feed.depth \in Nat
      BY EmptySeq, BronzeAssumption
    <3>2. parent \in Seq(Names)
      BY <2>1, <3>1
    <3>3. QED
      BY <3>1, <3>2, LenProperties
  <2>3. Append(parent, n) \in Seq(Names) /\ Len(Append(parent, n)) \in 1 .. feed.depth
    BY <2>1, <2>2, AppendProperties
  <2>4. QED
    BY <1>2, <2>1, <2>3 DEF MakeEntry
<1>3. CASE AddFile
  BY <1>3 DEF AddFile
<1>4. QED
  BY <1>1, <1>2, <1>3 DEF Landing

\* How a run ends, and how it goes from one step to the next.
LEMMA EndType ==
  ASSUME Typed, NEW outcome \in {"loaded", "failed", "HF051", "HF052", "HF053"},
         EndRun(outcome), feed' = feed, answers' \in Seq(Responses)
  PROVE  LocalsType'
<1>1. <<>> \in Seq(Entries) /\ Len(<<>>) = 0
  BY EmptySeq
<1>2. feed'.depth \in Nat
  BY BronzeAssumption DEF Typed
<1>3. QED
  BY <1>1, <1>2 DEF EndRun, LocalsType, Steps

\* A step of a run changes its locals, the table when it saves, and nothing of
\* the feed and what is upstream.
LEMMA RunStable ==
  ASSUME Run \/ Fail
  PROVE  UNCHANGED environment /\ (~ SaveTable => table' = table)
BY DEF Run, Fetch, Fail, BeginApi, WrongType, Accepted, Retryable, Refused, Retry, Answered,
       BeginStorage, Walk, ListFiles, ReadBody, SaveTable, CountRows

\* What Walk finds: the greatest of the numbers listed.
LEMMA WalkDown ==
  ASSUME Typed, Walk, pc' # "idle"
  PROVE  /\ Listed # {} /\ \A n \in Listed : n.num # NotANumber
         /\ path = <<>> \/ path \in dirs
         /\ LatestEntry(Listed) \in Listed /\ LatestEntry(Listed).num \in 0 .. MaxNumber
         /\ \A n \in Listed : n.num <= LatestEntry(Listed).num
         /\ path' = Append(path, [num |-> LatestEntry(Listed).num, plain |-> TRUE])
         /\ path' \in Seq(Entries) /\ Len(path') = Len(path) + 1 /\ Len(path) < feed.depth
         /\ pc' = "walk" /\ result' = result /\ fetched' = fetched /\ attempt' = attempt
<1>1. /\ Listed # {} /\ \A n \in Listed : n.num # NotANumber
      /\ path = <<>> \/ path \in dirs
      /\ path' = Append(path, [num |-> LatestEntry(Listed).num, plain |-> TRUE])
      /\ Len(path) < feed.depth
      /\ pc' = "walk" /\ result' = result /\ fetched' = fetched /\ attempt' = attempt
  BY DEF Walk, EndRun
<1>2. Listed \subseteq Names
  BY DEF Listed
<1>3. LatestEntry(Listed) \in Listed /\ \A n \in Listed : n.num <= LatestEntry(Listed).num
  BY <1>1, <1>2, LatestIsGreatest
<1>4. LatestEntry(Listed).num \in 0 .. MaxNumber
  BY <1>1, <1>2, <1>3, BronzeAssumption
<1>5. [num |-> LatestEntry(Listed).num, plain |-> TRUE] \in Entries
  BY <1>4 DEF Entries
<1>6. path' \in Seq(Entries) /\ Len(path') = Len(path) + 1
  BY <1>1, <1>5, AppendProperties DEF Typed, LocalsType
<1>7. QED
  BY <1>1, <1>3, <1>4, <1>6

\* Every step preserves the types.
LEMMA TypeStep == Typed /\ RequestInv /\ [Next]_vars => Typed'
<1> SUFFICES ASSUME Typed, RequestInv, [Next]_vars PROVE Typed'
  OBVIOUS
<1>1. CASE Publish \/ Landing
  BY <1>1, EnvironmentType
<1>2. CASE Run \/ Fail
  <2>1. UNCHANGED environment /\ (~ SaveTable => table' = table)
    BY <1>2, RunStable
  <2>2. ASSUME TableType', LocalsType' PROVE Typed'
    BY <2>1, <2>2 DEF Typed, LandingType, environment, landing
  <2>3. feed' = feed /\ feed.depth \in Nat /\ feed.attempts \in Nat
    BY <2>1, BronzeAssumption DEF Typed, environment
  <2>4. <<>> \in Seq(Responses) /\ answers \in Seq(Responses)
    BY EmptySeq DEF Typed, LocalsType
  <2> USE DEF LocalsType, Steps
  <2>5. CASE BeginApi
    <3>1. answers' \in Seq(Responses) /\ ~ SaveTable
      BY <2>4, <2>5 DEF BeginApi, SaveTable
    <3>2. LocalsType'
      <4>1. CASE EndRun("HF051") \/ EndRun("HF053")
        BY <2>3, <3>1, <4>1, EndType
      <4>2. CASE pc' = "request" /\ attempt' = 1 /\ result' = "none" /\ UNCHANGED <<path, fetched>>
        BY <2>3, <3>1, <4>2 DEF Typed
      <4>3. QED
        BY <2>5, <4>1, <4>2 DEF BeginApi
    <3>3. QED
      BY <2>1, <2>2, <3>1, <3>2 DEF Typed, TableType
  <2>6. CASE WrongType \/ Accepted \/ Retryable \/ Refused
    <3>1. PICK a \in Responses : Answered(a)
      BY <2>6 DEF WrongType, Accepted, Retryable, Refused, Responses
    <3>2. answers' \in Seq(Responses) /\ ~ SaveTable
      BY <3>1, AnswerAdded DEF Answered, SaveTable
    <3>3. published \in Nat
      BY BronzeAssumption DEF Typed
    <3>4. LocalsType'
      BY <2>3, <2>6, <3>2, <3>3, EndType
         DEF WrongType, Accepted, Retryable, Refused, GoTo, Typed
    <3>5. QED
      BY <2>1, <2>2, <3>2, <3>4 DEF Typed, TableType
  <2>7. CASE Retry
    <3>1. answers' = answers /\ ~ SaveTable
      BY <2>7 DEF Retry, SaveTable
    <3>2. CASE attempt + 1 > feed.attempts
      <4>1. EndRun("HF053")
        BY <2>7, <3>2 DEF Retry
      <4>2. QED
        BY <2>1, <2>2, <2>3, <2>4, <3>1, <4>1, EndType DEF Typed, TableType
    <3>3. CASE ~ (attempt + 1 > feed.attempts)
      <4>1. pc' = "request" /\ attempt' = attempt + 1
            /\ result' = result /\ path' = path /\ fetched' = fetched
        BY <2>7, <3>3 DEF Retry
      <4>2. LocalsType'
        BY <2>3, <2>4, <3>1, <4>1 DEF Typed
      <4>3. QED
        BY <2>1, <2>2, <3>1, <4>2 DEF Typed, TableType
    <3>4. QED
      BY <3>2, <3>3
  <2>8. CASE BeginStorage
    BY <2>1, <2>2, <2>3, <2>4, <2>8 DEF BeginStorage, Typed, TableType
  <2>9. CASE Walk
    <3>1. answers' = answers /\ ~ SaveTable
      BY <2>9 DEF Walk, SaveTable
    <3>2. CASE pc' # "idle"
      <4>1. Len(path) \in Nat /\ path' \in Seq(Entries)
            /\ Len(path') = Len(path) + 1 /\ Len(path) < feed.depth
            /\ pc' = "walk" /\ result' = result /\ fetched' = fetched /\ attempt' = attempt
        BY <2>9, <3>2, WalkDown, LenProperties DEF Typed
      <4>2. LocalsType'
        BY <2>3, <2>4, <3>1, <4>1 DEF Typed
      <4>3. QED
        BY <2>1, <2>2, <3>1, <4>2 DEF Typed, TableType
    <3>3. CASE pc' = "idle"
      <4>1. EndRun("failed")
        BY <2>9, <3>3 DEF Walk
      <4>2. LocalsType'
        BY <2>3, <2>4, <3>1, <4>1, EndType
      <4>3. QED
        BY <2>1, <2>2, <3>1, <4>2 DEF Typed, TableType
    <3>4. QED
      BY <3>2, <3>3
  <2>10. CASE ListFiles
    <3>1. Found \subseteq Nat
      BY BronzeAssumption DEF Found
    <3>2. LocalsType' /\ ~ SaveTable
      BY <2>3, <2>4, <2>10, <3>1, EndType DEF ListFiles, SaveTable, Typed
    <3>3. QED
      BY <2>1, <2>2, <3>2 DEF Typed, TableType
  <2>11. CASE ReadBody
    BY <2>1, <2>2, <2>3, <2>4, <2>11 DEF ReadBody, GoTo, Typed, TableType
  <2>12. CASE SaveTable
    <3>1. Numbers(path) \in Seq(Nat)
      <4>1. path \in [1 .. Len(path) -> Entries] /\ Len(path) \in Nat
        BY LenProperties DEF Typed
      <4>2. \A i \in 1 .. Len(path) : path[i].num \in Nat
        <5>1. \A i \in 1 .. Len(path) : path[i] \in Entries
          BY <4>1
        <5>2. \A e \in Entries : e.num \in Nat
          BY BronzeAssumption DEF Entries
        <5>3. QED
          BY <5>1, <5>2
      <4>3. Numbers(path) \in [1 .. Len(path) -> Nat]
        BY <4>1, <4>2 DEF Numbers
      <4>4. QED
        BY <4>1, <4>3, SeqDef
    <3>2. LocalsType' /\ TableType'
      BY <2>3, <2>4, <2>12, <3>1 DEF SaveTable, GoTo, Typed, TableType
    <3>3. QED
      BY <2>2, <3>2
  <2>13. CASE CountRows \/ Fail
    <3>1. answers' = answers /\ ~ SaveTable /\ (EndRun("loaded") \/ EndRun("failed"))
      BY <2>13 DEF CountRows, Fail, SaveTable, GoTo, EndRun
    <3>2. LocalsType'
      BY <2>3, <2>4, <3>1, EndType
    <3>3. QED
      BY <2>1, <2>2, <3>1, <3>2 DEF Typed, TableType
  <2>14. QED
    BY <1>2, <2>5, <2>6, <2>7, <2>8, <2>9, <2>10, <2>11, <2>12, <2>13 DEF Run, Fetch
<1>3. CASE UNCHANGED vars
  BY <1>3 DEF vars, environment, landing, Typed, LandingType, TableType, LocalsType
<1>4. QED
  BY <1>1, <1>2, <1>3 DEF Next

-----------------------------------------------------------------------------
(* The retry loop.                                                         *)

\* Attempts are counted as they are answered, and a run that gives up has made
\* all of them.
LEMMA RequestStep ==
    Typed /\ RequestInv /\ HonestFailure /\ [Next]_vars => RequestInv' /\ HonestFailure'
<1> SUFFICES ASSUME Typed, RequestInv, HonestFailure, [Next]_vars
             PROVE  RequestInv' /\ HonestFailure'
  OBVIOUS
<1> USE DEF RequestInv, HonestFailure
<1>1. CASE Publish \/ Landing \/ UNCHANGED vars
  <2>1. UNCHANGED <<feed, pc, attempt, result, answers>>
    BY <1>1 DEF Landing, Publish, MakeEntry, AddFile, vars, environment, landing
  <2>2. QED
    BY <2>1
<1>2. CASE Run \/ Fail
  <2>1. feed' = feed /\ feed.attempts \in Nat
    BY <1>2, RunStable, BronzeAssumption DEF environment, Typed
  <2>2. CASE BeginApi
    <3>1. answers' = <<>> /\ Len(<<>>) = 0 /\ DOMAIN <<>> = {}
      BY <2>2, EmptySeq DEF BeginApi
    <3>2. \/ pc' = "idle" /\ result' = "HF051"
          \/ pc' = "idle" /\ result' = "HF053" /\ feed.attempts = 0
          \/ pc' = "request" /\ attempt' = 1 /\ result' = "none" /\ feed.attempts >= 1
      BY <2>1, <2>2 DEF BeginApi, EndRun
    <3>3. QED
      BY <2>1, <3>1, <3>2
  <2>3. ASSUME NEW a \in Responses, Answered(a),
               \/ a # NoAnswer /\ ~ a.parquet /\ EndRun("HF052")
               \/ Failure(a) /\ attempt >= feed.attempts /\ EndRun("HF053")
               \/ EndRun("failed")
               \/ Failure(a) /\ pc' = "sleep" /\ attempt' = attempt /\ result' = result
               \/ pc' = "read" /\ attempt' = attempt /\ result' = result
        PROVE  RequestInv' /\ HonestFailure'
    <3>1. /\ Len(answers') = attempt /\ DOMAIN answers' = 1 .. attempt
          /\ answers'[attempt] = a
          /\ \A i \in 1 .. attempt - 1 : answers'[i] = answers[i] /\ Failure(answers[i])
      BY <2>3, AnswerAdded
    <3>2. pc = "request" /\ result = "none" /\ attempt \in 1 .. feed.attempts
      BY <2>3 DEF Answered
    <3>3. attempt \in Nat
      BY <2>1, <3>2
    <3>4. \A i \in 1 .. attempt : i = attempt \/ i \in 1 .. attempt - 1
      BY <3>3
    <3>5. QED
      BY <2>1, <2>3, <3>1, <3>2, <3>3, <3>4 DEF Failure, EndRun
  <2>4. CASE WrongType \/ Accepted \/ Retryable \/ Refused
    <3>1. CASE WrongType
      BY <2>3, <3>1, BronzeAssumption DEF WrongType, Responses
    <3>2. CASE Accepted
      BY <2>3, <3>2 DEF Accepted, Responses
    <3>3. CASE Retryable
      BY <2>3, <3>3 DEF Retryable, GoTo, Responses, Failure
    <3>4. CASE Refused
      BY <2>3, <3>4 DEF Refused, GoTo, Responses, Failure
    <3>5. QED
      BY <2>4, <3>1, <3>2, <3>3, <3>4
  <2>5. CASE Retry
    <3>1. /\ pc = "sleep" /\ result = "none" /\ attempt \in 1 .. feed.attempts
          /\ Len(answers) = attempt /\ answers' = answers
          /\ \A i \in DOMAIN answers : Failure(answers[i])
      BY <2>5 DEF Retry
    <3>2. \/ pc' = "idle" /\ result' = "HF053" /\ attempt + 1 > feed.attempts
          \/ pc' = "request" /\ attempt' = attempt + 1 /\ result' = result
             /\ ~ (attempt + 1 > feed.attempts)
      BY <2>5 DEF Retry, EndRun
    <3>3. CASE attempt + 1 > feed.attempts
      <4>1. pc' = "idle" /\ result' = "HF053" /\ attempt = feed.attempts
        BY <2>1, <3>1, <3>2, <3>3
      <4>2. QED
        BY <2>1, <3>1, <4>1 DEF Failure
    <3>4. CASE ~ (attempt + 1 > feed.attempts)
      <4>1. attempt \in Nat /\ attempt' \in 1 .. feed.attempts
            /\ Len(answers') = attempt' - 1 /\ pc' = "request" /\ result' = "none"
        BY <2>1, <3>1, <3>2, <3>4
      <4>2. QED
        BY <2>1, <3>1, <4>1
    <3>5. QED
      BY <3>3, <3>4
  <2>6. CASE BeginStorage \/ Walk \/ ListFiles \/ ReadBody \/ SaveTable \/ CountRows \/ Fail
    <3>1. \/ pc' \in {"walk", "save", "count"} /\ result' = "none"
          \/ pc' = "idle" /\ result' \in {"failed", "loaded"}
      BY <2>6 DEF BeginStorage, Walk, ListFiles, ReadBody, SaveTable, CountRows, Fail,
                  GoTo, EndRun
    <3>2. QED
      BY <3>1
  <2>7. QED
    BY <1>2, <2>2, <2>4, <2>5, <2>6 DEF Run, Fetch
<1>3. QED
  BY <1>1, <1>2 DEF Next

-----------------------------------------------------------------------------
(* The landing directory and the walk through it.                          *)

SameNumbers(p, q, n) == \A i \in 1 .. n : p[i].num = q[i].num

\* Every directory is below directories, and no two have the same numbers.
DirsInv ==
    /\ \A d \in dirs : \A i \in 1 .. Len(d) - 1 : SubSeq(d, 1, i) \in dirs
    /\ \A d, e \in dirs : Len(d) = Len(e) /\ SameNumbers(d, e, Len(d)) => d = e

\* Files are in drops, and what there was to load is still there.
FilesInv ==
    /\ \A f \in files : Len(f.drop) = feed.depth
    /\ IF feed.loadType = "API_EXTRACTOR" THEN begun \subseteq 0 .. published
                                         ELSE begun \subseteq files
    /\ pc \in {"request", "sleep", "read"} => feed.loadType = "API_EXTRACTOR"
    /\ pc = "walk" => feed.loadType = "STORAGE_FETCH"
    /\ pc = "idle" => path = <<>>

\* The walk has left behind what is older, or it is on the way to it.
WalkInv ==
    pc = "walk" =>
      \A b \in begun :
        \/ \E i \in 1 .. Len(path) : /\ b.drop[i].num < path[i].num
                                      /\ SameNumbers(b.drop, path, i - 1)
        \/ SameNumbers(b.drop, path, Len(path))

\* LoadedIsNewest for feed f and the table that is made, or about to be made,
\* from what there was in set there.
Newest(f, there, numbers, parts) ==
    \A b \in there :
      CASE f.loadType = "API_EXTRACTOR" -> \A p \in parts : p >= b
        [] OTHER ->
             \/ \E i \in 1 .. f.depth : /\ Numbers(b.drop)[i] < numbers[i]
                                       /\ \A j \in 1 .. i - 1 : Numbers(b.drop)[j] = numbers[j]
             \/ /\ Numbers(b.drop) = numbers
                /\ f.multi /\ PlainPath(b.drop) => b.file \in parts

LoadInv ==
    /\ pc \in {"read", "save"} => Newest(feed, begun, Numbers(path), fetched)
    /\ pc = "count" \/ result = "loaded" => Newest(feed, begun, table.path, table.parts)

\* A path and its last entry.
LEMMA FrontAndLast ==
  ASSUME NEW S, NEW s \in Seq(S), NEW n \in Nat, Len(s) = n + 1
  PROVE  /\ SubSeq(s, 1, n) \in Seq(S) /\ Len(SubSeq(s, 1, n)) = n
         /\ \A i \in 1 .. n : SubSeq(s, 1, n)[i] = s[i]
         /\ s = Append(SubSeq(s, 1, n), s[n + 1])
<1> DEFINE q == SubSeq(s, 1, n)
<1>1. \A i \in 1 .. n + 1 : s[i] \in S
  BY ElementOfSeq
<1>2. q \in Seq(S) /\ Len(q) = n /\ \A i \in 1 .. n : q[i] = s[i]
  <2>1. \A i \in 1 .. n : s[i] \in S
    BY <1>1
  <2>2. q \in Seq(S) /\ Len(q) = (IF 1 <= n THEN n - 1 + 1 ELSE 0)
        /\ \A i \in 1 .. n - 1 + 1 : q[i] = s[1 + i - 1]
    BY <2>1, SubSeqProperties
  <2>3. QED
    BY <2>2
<1>3. /\ Append(q, s[n + 1]) \in Seq(S) /\ Len(Append(q, s[n + 1])) = n + 1
      /\ \A i \in 1 .. n : Append(q, s[n + 1])[i] = s[i]
      /\ Append(q, s[n + 1])[n + 1] = s[n + 1]
  <2> HIDE DEF q
  <2>1. QED
    BY <1>1, <1>2, AppendProperties
<1>4. s = Append(q, s[n + 1])
  <2>1. \A i \in 1 .. n + 1 : i = n + 1 \/ i \in 1 .. n
    OBVIOUS
  <2>2. \A i \in 1 .. Len(s) : s[i] = Append(q, s[n + 1])[i]
    BY <1>3, <2>1
  <2>3. QED
    BY <1>3, <2>2, SeqEqual
<1>5. QED
  BY <1>2, <1>4

\* The beginning of a path below another.
LEMMA AppendPrefix ==
  ASSUME NEW S, NEW s \in Seq(S), NEW e \in S, NEW i \in 1 .. Len(s)
  PROVE  SubSeq(Append(s, e), 1, i) = IF i = Len(s) THEN s ELSE SubSeq(s, 1, i)
<1>1. Append(s, e) = s \o <<e>> /\ <<e>> \in Seq(S) /\ Len(s) \in Nat
  BY AppendIsConcat, LenProperties
<1>2. 1 \in 1 .. Len(s)
  BY <1>1
<1>3. SubSeq(s \o <<e>>, 1, i) = SubSeq(s, 1, i)
  BY <1>1, <1>2, SubSeqOfConcat1
<1>4. SubSeq(s, 1, Len(s)) = s
  BY SubSeqFull
<1>5. QED
  BY <1>1, <1>3, <1>4

\* A directory is one entry below the directory that its other numbers are of.
LEMMA BelowParent ==
  ASSUME Typed, DirsInv, NEW d \in dirs, NEW n \in Nat, Len(d) = n + 1,
         NEW p \in {<<>>} \cup dirs, Len(p) = n, SameNumbers(d, p, n)
  PROVE  d = Append(p, d[n + 1]) /\ d[n + 1] \in Names
<1> DEFINE q == SubSeq(d, 1, n)
<1>1. d \in Seq(Names)
  BY DEF Typed, LandingType
<1>2. d[n + 1] \in Names
  BY <1>1, ElementOfSeq
<1>3. q \in Seq(Names) /\ Len(q) = n /\ (\A i \in 1 .. n : q[i] = d[i])
      /\ d = Append(q, d[n + 1])
  BY <1>1, FrontAndLast
<1>4. CASE n = 0
  <2>1. q = <<>> /\ p = <<>>
    <3>1. p \in Seq(Names)
      BY EmptySeq DEF Typed, LandingType
    <3>2. QED
      BY <1>3, <1>4, <3>1, EmptySeq
  <2>2. QED
    BY <1>2, <1>3, <2>1
<1>5. CASE n # 0
  <2>1. p \in dirs
    BY <1>5, EmptySeq
  <2>2. q \in dirs
    <3>1. n \in 1 .. Len(d) - 1
      BY <1>5
    <3>2. QED
      BY <3>1 DEF DirsInv
  <2>3. SameNumbers(q, p, Len(q))
    BY <1>3 DEF SameNumbers
  <2>4. q = p
    <3> HIDE DEF q
    <3>1. QED
      BY <1>3, <2>1, <2>2, <2>3 DEF DirsInv
  <2>5. QED
    BY <1>2, <1>3, <2>4
<1>6. QED
  BY <1>4, <1>5

\* The upstream job keeps the landing directory in order.
LEMMA DirsStep == Typed /\ DirsInv /\ [Next]_vars => DirsInv'
<1> SUFFICES ASSUME Typed, DirsInv, [Next]_vars PROVE DirsInv'
  OBVIOUS
<1>1. CASE MakeEntry
  <2>1. PICK parent \in {<<>>} \cup dirs, n \in Names :
          /\ \A m \in Names : Append(parent, m) \in dirs => m.num # n.num
          /\ dirs' = dirs \cup {Append(parent, n)}
    BY <1>1 DEF MakeEntry
  <2> DEFINE d == Append(parent, n)
             k == Len(parent)
  <2>2. parent \in Seq(Names) /\ k \in Nat
    <3>1. parent \in Seq(Names)
      BY EmptySeq DEF Typed, LandingType
    <3>2. QED
      BY <3>1, LenProperties
  <2>3. /\ d \in Seq(Names) /\ Len(d) = k + 1 /\ d[k + 1] = n
        /\ \A i \in 1 .. k : d[i] = parent[i]
    BY <2>2, AppendProperties
  <2>4. \A i \in 1 .. k : SubSeq(d, 1, i) \in dirs
    <3> SUFFICES ASSUME NEW i \in 1 .. k PROVE SubSeq(d, 1, i) \in dirs
      OBVIOUS
    <3>1. parent \in dirs
      BY <2>2, EmptySeq
    <3>2. SubSeq(d, 1, i) = IF i = k THEN parent ELSE SubSeq(parent, 1, i)
      BY <2>2, AppendPrefix
    <3>3. i # k => i \in 1 .. Len(parent) - 1
      BY <2>2
    <3>4. QED
      BY <3>1, <3>2, <3>3 DEF DirsInv
  <2>5. ASSUME NEW e \in dirs, Len(e) = k + 1, SameNumbers(d, e, k + 1)
        PROVE  FALSE
    <3>1. SameNumbers(e, parent, k) /\ e[k + 1].num = n.num
      BY <2>2, <2>3, <2>5 DEF SameNumbers
    <3>2. e = Append(parent, e[k + 1]) /\ e[k + 1] \in Names
      BY <2>2, <2>5, <3>1, BelowParent
    <3>3. QED
      BY <2>1, <3>1, <3>2
  <2>6. ASSUME NEW e \in dirs' PROVE \A i \in 1 .. Len(e) - 1 : SubSeq(e, 1, i) \in dirs'
    <3> HIDE DEF d, k
    <3>1. CASE e \in dirs
      BY <2>1, <3>1 DEF DirsInv
    <3>2. CASE e = d
      <4>1. Len(e) - 1 = k
        BY <2>2, <2>3, <3>2
      <4>2. QED
        BY <2>1, <2>4, <3>2, <4>1
    <3>3. QED
      BY <2>1, <2>6, <3>1, <3>2 DEF d
  <2>7. ASSUME NEW e \in dirs', NEW f \in dirs', Len(e) = Len(f), SameNumbers(e, f, Len(e))
        PROVE  e = f
    <3> HIDE DEF d, k
    <3>1. e \in dirs \/ e = d
      BY <2>1 DEF d
    <3>2. f \in dirs \/ f = d
      BY <2>1 DEF d
    <3>3. CASE e \in dirs /\ f \in dirs
      BY <2>7, <3>3 DEF DirsInv
    <3>4. CASE e = d /\ f \in dirs
      BY <2>3, <2>5, <2>7, <3>4
    <3>5. CASE e \in dirs /\ f = d
      <4>1. SameNumbers(d, e, k + 1) /\ Len(e) = k + 1
        BY <2>3, <2>7, <3>5 DEF SameNumbers
      <4>2. QED
        BY <2>5, <3>5, <4>1
    <3>6. QED
      BY <3>1, <3>2, <3>3, <3>4, <3>5
  <2>8. QED
    BY <2>6, <2>7 DEF DirsInv, SameNumbers
<1>2. CASE Publish \/ AddFile \/ Run \/ Fail \/ UNCHANGED vars
  <2>1. dirs' = dirs
    BY <1>2, RunStable DEF Publish, AddFile, vars, environment, landing
  <2>2. QED
    BY <2>1 DEF DirsInv, SameNumbers
<1>3. QED
  BY <1>1, <1>2 DEF Next, Landing

LEMMA FilesStep == Typed /\ FilesInv /\ [Next]_vars => FilesInv'
<1> SUFFICES ASSUME Typed, FilesInv, [Next]_vars PROVE FilesInv'
  OBVIOUS
<1> USE DEF FilesInv
<1>1. published \in Nat
  BY BronzeAssumption DEF Typed
<1>2. CASE Publish
  BY <1>1, <1>2 DEF Publish, landing
<1>3. CASE MakeEntry
  BY <1>3 DEF MakeEntry
<1>4. CASE AddFile
  BY <1>4 DEF AddFile
<1>5. CASE Run \/ Fail
  <2>1. feed' = feed /\ published' = published /\ files' = files
    BY <1>5, RunStable DEF environment, landing
  <2>2. CASE BeginApi
    <3>1. feed.loadType = "API_EXTRACTOR" /\ begun' = {published} /\ pc' # "walk"
          /\ (pc' = "idle" => path' = <<>>)
      BY <2>2 DEF BeginApi, EndRun
    <3>2. QED
      BY <1>1, <2>1, <3>1
  <2>3. CASE BeginStorage
    BY <2>1, <2>3 DEF BeginStorage
  <2>4. CASE WrongType \/ Accepted \/ Retryable \/ Refused
    <3>1. begun' = begun /\ feed.loadType = "API_EXTRACTOR" /\ pc' # "walk"
          /\ (pc' = "idle" => path' = <<>>)
      BY <2>4 DEF WrongType, Accepted, Retryable, Refused, Answered, GoTo, EndRun
    <3>2. QED
      BY <2>1, <3>1
  <2>5. CASE Retry
    <3>1. begun' = begun /\ feed.loadType = "API_EXTRACTOR" /\ pc' # "walk"
          /\ (pc' = "idle" => path' = <<>>)
      BY <2>5 DEF Retry, EndRun
    <3>2. QED
      BY <2>1, <3>1
  <2>6. CASE Walk \/ ListFiles
    <3>1. begun' = begun /\ feed.loadType = "STORAGE_FETCH"
          /\ pc' \in {"walk", "save", "idle"} /\ (pc' = "idle" => path' = <<>>)
      BY <2>6 DEF Walk, ListFiles, EndRun
    <3>2. QED
      BY <2>1, <3>1
  <2>7. CASE ReadBody \/ SaveTable \/ CountRows \/ Fail
    <3>1. begun' = begun /\ pc' \in {"save", "count", "idle"}
          /\ (pc' = "idle" => path' = <<>>)
      BY <2>7 DEF ReadBody, SaveTable, CountRows, Fail, GoTo, EndRun
    <3>2. QED
      BY <2>1, <3>1
  <2>8. QED
    BY <1>5, <2>2, <2>3, <2>4, <2>5, <2>6, <2>7 DEF Run, Fetch
<1>6. CASE UNCHANGED vars
  BY <1>6 DEF vars, environment, landing
<1>7. QED
  BY <1>2, <1>3, <1>4, <1>5, <1>6 DEF Next, Landing

\* The numbers of a drop that had a file when the run began.
LEMMA Drop ==
  ASSUME Typed, FilesInv, feed.loadType = "STORAGE_FETCH", NEW b \in begun
  PROVE  /\ b \in files /\ b = [drop |-> b.drop, file |-> b.file]
         /\ b.drop \in {<<>>} \cup dirs /\ b.file \in Files
         /\ b.drop \in Seq(Names) /\ Len(b.drop) = feed.depth /\ feed.depth \in Nat
         /\ \A i \in 1 .. feed.depth : b.drop[i].num \in 0 .. MaxNumber \cup {NotANumber}
<1>1. b \in files /\ b \in [drop : {<<>>} \cup dirs, file : Files]
  BY DEF FilesInv, Typed, LandingType
<1>2. b.drop \in {<<>>} \cup dirs /\ b.file \in Files /\ b = [drop |-> b.drop, file |-> b.file]
  BY <1>1
<1>3. b.drop \in Seq(Names)
  BY <1>2, EmptySeq DEF Typed, LandingType
<1>4. Len(b.drop) = feed.depth /\ feed.depth \in Nat
  BY <1>1, BronzeAssumption DEF FilesInv, Typed
<1>5. \A i \in 1 .. feed.depth : b.drop[i] \in Names
  BY <1>3, <1>4, ElementOfSeq
<1>6. QED
  BY <1>1, <1>2, <1>3, <1>4, <1>5, BronzeAssumption

\* A drop below the path is listed there, so the greatest number is not before it.
LEMMA WalkStep ==
    Typed /\ DirsInv /\ FilesInv /\ WalkInv /\ [Next]_vars => WalkInv'
<1> SUFFICES ASSUME Typed, DirsInv, FilesInv, WalkInv, [Next]_vars, pc' = "walk",
                    NEW b \in begun'
             PROVE  \/ \E i \in 1 .. Len(path') : /\ b.drop[i].num < path'[i].num
                                                  /\ SameNumbers(b.drop, path', i - 1)
                    \/ SameNumbers(b.drop, path', Len(path'))
  BY DEF WalkInv, SameNumbers
<1>1. CASE BeginStorage
  <2>1. path' = <<>>
    BY <1>1 DEF BeginStorage, FilesInv
  <2>2. Len(path') = 0
    BY <2>1, EmptySeq
  <2>3. QED
    BY <2>2 DEF SameNumbers
<1>2. CASE Walk
  <2> DEFINE n == Len(path)
             r == SubSeq(b.drop, 1, n + 1)
             m == LatestEntry(Listed)
  <2>1. /\ Listed # {} /\ \A e \in Listed : e.num <= m.num
        /\ \A e \in Listed : e.num # NotANumber
        /\ path \in {<<>>} \cup dirs /\ n < feed.depth
        /\ m.num \in 0 .. MaxNumber
        /\ path' = Append(path, [num |-> m.num, plain |-> TRUE])
        /\ begun' = begun /\ pc = "walk"
    BY <1>2, WalkDown DEF Walk
  <2> HIDE DEF m
  <2>2. path \in Seq(Entries) /\ n \in Nat
    BY LenProperties DEF Typed, LocalsType
  <2>3. /\ Len(path') = n + 1 /\ path'[n + 1].num = m.num
        /\ \A i \in 1 .. n : path'[i] = path[i]
    <3>1. [num |-> m.num, plain |-> TRUE] \in Entries
      BY <2>1 DEF Entries
    <3>2. /\ Len(path') = n + 1 /\ path'[n + 1] = [num |-> m.num, plain |-> TRUE]
          /\ \A i \in 1 .. n : path'[i] = path[i]
      BY <2>1, <2>2, <3>1, AppendProperties
    <3>3. QED
      BY <3>2
  <2>4. feed.loadType = "STORAGE_FETCH" /\ b \in begun
    BY <2>1 DEF FilesInv
  <2>5. CASE \E i \in 1 .. n : b.drop[i].num < path[i].num /\ SameNumbers(b.drop, path, i - 1)
    <3>1. PICK i \in 1 .. n : b.drop[i].num < path[i].num /\ SameNumbers(b.drop, path, i - 1)
      BY <2>5
    <3>2. i \in 1 .. n + 1 /\ \A j \in 1 .. i - 1 : j \in 1 .. n
      BY <2>2, <3>1
    <3>3. QED
      BY <2>3, <3>1, <3>2 DEF SameNumbers
  <2>6. CASE SameNumbers(b.drop, path, n)
    <3>1. /\ b.drop \in {<<>>} \cup dirs /\ b.drop \in Seq(Names)
          /\ Len(b.drop) = feed.depth /\ feed.depth \in Nat
          /\ \A i \in 1 .. feed.depth : b.drop[i].num \in 0 .. MaxNumber \cup {NotANumber}
      BY <2>4, Drop
    <3>2. /\ r \in Seq(Names) /\ Len(r) = n + 1
          /\ \A i \in 1 .. n + 1 : r[i] = b.drop[i]
      <4>1. \A i \in 1 .. n + 1 : b.drop[i] \in Names
        BY <2>1, <2>2, <3>1, ElementOfSeq
      <4>2. r \in Seq(Names) /\ Len(r) = (IF 1 <= n + 1 THEN n + 1 - 1 + 1 ELSE 0)
            /\ \A i \in 1 .. n + 1 - 1 + 1 : r[i] = b.drop[1 + i - 1]
        BY <2>2, <4>1, SubSeqProperties
      <4>3. QED
        BY <2>2, <4>2
    <3>3. r \in dirs
      <4>1. b.drop \in dirs
        BY <2>1, <2>2, <3>1, EmptySeq
      <4>2. CASE n + 1 = feed.depth
        BY <3>1, <4>1, <4>2, SubSeqFull
      <4>3. CASE n + 1 # feed.depth
        <5>1. n + 1 \in 1 .. Len(b.drop) - 1
          BY <2>1, <2>2, <3>1, <4>3
        <5>2. QED
          BY <4>1, <5>1 DEF DirsInv
      <4>4. QED
        BY <4>2, <4>3
    <3> HIDE DEF r
    <3>4. SameNumbers(r, path, n)
      BY <2>2, <2>6, <3>2 DEF SameNumbers
    <3>5. r = Append(path, r[n + 1]) /\ r[n + 1] \in Names
      BY <2>1, <2>2, <3>2, <3>3, <3>4, BelowParent
    <3>6. r[n + 1] \in Listed
      BY <3>3, <3>5 DEF Listed
    <3>7. b.drop[n + 1].num <= m.num /\ b.drop[n + 1].num \in 0 .. MaxNumber
      <4>1. r[n + 1] = b.drop[n + 1] /\ n + 1 \in 1 .. feed.depth
        BY <2>1, <2>2, <3>1, <3>2
      <4>2. QED
        BY <2>1, <3>1, <3>6, <4>1
    <3>8. SameNumbers(b.drop, path', n)
      BY <2>3, <2>6 DEF SameNumbers
    <3>9. CASE b.drop[n + 1].num = m.num
      <4>1. \A i \in 1 .. n + 1 : i = n + 1 \/ i \in 1 .. n
        BY <2>2
      <4>2. QED
        BY <2>3, <3>8, <3>9, <4>1 DEF SameNumbers
    <3>10. CASE b.drop[n + 1].num # m.num
      <4>1. b.drop[n + 1].num < path'[n + 1].num
        BY <2>1, <2>3, <3>7, <3>10, BronzeAssumption
      <4>2. n + 1 \in 1 .. Len(path') /\ n + 1 - 1 = n
        BY <2>2, <2>3
      <4>3. QED
        BY <3>8, <4>1, <4>2
    <3>11. QED
      BY <3>9, <3>10
  <2>7. QED
    BY <2>1, <2>4, <2>5, <2>6 DEF WalkInv
<1>3. CASE ~ BeginStorage /\ ~ Walk
  <2>1. pc = "walk" /\ path' = path /\ begun' = begun
    BY <1>3 DEF Next, Landing, Publish, MakeEntry, AddFile, Run, Fetch, Fail, BeginApi,
                WrongType, Accepted, Retryable, Refused, Retry, Answered, ListFiles, ReadBody,
                SaveTable, CountRows, GoTo, EndRun, vars, environment
  <2>2. QED
    BY <2>1 DEF WalkInv
<1>4. QED
  BY <1>1, <1>2, <1>3

-----------------------------------------------------------------------------
(* What is loaded.                                                         *)

\* The drop at the end of the walk: no other was newer, and its files are found.
LEMMA FoundIsNewest ==
  ASSUME Typed, FilesInv, WalkInv, feed.loadType = "STORAGE_FETCH",
         pc = "walk", Len(path) = feed.depth
  PROVE  Newest(feed, begun, Numbers(path), Found)
<1> SUFFICES ASSUME NEW b \in begun
             PROVE  \/ Older(Numbers(b.drop), Numbers(path))
                    \/ /\ Numbers(b.drop) = Numbers(path)
                       /\ feed.multi /\ PlainPath(b.drop) => b.file \in Found
  BY DEF Newest, Older
<1> DEFINE n == feed.depth
<1>1. /\ b \in files /\ b = [drop |-> b.drop, file |-> b.file] /\ b.file \in Files
      /\ b.drop \in Seq(Names) /\ Len(b.drop) = n /\ n \in Nat
  BY Drop
<1>2. path \in Seq(Entries) /\ Len(path) = n
  BY DEF Typed, LocalsType
<1>3. DOMAIN b.drop = 1 .. n /\ DOMAIN path = 1 .. n
  BY <1>1, <1>2, LenProperties
<1>4. /\ \A i \in 1 .. n : Numbers(b.drop)[i] = b.drop[i].num
      /\ \A i \in 1 .. n : Numbers(path)[i] = path[i].num
  BY <1>3 DEF Numbers
<1>5. CASE \E i \in 1 .. n : b.drop[i].num < path[i].num /\ SameNumbers(b.drop, path, i - 1)
  <2>1. PICK i \in 1 .. n : b.drop[i].num < path[i].num /\ SameNumbers(b.drop, path, i - 1)
    BY <1>5
  <2>2. \A j \in 1 .. i - 1 : j \in 1 .. n
    BY <1>1, <2>1
  <2>3. QED
    BY <1>4, <2>1, <2>2 DEF Older, SameNumbers
<1>6. CASE SameNumbers(b.drop, path, n)
  <2>1. Numbers(b.drop) = Numbers(path)
    BY <1>3, <1>6 DEF Numbers, SameNumbers
  <2>2. ASSUME feed.multi, PlainPath(b.drop) PROVE b.file \in Found
    <3>1. \A i \in 1 .. n : b.drop[i] = path[i]
      <4> SUFFICES ASSUME NEW i \in 1 .. n PROVE b.drop[i] = path[i]
        OBVIOUS
      <4>1. b.drop[i] \in Names /\ path[i] \in Entries
        BY <1>1, <1>2, ElementOfSeq
      <4>2. b.drop[i].num = path[i].num /\ b.drop[i].plain = TRUE
        BY <1>3, <1>6, <2>2, <4>1, BronzeAssumption DEF SameNumbers, PlainPath
      <4>3. b.drop[i] = [num |-> b.drop[i].num, plain |-> b.drop[i].plain]
        BY <4>1, BronzeAssumption
      <4>4. path[i] = [num |-> path[i].num, plain |-> path[i].plain] /\ path[i].plain = TRUE
        BY <4>1 DEF Entries
      <4>5. QED
        BY <4>2, <4>3, <4>4
    <3>2. b.drop = path
      BY <1>1, <1>2, <1>3, <3>1, SeqEqual
    <3>3. QED
      BY <1>1, <2>2, <3>2 DEF Found
  <2>3. QED
    BY <2>1, <2>2
<1>7. QED
  BY <1>2, <1>5, <1>6 DEF WalkInv

LEMMA LoadStep ==
    Typed /\ RequestInv /\ FilesInv /\ WalkInv /\ LoadInv /\ [Next]_vars => LoadInv'
<1> SUFFICES ASSUME Typed, RequestInv, FilesInv, WalkInv, LoadInv, [Next]_vars PROVE LoadInv'
  OBVIOUS
<1> USE DEF LoadInv
<1>2. CASE Publish \/ Landing \/ UNCHANGED vars
  <2>1. UNCHANGED <<feed, begun, pc, path, fetched, table, result>>
    BY <1>2 DEF Landing, Publish, MakeEntry, AddFile, vars, environment, landing
  <2>2. QED
    BY <2>1
<1>3. CASE Run \/ Fail
  <2>1. feed' = feed
    BY <1>3, RunStable DEF environment
  <2>2. CASE Accepted
    <3>1. feed.loadType = "API_EXTRACTOR" /\ begun \subseteq 0 .. published
      BY <2>2 DEF Accepted, Answered, FilesInv
    <3>2. pc' = "read" /\ fetched' = {published} /\ begun' = begun /\ result' = "none"
      BY <2>2 DEF Accepted, Answered, RequestInv
    <3>3. published \in Nat
      BY BronzeAssumption DEF Typed
    <3>4. \A b \in begun' : \A p \in fetched' : p >= b
      BY <3>1, <3>2, <3>3
    <3>5. QED
      BY <2>1, <3>1, <3>2, <3>4 DEF Newest
  <2>3. CASE ListFiles
    <3>1. Newest(feed, begun, Numbers(path), Found)
      BY <2>3, FoundIsNewest DEF ListFiles, FilesInv
    <3>2. \/ pc' = "save" /\ path' = path /\ fetched' = Found /\ result' = "none"
          \/ pc' = "idle" /\ result' = "failed"
      BY <2>3 DEF ListFiles, EndRun, RequestInv
    <3>3. begun' = begun
      BY <2>3 DEF ListFiles
    <3>4. CASE pc' = "save"
      <4>1. Newest(feed, begun, Numbers(path), fetched)'
        BY <2>1, <3>1, <3>2, <3>3, <3>4
      <4>2. QED
        BY <3>2, <3>4, <4>1
    <3>5. QED
      BY <3>2, <3>4
  <2>4. CASE ReadBody
    <3>1. /\ pc = "read" /\ pc' = "save" /\ result' = "none"
          /\ begun' = begun /\ path' = path /\ fetched' = fetched
      BY <2>4 DEF ReadBody, GoTo, RequestInv
    <3>2. QED
      BY <2>1, <3>1
  <2>5. CASE SaveTable
    <3>1. /\ table' = [path |-> Numbers(path), parts |-> fetched]
          /\ pc = "save" /\ pc' = "count" /\ begun' = begun
      BY <2>5 DEF SaveTable, GoTo
    <3>2. table'.path = Numbers(path) /\ table'.parts = fetched
      BY <3>1
    <3>3. Newest(feed, begun, Numbers(path), fetched)
      BY <3>1
    <3>4. Newest(feed, begun, table.path, table.parts)'
      BY <2>1, <3>1, <3>2, <3>3
    <3>5. QED
      BY <3>1, <3>4
  <2>6. CASE CountRows
    <3>1. pc = "count" /\ pc' = "idle" /\ begun' = begun /\ table' = table
      BY <2>6 DEF CountRows, EndRun
    <3>2. QED
      BY <2>1, <3>1
  <2>7. CASE BeginApi \/ WrongType \/ Retryable \/ Refused \/ Retry \/ BeginStorage \/ Walk \/ Fail
    <3>1. pc' \in {"idle", "request", "sleep", "walk"} /\ result' # "loaded"
      BY <2>7 DEF BeginApi, WrongType, Retryable, Refused, Retry, BeginStorage, Walk, Fail,
                  Answered, GoTo, EndRun, RequestInv
    <3>2. QED
      BY <3>1
  <2>8. QED
    BY <1>3, <2>2, <2>3, <2>4, <2>5, <2>6, <2>7 DEF Run, Fetch
<1>4. QED
  BY <1>2, <1>3 DEF Next

-----------------------------------------------------------------------------
(* The theorems.                                                           *)

LandingInv == DirsInv /\ FilesInv /\ WalkInv /\ LoadInv

LEMMA Inductive ==
    Spec => [](Typed /\ RequestInv /\ HonestFailure /\ LandingInv)
<1>1. Init => Typed /\ RequestInv /\ HonestFailure /\ LandingInv
  <2>1. Init => Typed
    BY TypeInit
  <2>2. Init => LandingInv
    BY DEF Init, LandingInv, DirsInv, FilesInv, WalkInv, LoadInv
  <2>3. QED
    BY <2>1, <2>2 DEF Init, RequestInv, HonestFailure
<1>2. Typed /\ RequestInv /\ HonestFailure /\ LandingInv /\ [Next]_vars
        => (Typed /\ RequestInv /\ HonestFailure /\ LandingInv)'
  BY TypeStep, RequestStep, DirsStep, FilesStep, WalkStep, LoadStep DEF LandingInv
<1>3. QED
  BY <1>1, <1>2, PTL DEF Spec

\* Every variable has its type, and a table is made from something: a run
\* that finds no file or payload never overwrites the table.
THEOREM TypeCorrect == Spec => []TypeOK
<1>1. Typed => TypeOK
  <2> SUFFICES ASSUME Typed PROVE TypeOK
    OBVIOUS
  <2>1. PlainPath(path)
    <3>1. DOMAIN path = 1 .. Len(path) /\ path \in Seq(Entries)
      BY LenProperties DEF Typed, LocalsType
    <3>2. \A i \in 1 .. Len(path) : path[i] \in Entries
      BY <3>1, ElementOfSeq
    <3>3. QED
      BY <3>1, <3>2 DEF PlainPath, Entries
  <2>2. QED
    BY <2>1 DEF Typed, LandingType, TableType, LocalsType, TypeOK, Steps, Responses
<1>2. QED
  BY <1>1, Inductive, PTL

\* The error code a failed run reports is the truth about its answers, for any
\* number of attempts and any answers.
THEOREM HonestErrors == Spec => []HonestFailure
BY Inductive, PTL

\* A run that loads leaves a table at least as recent as what there was when
\* it began, however deep the landing directory is and whatever the upstream
\* job does during the run.
THEOREM LoadsNewest == Spec => []LoadedIsNewest
<1>1. LandingInv => LoadedIsNewest
  BY DEF LandingInv, LoadInv, LoadedIsNewest, Newest, Older
<1>2. QED
  BY <1>1, Inductive, PTL

=============================================================================
