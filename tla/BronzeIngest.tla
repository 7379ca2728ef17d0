---------------------------- MODULE BronzeIngest ----------------------------
(***************************************************************************)
(* One bronze feed, loaded again and again without staging: APIExtractor,  *)
(* which requests a payload and retries, or StorageFetch, which walks a    *)
(* MEDALLION landing directory <year>/<month>/<day>/<timestamp>, if it is  *)
(* one, to the newest drop while an upstream job goes on writing drops.    *)
(* Both overwrite the bronze table in one Delta commit and count its rows  *)
(* afterwards.                                                             *)
(***************************************************************************)
EXTENDS Integers, Sequences, FiniteSets

CONSTANTS LoadTypes,     \* API_EXTRACTOR, STORAGE_FETCH
          Attempts,      \* the values of retry.max_attempts
          Formats,       \* the values of response.format, spelled in lower case
          Names,         \* directory entries: the number read, and is the name that number?
          Depths,        \* storage_type: depth of the landing directory, 0 for STANDARD
          Files,         \* the files of a drop
          NotANumber,    \* the name of an entry is no integer
          NoAnswer,      \* the request raised a RequestException
          MaxVersion,    \* bound: payloads the API publishes
          MaxNumber,     \* bound: numbers read from names
          MaxEntries,    \* bound: directories and files the upstream job creates
          NoTable        \* the table does not exist

\* What the code tells apart in an answer. retryAfter "other" is a date, or
\* anything else int() or sleep() refuses.
Answer == [status : {"ok", "retryable", "refused"}, parquet : BOOLEAN,
           retryAfter : {"none", "seconds", "other"}]

ASSUME BronzeAssumption ==
    /\ LoadTypes \subseteq {"API_EXTRACTOR", "STORAGE_FETCH"}
    /\ Attempts \subseteq Nat /\ Formats \subseteq {"parquet", "json"}
    /\ Names \subseteq [num : 0 .. MaxNumber \cup {NotANumber}, plain : BOOLEAN]
    /\ NotANumber \notin Nat /\ NoAnswer \notin Answer
    /\ Depths \subseteq Nat /\ Files \subseteq Nat
    /\ MaxVersion \in Nat /\ MaxEntries \in Nat /\ MaxNumber \in Nat

VARIABLES feed,       \* feed specs
          published,  \* the payload the API serves now
          dirs,       \* landing directory: the paths below lookup_directory
          files,      \* landing directory: the files of the drops
          table,      \* the bronze table: where its rows are from
          pc, attempt, path, fetched,   \* locals of the run
          result,     \* how the last run that ended reported
          answers,    \* history: the answer to each attempt of this run
          begun       \* history: what there was to load when the run began

landing == <<dirs, files>>
environment == <<feed, published, landing>>
vars == <<environment, table, pc, attempt, path, fetched, result, answers, begun>>

GoTo(step) == pc' = step /\ UNCHANGED <<result, path, fetched, attempt>>
EndRun(outcome) == pc' = "idle" /\ result' = outcome /\ attempt' = 0 /\ path' = <<>> /\ fetched' = {}

Numbers(p) == [i \in DOMAIN p |-> p[i].num]
PlainPath(p) == \A i \in DOMAIN p : p[i].plain

-----------------------------------------------------------------------------

Init ==
    /\ feed \in [loadType : LoadTypes, attempts : Attempts, format : Formats,
                multi : BOOLEAN, depth : Depths]
    /\ feed.loadType = "STORAGE_FETCH" =>
         feed.attempts = (CHOOSE n \in Attempts : TRUE) /\ feed.format = (CHOOSE f \in Formats : TRUE)
    /\ feed.loadType = "API_EXTRACTOR" => ~ feed.multi /\ feed.depth = 0
    /\ published = 0 /\ dirs = {} /\ files = {}
    /\ table = NoTable
    /\ pc = "idle" /\ attempt = 0 /\ path = <<>> /\ fetched = {}
    /\ result = "none" /\ answers = <<>> /\ begun = {}

\* The API serves a new payload.
Publish ==
    /\ feed.loadType = "API_EXTRACTOR" /\ published < MaxVersion
    /\ published' = published + 1
    /\ UNCHANGED <<feed, landing, table, pc, attempt, path, fetched, result, answers, begun>>

Room == Cardinality(dirs) + Cardinality(files) < MaxEntries

\* The upstream job creates an entry below a directory, with or without leading
\* zeros but never both, or an entry that is no number at all.
MakeEntry ==
    /\ feed.loadType = "STORAGE_FETCH" /\ Room
    /\ \E parent \in {<<>>} \cup dirs, n \in Names :
         /\ Len(parent) < feed.depth
         /\ \A i \in DOMAIN parent : parent[i].num # NotANumber
         /\ \A m \in Names : Append(parent, m) \in dirs => m.num # n.num
         /\ dirs' = dirs \cup {Append(parent, n)}
    /\ UNCHANGED <<feed, published, files, table, pc, attempt, path, fetched, result, answers, begun>>

\* A file of a drop is complete.
AddFile ==
    /\ feed.loadType = "STORAGE_FETCH" /\ Room
    /\ \E drop \in {<<>>} \cup dirs, i \in Files :
         /\ Len(drop) = feed.depth
         /\ \A j \in DOMAIN drop : drop[j].num # NotANumber
         /\ files' = files \cup {[drop |-> drop, file |-> i]}
    /\ UNCHANGED <<feed, published, dirs, table, pc, attempt, path, fetched, result, answers, begun>>

Landing == MakeEntry \/ AddFile

-----------------------------------------------------------------------------
(* APIExtractor                                                            *)

\* Only parquet is implemented (HF051); without any attempt the loop is over
\* before it begins.
BeginApi ==
    /\ pc = "idle" /\ feed.loadType = "API_EXTRACTOR"
    /\ answers' = <<>> /\ begun' = {published}
    /\ IF feed.format # "parquet" THEN EndRun("HF051")
       ELSE IF feed.attempts < 1 THEN EndRun("HF053")
       ELSE pc' = "request" /\ attempt' = 1 /\ result' = "none" /\ UNCHANGED <<path, fetched>>
    /\ UNCHANGED <<environment, table>>

\* The request is answered, or raises.
Answered(answer) ==
    /\ pc = "request"
    /\ answers' = [i \in 1 .. attempt |-> IF i = attempt THEN answer ELSE answers[i]]
    /\ UNCHANGED <<environment, table, begun>>

\* An answer of the wrong type ends the run, whatever its status.
WrongType ==
    /\ \E answer \in Answer : ~ answer.parquet /\ Answered(answer)
    /\ EndRun("HF052")

\* A payload: its body is read afterwards.
Accepted ==
    /\ \E answer \in Answer : answer.parquet /\ answer.status = "ok" /\ Answered(answer)
    /\ pc' = "read" /\ fetched' = {published}
    /\ UNCHANGED <<result, path, attempt>>

\* A status worth a retry: the loop sleeps and goes on, after the last attempt
\* as well; a Retry-After it cannot use ends the run.
Retryable ==
    \E answer \in Answer :
      /\ answer.parquet /\ answer.status = "retryable" /\ Answered(answer)
      /\ IF answer.retryAfter = "other" THEN EndRun("failed") ELSE GoTo("sleep")

\* Faulty variant: the loop stops one attempt early.
RefusedEarly ==
    /\ \E answer \in Answer \cup {NoAnswer} :
         /\ answer = NoAnswer \/ answer \in {r \in Answer : r.parquet /\ r.status = "refused"}
         /\ Answered(answer)
    /\ IF attempt >= feed.attempts - 1 THEN EndRun("HF053") ELSE GoTo("sleep")

\* A timeout, a lost connection, or raise_for_status: the last attempt gives up.
Refused ==
    /\ \E answer \in Answer \cup {NoAnswer} :
         /\ answer = NoAnswer \/ answer \in {r \in Answer : r.parquet /\ r.status = "refused"}
         /\ Answered(answer)
    /\ IF attempt >= feed.attempts THEN EndRun("HF053") ELSE GoTo("sleep")

\* Faulty variant: the attempt is not counted.
RetrySame ==
    /\ pc = "sleep"
    /\ GoTo("request")
    /\ UNCHANGED <<environment, table, answers, begun>>

\* After __sleep_before_retry the loop takes the next attempt, if there is one.
Retry ==
    /\ pc = "sleep"
    /\ IF attempt + 1 > feed.attempts
       THEN EndRun("HF053")
       ELSE pc' = "request" /\ attempt' = attempt + 1 /\ UNCHANGED <<result, path, fetched>>
    /\ UNCHANGED <<environment, table, answers, begun>>

-----------------------------------------------------------------------------
(* StorageFetch                                                            *)

BeginStorage ==
    /\ pc = "idle" /\ feed.loadType = "STORAGE_FETCH"
    /\ answers' = <<>> /\ begun' = files
    /\ pc' = "walk" /\ result' = "none"
    /\ UNCHANGED <<environment, table, attempt, path, fetched>>

Listed == {n \in Names : Append(path, n) \in dirs}

\* Faulty variant: the comparison is the wrong way round.
OldestEntry(entries) == CHOOSE m \in entries : \A n \in entries : m.num <= n.num

\* The greatest number among the entries.
LatestEntry(entries) == CHOOSE m \in entries : \A n \in entries : n.num <= m.num

\* One level down: the name is made from the number, without leading zeros.
\* Nothing listed makes it "-inf", which is not there, like the directory made
\* from a name with leading zeros; a name that is no integer raises.
Walk ==
    /\ pc = "walk" /\ Len(path) < feed.depth
    /\ IF /\ path = <<>> \/ path \in dirs
          /\ Listed # {}
          /\ \A n \in Listed : n.num # NotANumber
       THEN /\ path' = Append(path, [num |-> LatestEntry(Listed).num, plain |-> TRUE])
            /\ UNCHANGED <<pc, result, fetched, attempt>>
       ELSE EndRun("failed")
    /\ UNCHANGED <<environment, table, answers, begun>>

Found == {f \in Files : [drop |-> path, file |-> f] \in files /\ (feed.multi \/ f = 1)}

\* Faulty variant: it is not noticed that there is no file.
ListUnchecked ==
    /\ pc = "walk" /\ Len(path) = feed.depth
    /\ pc' = "save" /\ fetched' = Found
    /\ UNCHANGED <<result, path, attempt>>
    /\ UNCHANGED <<environment, table, answers, begun>>

\* The files of the drop are listed: those of its type, or file_name.
ListFiles ==
    /\ pc = "walk" /\ Len(path) = feed.depth
    /\ IF Found = {} THEN EndRun("failed")
       ELSE pc' = "save" /\ fetched' = Found /\ UNCHANGED <<result, path, attempt>>
    /\ UNCHANGED <<environment, table, answers, begun>>

-----------------------------------------------------------------------------
(* Both: the bronze table.                                                 *)

\* The body is received and kept in a file of its own for Spark to read.
ReadBody ==
    /\ pc = "read"
    /\ GoTo("save")
    /\ UNCHANGED <<environment, table, answers, begun>>

\* The table is overwritten in one commit.
SaveTable ==
    /\ pc = "save"
    /\ table' = [path |-> Numbers(path), parts |-> fetched]
    /\ GoTo("count")
    /\ UNCHANGED <<environment, answers, begun>>

CountRows ==
    /\ pc = "count"
    /\ EndRun("loaded")
    /\ UNCHANGED <<environment, table, answers, begun>>

\* A step that raises, or the process dies; nothing is fetched again. If the
\* count fails the table has been overwritten.
Fail ==
    /\ pc \in {"walk", "read", "save", "count"}
    /\ EndRun("failed")
    /\ UNCHANGED <<environment, table, answers, begun>>

Fetch ==
    \/ BeginApi \/ WrongType \/ Accepted \/ Retryable \/ Refused \/ Retry
    \/ BeginStorage \/ Walk \/ ListFiles

Run == Fetch \/ ReadBody \/ SaveTable \/ CountRows

Next == Publish \/ Landing \/ Run \/ Fail

\* A run goes on: a request is answered or times out, and sleeps are bounded by
\* max_backoff.
Spec == Init /\ [][Next]_vars /\ WF_vars(Run)

-----------------------------------------------------------------------------
(* Properties.                                                             *)

\* Every variable has its type; a table is made from something.
TypeOK ==
    /\ feed \in [loadType : LoadTypes, attempts : Attempts, format : Formats,
                multi : BOOLEAN, depth : Depths]
    /\ published \in 0 .. MaxVersion
    /\ \A d \in dirs : d \in Seq(Names) /\ Len(d) \in 1 .. feed.depth
    /\ files \subseteq [drop : {<<>>} \cup dirs, file : Files]
    /\ table = NoTable \/ (table.path \in Seq(Nat) /\ table.parts # {} /\ table.parts \subseteq Nat)
    /\ pc \in {"idle", "request", "sleep", "walk", "read", "save", "count"}
    /\ attempt \in Nat /\ PlainPath(path) /\ Len(path) <= feed.depth
    /\ result \in {"none", "loaded", "failed", "HF051", "HF052", "HF053"}
    /\ answers \in Seq(Answer \cup {NoAnswer})

\* The error code of a run that failed is the truth about its answers: it gave
\* up (HF053) after exactly max_attempts requests none of which brought a
\* payload, it was sent the wrong type (HF052) just now and never before, and it
\* asked for nothing in a format it cannot read (HF051).
HonestFailure ==
    /\ result = "HF053" =>
         /\ Len(answers) = feed.attempts
         /\ \A i \in DOMAIN answers :
              answers[i] = NoAnswer \/ (answers[i].parquet /\ answers[i].status # "ok")
    /\ result = "HF052" =>
         \A i \in DOMAIN answers :
            (answers[i] # NoAnswer /\ ~ answers[i].parquet) <=> i = Len(answers)
    /\ result = "HF051" => answers = <<>>

Older(p, q) == \E i \in 1 .. feed.depth : p[i] < q[i] /\ \A j \in 1 .. i - 1 : p[j] = q[j]

\* A run that loads leaves a table at least as recent as what there was when it
\* began, however the upstream job goes on meanwhile: no drop that had a file
\* then is newer than the loaded one, none of the files of the loaded drop that
\* were there is missing, and no payload is older than the one published then.
LoadedIsNewest ==
    result = "loaded" =>
      \A b \in begun :
        CASE feed.loadType = "API_EXTRACTOR" -> \A p \in table.parts : p >= b
          [] OTHER ->
               \/ Older(Numbers(b.drop), table.path)
               \/ /\ Numbers(b.drop) = table.path
                  /\ feed.multi /\ PlainPath(b.drop) => b.file \in table.parts

\* Every run ends: retries do not go on for ever, whatever the answers.
RunEnds == pc # "idle" ~> pc = "idle"

=============================================================================
