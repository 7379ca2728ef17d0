------------------------- MODULE Orchestration_proofs -------------------------
(***************************************************************************)
(* Proofs about the two modules of an orchestrator run that meet in the    *)
(* contract LoadBatch: DataLoadController, which implements the contract,  *)
(* and BatchRun, which uses two controllers of which it knows only that.   *)
(*                                                                         *)
(* Part 1: the safety properties of the controller hold for every set of   *)
(* feeds, every grouping and every configured number of workers. They are  *)
(* not inductive: that a group is submitted after its predecessors were    *)
(* collected follows from what is known of the group in flight (InFlight)  *)
(* and from a group being submitted as a whole (Whole).                    *)
(*                                                                         *)
(* Part 2: the safety properties of a run hold for any feeds, chains of    *)
(* sources, configurations of checks and outcomes.                         *)
(***************************************************************************)
EXTENDS DataLoadController, BatchRun, FiniteSetTheorems, TLAPS

-----------------------------------------------------------------------------
(* Part 1: the controller.                                                 *)

\* A feed that left the waiting state and was not yet collected belongs to the
\* group in flight, and nothing of that group is waiting.
InFlight ==
    \A f \in Feeds :
        /\ state[f] \in {"queued", "running", "ended"} => current = groupOf[f]
        /\ current = groupOf[f] => state[f] # "waiting"

\* The feeds of a group are submitted together.
Whole ==
    \A f, g \in Feeds :
        groupOf[f] = groupOf[g] /\ state[f] = "waiting" => state[g] = "waiting"

\* What each phase of run() implies about the feeds.
PhaseInv ==
    /\ runPhase = "ready" => \A f \in Feeds : state[f] = "waiting"
    /\ runPhase = "returned" => \A f \in Feeds : state[f] = "collected"
    /\ runPhase = "raised" => \A f \in Feeds : state[f] \in {"waiting", "collected"}

\* The gathered results are those of the collected feeds, and stay unseen
\* until run() returns.
Gathered ==
    /\ runPhase # "raised" =>
         \A f \in Feeds : state[f] = "collected" =>
            executed[f] = IF produced[f] = Escaped THEN PoolFailure ELSE produced[f]
    /\ runPhase = "returned" => published = executed
    /\ runPhase # "returned" => published = [f \in Feeds |-> NotRun]

ControllerInv ==
    ControllerTypeOK /\ InFlight /\ Whole /\ PhaseInv /\ GroupBarrier /\ WorkerBound
        /\ Gathered /\ RaisesOnlyAlone

-----------------------------------------------------------------------------

\* Feeds, groups and the set of running feeds are finite.
LEMMA FiniteGroups ==
    /\ \A g : IsFiniteSet(InGroup(g)) /\ Cardinality(InGroup(g)) \in Nat
    /\ IsFiniteSet(Running) /\ Cardinality(Running) \in Nat
<1>1. \A S \in SUBSET Feeds : IsFiniteSet(S) /\ Cardinality(S) \in Nat
  BY ControllerAssumption, FS_Subset, FS_CardinalityType
<1>2. /\ \A g : InGroup(g) \in SUBSET Feeds
      /\ Running \in SUBSET Feeds
  BY DEF InGroup, Running
<1>3. QED
  BY <1>1, <1>2

\* One feed more, or one feed less, is running.
LEMMA OneMoreOrLess ==
    ASSUME NEW S, IsFiniteSet(S), NEW x
    PROVE  /\ Cardinality(S) \in Nat
           /\ Cardinality(S \cup {x}) \in Nat /\ Cardinality(S \cup {x}) <= Cardinality(S) + 1
           /\ Cardinality(S \ {x}) \in Nat /\ Cardinality(S \ {x}) <= Cardinality(S)
<1>1. Cardinality(S) \in Nat
  BY FS_CardinalityType
<1>2. CASE x \in S
  <2>1. S \cup {x} = S
    BY <1>2
  <2>2. Cardinality(S \ {x}) = Cardinality(S) - 1
    BY <1>2, FS_RemoveElement
  <2>3. IsFiniteSet(S \ {x})
    BY FS_RemoveElement
  <2>4. Cardinality(S \ {x}) \in Nat
    BY <2>3, FS_CardinalityType
  <2>5. QED
    BY <1>1, <2>1, <2>2, <2>4
<1>3. CASE x \notin S
  <2>1. S \ {x} = S
    BY <1>3
  <2>2. Cardinality(S \cup {x}) = Cardinality(S) + 1
    BY <1>3, FS_AddElement
  <2>3. QED
    BY <1>1, <2>1, <2>2
<1>4. QED
  BY <1>2, <1>3

\* A group that is not pooled consists of the one feed it was asked about.
LEMMA AloneInGroup ==
    ASSUME NEW f \in Feeds, ~ Pooled(groupOf[f])
    PROVE  InGroup(groupOf[f]) = {f}
<1> DEFINE G == InGroup(groupOf[f])
<1>1. f \in G /\ IsFiniteSet(G) /\ Cardinality(G) \in Nat
  BY FiniteGroups DEF InGroup
<1>2. Cardinality(G) # 0
  BY <1>1, FS_EmptySet
<1>3. Cardinality(G) = 1
  BY <1>1, <1>2 DEF Pooled
<1>4. \E x : G = {x}
  BY <1>1, <1>3, FS_Singleton
<1>5. QED
  BY <1>1, <1>4

\* The floor on the number of workers.
LEMMA MaxWorkersFloor ==
    ASSUME NEW n \in Int
    PROVE  MaxWorkers(n) \in Int /\ MaxWorkers(n) >= 1
BY DEF MaxWorkers

-----------------------------------------------------------------------------

\* Type correctness: run() and the dispatcher keep every variable in its type.
LEMMA ControllerTypeStep ==
    ControllerTypeOK /\ [ControllerNext]_controllerVars => ControllerTypeOK'
<1> SUFFICES ASSUME ControllerTypeOK, [ControllerNext]_controllerVars PROVE ControllerTypeOK'
  OBVIOUS
<1> USE DEF ControllerTypeOK, FeedStates
<1>1. CASE Prepare
  BY <1>1 DEF Prepare
<1>2. ASSUME NEW g \in GroupNumbers, StartGroup(g) PROVE ControllerTypeOK'
  BY <1>2 DEF StartGroup
<1>3. ASSUME NEW f \in Feeds, TakeFeed(f) PROVE ControllerTypeOK'
  BY <1>3 DEF TakeFeed
<1>4. ASSUME NEW f \in Feeds, FinishFeed(f) PROVE ControllerTypeOK'
  BY <1>4 DEF FinishFeed, LoadResults
<1>5. ASSUME NEW f \in Feeds, DispatchRaises(f) PROVE ControllerTypeOK'
  BY <1>5 DEF DispatchRaises
<1>6. ASSUME NEW f \in Feeds, Collect(f) PROVE ControllerTypeOK'
  <2>1. PoolFailure \in LoadResults
    BY DEF LoadResults
  <2>2. QED
    BY <1>6, <2>1 DEF Collect
<1>7. CASE EndGroup
  BY <1>7 DEF EndGroup
<1>8. CASE Publish
  BY <1>8 DEF Publish
<1>9. CASE UNCHANGED controllerVars
  BY <1>9 DEF controllerVars
<1>10. QED
  BY <1>1, <1>2, <1>3, <1>4, <1>5, <1>6, <1>7, <1>8, <1>9 DEF ControllerNext

\* The initial states satisfy the inductive invariant.
LEMMA ControllerInitInv == ControllerInit => ControllerInv
<1> SUFFICES ASSUME ControllerInit PROVE ControllerInv
  OBVIOUS
<1>1. maxWorkers \in Int /\ maxWorkers >= 1
  BY MaxWorkersFloor, ControllerAssumption DEF ControllerInit
<1>2. ControllerTypeOK
  BY <1>1 DEF ControllerInit, ControllerTypeOK, FeedStates
<1>3. Running = {}
  BY DEF ControllerInit, Running
<1>4. WorkerBound
  BY <1>1, <1>3, FS_EmptySet DEF WorkerBound
<1>5. InFlight
  BY ControllerAssumption DEF ControllerInit, InFlight
<1>6. QED
  BY <1>2, <1>4, <1>5
     DEF ControllerInit, ControllerInv, Whole, PhaseInv, GroupBarrier, Gathered, RaisesOnlyAlone

-----------------------------------------------------------------------------

\* How a step moves the feeds through their states: this is all the lemmas
\* about groups need to know of a step other than the start of a group.
LEMMA InFlightStep ==
    ControllerInv /\ [ControllerNext]_controllerVars => InFlight' /\ Whole' /\ PhaseInv'
<1> SUFFICES ASSUME ControllerInv, [ControllerNext]_controllerVars
             PROVE  InFlight' /\ Whole' /\ PhaseInv'
  OBVIOUS
<1> USE DEF ControllerInv, ControllerTypeOK, FeedStates, InFlight, Whole, PhaseInv
<1>1. CASE Prepare
  BY <1>1 DEF Prepare
<1>2. ASSUME NEW g \in GroupNumbers, StartGroup(g)
      PROVE  InFlight' /\ Whole' /\ PhaseInv'
  <2>1. \A f \in Feeds : state[f] \in {"waiting", "collected"}
    BY <1>2, ControllerAssumption DEF StartGroup
  <2>2. \A f \in Feeds : state'[f] = IF groupOf[f] # g THEN state[f]
                                     ELSE IF Pooled(g) THEN "queued" ELSE "running"
    BY <1>2 DEF StartGroup
  <2>3. current' = g /\ groupOf' = groupOf /\ runPhase' = "executing"
    BY <1>2 DEF StartGroup
  <2>4. QED
    BY <2>1, <2>2, <2>3
<1>3. ASSUME NEW f \in Feeds, TakeFeed(f) PROVE InFlight' /\ Whole' /\ PhaseInv'
  BY <1>3 DEF TakeFeed
<1>4. ASSUME NEW f \in Feeds, FinishFeed(f) PROVE InFlight' /\ Whole' /\ PhaseInv'
  BY <1>4 DEF FinishFeed
<1>5. ASSUME NEW f \in Feeds, DispatchRaises(f)
      PROVE  InFlight' /\ Whole' /\ PhaseInv'
  BY <1>5 DEF DispatchRaises
<1>6. ASSUME NEW f \in Feeds, Collect(f) PROVE InFlight' /\ Whole' /\ PhaseInv'
  <2>1. state' = [state EXCEPT ![f] = "collected"] /\ state[f] = "ended"
        /\ current' = current /\ groupOf' = groupOf
    BY <1>6 DEF Collect
  <2>2. InFlight' /\ Whole'
    BY <2>1
  <2>3. CASE runPhase' = runPhase
    BY <2>1, <2>3
  <2>4. CASE runPhase' # runPhase
    <3>1. runPhase' = "raised" /\ ~ Pooled(groupOf[f])
      BY <1>6, <2>4 DEF Collect
    <3>2. \A g \in Feeds : groupOf[g] = groupOf[f] => g = f
      BY <3>1, AloneInGroup DEF InGroup
    <3>3. \A g \in Feeds : g # f => state[g] \in {"waiting", "collected"}
      BY <2>1, <3>2
    <3>4. QED
      BY <2>1, <2>2, <3>1, <3>3
  <2>5. QED
    BY <2>2, <2>3, <2>4
<1>7. CASE EndGroup
  <2>1. \A f \in Feeds : state[f] \in {"waiting", "collected"}
    BY <1>7 DEF EndGroup, InGroup
  <2>2. QED
    BY <1>7, <2>1, ControllerAssumption DEF EndGroup
<1>8. CASE Publish
  <2>1. \A f \in Feeds : state[f] = "collected"
    BY <1>8, ControllerAssumption DEF Publish, Pending
  <2>2. QED
    BY <1>8, <2>1 DEF Publish
<1>9. CASE UNCHANGED controllerVars
  BY <1>9 DEF controllerVars
<1>10. QED
  BY <1>1, <1>2, <1>3, <1>4, <1>5, <1>6, <1>7, <1>8, <1>9 DEF ControllerNext

-----------------------------------------------------------------------------

\* The barrier between groups: only the start of a group can disturb it, and
\* it starts the lowest pending one when nothing is in flight.
LEMMA BarrierStep == ControllerInv /\ [ControllerNext]_controllerVars => GroupBarrier'
<1> SUFFICES ASSUME ControllerInv, [ControllerNext]_controllerVars,
                    NEW f \in Feeds, NEW h \in Feeds,
                    (groupOf[f] < groupOf[h])', (state[h] # "waiting")'
             PROVE  (state[f] = "collected")'
  BY DEF GroupBarrier
<1> USE DEF ControllerInv, ControllerTypeOK, FeedStates, GroupBarrier
<1>1. CASE \E g \in GroupNumbers : StartGroup(g)
  <2>1. PICK g \in GroupNumbers : StartGroup(g)
    BY <1>1
  <2>2. \A x \in Feeds : state[x] \in {"waiting", "collected"}
    BY <2>1, ControllerAssumption DEF StartGroup, InFlight
  <2>3. PICK x \in Feeds : state[x] = "waiting" /\ groupOf[x] = g
    BY <2>1 DEF StartGroup, Pending
  <2>4. groupOf' = groupOf
        /\ \A y \in Feeds : groupOf[y] # g => state'[y] = state[y]
    BY <2>1 DEF StartGroup
  <2>5. state[f] = "collected"
    <3>1. CASE groupOf[h] = g
      <4>1. groupOf[f] < g /\ groupOf[f] \in Int /\ g \in Int
        BY <2>4, <3>1, ControllerAssumption
      <4>2. groupOf[f] \notin Pending
        BY <4>1, <2>1 DEF StartGroup
      <4>3. QED
        BY <4>2, <2>2 DEF Pending
    <3>2. CASE groupOf[h] # g
      BY <2>4, <3>2
    <3>3. QED
      BY <3>1, <3>2
  <2>6. groupOf[f] # g
    BY <2>3, <2>5 DEF Whole
  <2>7. QED
    BY <2>4, <2>5, <2>6
<1>2. CASE \E x \in Feeds : TakeFeed(x)
  BY <1>2 DEF TakeFeed
<1>3. CASE \E x \in Feeds : FinishFeed(x)
  BY <1>3 DEF FinishFeed
<1>4. CASE \E x \in Feeds : DispatchRaises(x)
  BY <1>4 DEF DispatchRaises
<1>5. CASE \E x \in Feeds : Collect(x)
  BY <1>5 DEF Collect
<1>6. CASE Prepare \/ EndGroup \/ Publish \/ UNCHANGED controllerVars
  BY <1>6 DEF Prepare, EndGroup, Publish, controllerVars
<1>7. QED
  BY <1>1, <1>2, <1>3, <1>4, <1>5, <1>6 DEF ControllerNext

\* The pool never holds more running feeds than workers, and a feed on the
\* calling thread is the only one running.
LEMMA WorkerStep == ControllerInv /\ [ControllerNext]_controllerVars => WorkerBound'
<1> SUFFICES ASSUME ControllerInv, [ControllerNext]_controllerVars
             PROVE  WorkerBound'
  OBVIOUS
<1> USE DEF ControllerInv, ControllerTypeOK, FeedStates, WorkerBound
<1>0. /\ IsFiniteSet(Running) /\ Cardinality(Running) \in Nat
      /\ \A g : IsFiniteSet(InGroup(g)) /\ Cardinality(InGroup(g)) \in Nat
  BY FiniteGroups
<1>1. ASSUME NEW g \in GroupNumbers, StartGroup(g) PROVE WorkerBound'
  <2>1. maxWorkers' = maxWorkers
    BY <1>1 DEF StartGroup
  <2>2. \A x \in Feeds : state[x] \in {"waiting", "collected"}
    BY <1>1, ControllerAssumption DEF StartGroup, InFlight
  <2>3. Running' = IF Pooled(g) THEN {} ELSE InGroup(g)
    BY <1>1, <2>2 DEF StartGroup, Running, InGroup
  <2>4. ~ Pooled(g) => Cardinality(InGroup(g)) <= 1
    BY <1>0 DEF Pooled
  <2>5. Cardinality(Running') <= 1
    BY <2>3, <2>4, FS_EmptySet
  <2>6. Cardinality(Running') \in Nat
    BY <1>0, <2>3, FS_EmptySet
  <2>7. QED
    BY <2>1, <2>5, <2>6
<1>2. ASSUME NEW f \in Feeds, TakeFeed(f) PROVE WorkerBound'
  <2>1. Running' = Running \cup {f} /\ maxWorkers' = maxWorkers
    BY <1>2 DEF TakeFeed, Running
  <2>2. Cardinality(Running) < maxWorkers
    BY <1>0, <1>2 DEF TakeFeed, Workers
  <2>3. Cardinality(Running') \in Nat /\ Cardinality(Running') <= Cardinality(Running) + 1
    BY <1>0, <2>1, OneMoreOrLess
  <2>4. QED
    BY <1>0, <2>1, <2>2, <2>3
<1>3. ASSUME NEW f \in Feeds, FinishFeed(f) \/ DispatchRaises(f) PROVE WorkerBound'
  <2>1. Running' = Running \ {f} /\ maxWorkers' = maxWorkers
    BY <1>3 DEF FinishFeed, DispatchRaises, Running
  <2>2. /\ Cardinality(Running') <= Cardinality(Running)
        /\ Cardinality(Running') \in Nat
    BY <1>0, <2>1, OneMoreOrLess
  <2>3. QED
    BY <1>0, <2>1, <2>2
<1>4. ASSUME NEW f \in Feeds, Collect(f) PROVE WorkerBound'
  <2>1. Running' = Running /\ maxWorkers' = maxWorkers
    BY <1>4 DEF Collect, Running
  <2>2. QED
    BY <2>1
<1>5. CASE Prepare \/ EndGroup \/ Publish \/ UNCHANGED controllerVars
  <2>1. Running' = Running /\ maxWorkers' = maxWorkers
    BY <1>5 DEF Prepare, EndGroup, Publish, controllerVars, Running
  <2>2. QED
    BY <2>1
<1>6. QED
  BY <1>1, <1>2, <1>3, <1>4, <1>5 DEF ControllerNext

\* Gathering results: the outcome of a feed does not change once it ended.
LEMMA GatheredStep ==
    ControllerInv /\ [ControllerNext]_controllerVars => Gathered' /\ RaisesOnlyAlone'
<1> SUFFICES ASSUME ControllerInv, [ControllerNext]_controllerVars
             PROVE  Gathered' /\ RaisesOnlyAlone'
  OBVIOUS
<1> USE DEF ControllerInv, ControllerTypeOK, FeedStates, Gathered, RaisesOnlyAlone, InGroup
<1>1. ASSUME NEW g \in GroupNumbers, StartGroup(g)
      PROVE  Gathered' /\ RaisesOnlyAlone'
  <2>1. /\ \A x \in Feeds : state'[x] = "collected" => state[x] = "collected"
        /\ runPhase = "executing" /\ runPhase' = "executing"
        /\ executed' = executed /\ produced' = produced /\ published' = published
    BY <1>1 DEF StartGroup
  <2>2. QED
    BY <2>1
<1>2. ASSUME NEW f \in Feeds, TakeFeed(f) PROVE Gathered' /\ RaisesOnlyAlone'
  BY <1>2 DEF TakeFeed
<1>3. ASSUME NEW f \in Feeds, FinishFeed(f) \/ DispatchRaises(f)
      PROVE  Gathered' /\ RaisesOnlyAlone'
  <2>1. /\ state[f] = "running" /\ state' = [state EXCEPT ![f] = "ended"]
        /\ \A x \in Feeds : x # f => produced'[x] = produced[x]
        /\ runPhase' = runPhase /\ executed' = executed /\ published' = published
        /\ groupOf' = groupOf
    BY <1>3 DEF FinishFeed, DispatchRaises
  <2>2. runPhase # "raised" /\ runPhase # "returned"
    BY <2>1 DEF PhaseInv
  <2>3. QED
    BY <2>1, <2>2
<1>4. ASSUME NEW f \in Feeds, Collect(f) PROVE Gathered' /\ RaisesOnlyAlone'
  <2>1. /\ state[f] = "ended" /\ state' = [state EXCEPT ![f] = "collected"]
        /\ produced' = produced /\ published' = published /\ groupOf' = groupOf
    BY <1>4 DEF Collect
  <2>2. runPhase # "raised" /\ runPhase # "returned"
    BY <2>1 DEF PhaseInv
  <2>3. CASE produced[f] = Escaped /\ ~ Pooled(groupOf[f])
    <3>1. runPhase' = "raised"
      BY <1>4, <2>3 DEF Collect
    <3>2. InGroup(groupOf[f]) = {f}
      BY <2>3, AloneInGroup
    <3>3. QED
      BY <2>1, <2>2, <2>3, <3>1, <3>2
  <2>4. CASE ~ (produced[f] = Escaped /\ ~ Pooled(groupOf[f]))
    BY <1>4, <2>1, <2>2, <2>4 DEF Collect
  <2>5. QED
    BY <2>3, <2>4
<1>5. CASE Publish
  BY <1>5 DEF Publish
<1>6. CASE Prepare \/ EndGroup \/ UNCHANGED controllerVars
  BY <1>6 DEF Prepare, EndGroup, controllerVars
<1>7. QED
  BY <1>1, <1>2, <1>3, <1>4, <1>5, <1>6 DEF ControllerNext

-----------------------------------------------------------------------------

\* The inductive invariant holds in every reachable state.
THEOREM ControllerInvariance == ControllerSpec => []ControllerInv
<1>1. ControllerInv /\ [ControllerNext]_controllerVars => ControllerInv'
  BY ControllerTypeStep, InFlightStep, BarrierStep, WorkerStep, GatheredStep DEF ControllerInv
<1>2. QED
  BY ControllerInitInv, <1>1, PTL DEF ControllerSpec

\* Every variable keeps its type.
THEOREM ControllerTypeCorrect == ControllerSpec => []ControllerTypeOK
BY ControllerInvariance, PTL DEF ControllerInv

\* A group starts only when all earlier groups have been collected.
THEOREM Barrier == ControllerSpec => []GroupBarrier
BY ControllerInvariance, PTL DEF ControllerInv

\* At least one worker, never more feeds running than workers.
THEOREM Workforce == ControllerSpec => []WorkerBound
BY ControllerInvariance, PTL DEF ControllerInv

\* When run() returns, its list holds the outcome of every feed.
THEOREM Completeness == ControllerSpec => []NoResultLost
<1>1. ControllerInv => NoResultLost
  BY DEF ControllerInv, PhaseInv, Gathered, NoResultLost
<1>2. QED
  BY ControllerInvariance, <1>1, PTL

\* An exception leaves run() only from a feed alone in its group.
THEOREM RaiseContained == ControllerSpec => []RaisesOnlyAlone
BY ControllerInvariance, PTL DEF ControllerInv

-----------------------------------------------------------------------------
(* The controller implements LoadBatch.                                    *)

\* A feed that has ended has a result or an exception, and nothing is gathered
\* for a feed before it is collected.
Outcomes ==
    \A f \in Feeds :
        /\ state[f] \in {"ended", "collected"} => produced[f] \in LoadResults \cup {Escaped}
        /\ state[f] # "collected" => executed[f] = NotRun

\* No LoadResult is mistaken for the absence of one.
LEMMA ResultsDistinct == NotRun \notin LoadResults
BY DEF NotRun, LoadResults, Dispatch, PoolFailure

\* Outcomes is preserved by every step.
LEMMA OutcomesStep == ControllerInv /\ Outcomes /\ [ControllerNext]_controllerVars => Outcomes'
<1> SUFFICES ASSUME ControllerInv, Outcomes, [ControllerNext]_controllerVars PROVE Outcomes'
  OBVIOUS
<1> USE DEF ControllerInv, ControllerTypeOK, FeedStates, Outcomes
<1>1. ASSUME NEW g \in GroupNumbers, StartGroup(g) PROVE Outcomes'
  <2>1. /\ \A x \in Feeds : state'[x] = state[x] \/ state'[x] \in {"queued", "running"}
        /\ \A x \in Feeds : state'[x] # state[x] => state[x] # "collected"
        /\ produced' = produced /\ executed' = executed
    <3>1. ASSUME NEW x \in Feeds, groupOf[x] = g PROVE state[x] = "waiting"
      BY <1>1, <3>1 DEF StartGroup, Pending, Whole
    <3>2. QED
      BY <1>1, <3>1 DEF StartGroup
  <2>2. QED
    BY <2>1
<1>2. ASSUME NEW f \in Feeds, TakeFeed(f) PROVE Outcomes'
  BY <1>2 DEF TakeFeed
<1>3. ASSUME NEW f \in Feeds, FinishFeed(f) PROVE Outcomes'
  BY <1>3 DEF FinishFeed, LoadResults
<1>4. ASSUME NEW f \in Feeds, DispatchRaises(f) PROVE Outcomes'
  BY <1>4 DEF DispatchRaises
<1>5. ASSUME NEW f \in Feeds, Collect(f) PROVE Outcomes'
  BY <1>5 DEF Collect
<1>6. CASE Prepare \/ EndGroup \/ Publish \/ UNCHANGED controllerVars
  BY <1>6 DEF Prepare, EndGroup, Publish, controllerVars
<1>7. QED
  BY <1>1, <1>2, <1>3, <1>4, <1>5, <1>6 DEF ControllerNext

\* Initially no feed has a result and run() is in progress.
LEMMA ContractInit == ControllerInit => Outcomes /\ Contract!Init
BY DEF ControllerInit, Outcomes, Contract!Init, Contract!Nothing

\* Every step of the controller is a step of the contract or changes nothing
\* the caller can tell.
LEMMA ContractStep ==
    ControllerInv /\ Outcomes /\ [ControllerNext]_controllerVars
        => [Contract!Next]_(Contract!batchVars)
<1> SUFFICES ASSUME ControllerInv, Outcomes, [ControllerNext]_controllerVars
             PROVE  [Contract!Next]_(Contract!batchVars)
  OBVIOUS
<1> USE DEF ControllerInv, ControllerTypeOK, FeedStates, Outcomes
<1>1. ASSUME NEW f \in Feeds, Collect(f) PROVE [Contract!Next]_(Contract!batchVars)
  <2>1. /\ state[f] = "ended" /\ executed[f] = NotRun /\ published' = published
        /\ produced[f] \in LoadResults \cup {Escaped}
        /\ runPhase \notin {"returned", "raised"}
    BY <1>1 DEF Collect, PhaseInv
  <2>2. CASE produced[f] = Escaped /\ ~ Pooled(groupOf[f])
    <3>1. runPhase' = "raised" /\ executed' = executed
      BY <1>1, <2>2 DEF Collect
    <3>2. Contract!Raise
      BY <2>1, <3>1 DEF Contract!Raise
    <3>3. QED
      BY <3>2 DEF Contract!Next
  <2>3. CASE ~ (produced[f] = Escaped /\ ~ Pooled(groupOf[f]))
    <3>1. PICK r \in LoadResults : executed' = [executed EXCEPT ![f] = r]
      BY <1>1, <2>1, <2>3 DEF Collect, LoadResults
    <3>2. runPhase' = runPhase
      BY <1>1, <2>3 DEF Collect
    <3>3. Contract!Finish(f)
      BY <2>1, <3>1, <3>2 DEF Contract!Finish
    <3>4. QED
      BY <3>3 DEF Contract!Next
  <2>4. QED
    BY <2>2, <2>3
<1>2. CASE Publish
  <2>1. /\ runPhase = "executing" /\ runPhase' = "returned"
        /\ published' = executed /\ executed' = executed
    BY <1>2 DEF Publish
  <2>2. ASSUME NEW f \in Feeds PROVE state[f] = "collected"
    <3>1. state[f] # "waiting"
      BY <1>2 DEF Publish, Pending
    <3>2. state[f] \notin {"queued", "running", "ended"}
      BY <1>2, ControllerAssumption DEF Publish, InFlight
    <3>3. QED
      BY <3>1, <3>2
  <2>3. ASSUME NEW f \in Feeds PROVE executed[f] # NotRun
    <3>1. executed[f] = IF produced[f] = Escaped THEN PoolFailure ELSE produced[f]
      BY <2>1, <2>2 DEF Gathered
    <3>2. produced[f] \in LoadResults \cup {Escaped}
      BY <2>2
    <3>3. PoolFailure \in LoadResults
      BY DEF LoadResults
    <3>4. QED
      BY <3>1, <3>2, <3>3, ResultsDistinct
  <2>4. Contract!Return
    BY <2>1, <2>3 DEF Contract!Return
  <2>5. QED
    BY <2>4 DEF Contract!Next
<1>3. CASE Prepare
  BY <1>3 DEF Prepare, Contract!batchVars
<1>4. ASSUME NEW g \in GroupNumbers, StartGroup(g)
      PROVE  [Contract!Next]_(Contract!batchVars)
  BY <1>4 DEF StartGroup, Contract!batchVars
<1>5. ASSUME NEW f \in Feeds, TakeFeed(f) \/ FinishFeed(f) \/ DispatchRaises(f)
      PROVE  [Contract!Next]_(Contract!batchVars)
  BY <1>5 DEF TakeFeed, FinishFeed, DispatchRaises, Contract!batchVars
<1>6. CASE EndGroup \/ UNCHANGED controllerVars
  BY <1>6 DEF EndGroup, controllerVars, Contract!batchVars
<1>7. QED
  BY <1>1, <1>2, <1>3, <1>4, <1>5, <1>6 DEF ControllerNext

\* Whatever the grouping and the number of workers, the orchestrator gets what
\* it relies on: one result per feed, all at once, or an exception and none.
THEOREM Implements == ControllerSpec => ImplementsContract
<1>1. ControllerInv /\ Outcomes /\ [ControllerNext]_controllerVars => Outcomes'
  BY OutcomesStep
<1>2. QED
  BY ControllerInvariance, <1>1, ContractInit, ContractStep, PTL
     DEF ControllerSpec, ImplementsContract, Contract!Spec

-----------------------------------------------------------------------------
(* Part 2: a run of the orchestrator.                                      *)

\* The phases that touch no table, result or verdict.
Tail == {"lineage", "status", "summary", "archive", "cleanup", "done"}

\* The steps that end a phase, or pass on what the controllers left.
Bookkeeping ==
    \/ LaunchPasses \/ LaunchFails \/ LaunchRaises
    \/ StartBronze \/ BronzeEnds \/ BronzeRaises \/ NoMedallion \/ StartPreLoad
    \/ StartMedallion \/ ControllerReturns \/ MedallionEnds \/ MedallionRaises
    \/ Report \/ Lineage \/ Decide \/ Close

LEMMA NothingType == LB!Nothing \in [AllFeeds -> Results \cup {NoResult}]
BY DEF LB!Nothing

-----------------------------------------------------------------------------
(* Types.                                                                  *)

LEMMA TypeInit == Init => TypeOK
BY DEF Init, TypeOK, LB!Nothing, Tables, Phases

LEMMA ManifestType ==
  ASSUME TypeOK, NEW f \in Medallion, manifest[f] # NoEntry
  PROVE  manifest[f] \in Entries
BY DEF TypeOK

LEMMA TypeStep == TypeOK /\ [Next]_vars => TypeOK'
<1> SUFFICES ASSUME TypeOK, [Next]_vars PROVE TypeOK'
  OBVIOUS
<1> USE DEF TypeOK, Phases
<1>1. CASE LaunchPasses \/ LaunchFails \/ LaunchRaises
  BY <1>1 DEF LaunchPasses, LaunchFails, LaunchRaises, EmitReport, Recorded, controller,
              locals, outputs
<1>2. CASE StartBronze
  BY <1>2, NothingType DEF StartBronze, NewController, ActiveBronze, controller, locals, outputs
<1>3. CASE BronzeEnds \/ MedallionEnds
  BY <1>3 DEF BronzeEnds, MedallionEnds, Extended, controller, outputs
<1>4. CASE BronzeRaises \/ MedallionRaises
  BY <1>4 DEF BronzeRaises, MedallionRaises, LB!Raise, locals, outputs
<1>5. CASE NoMedallion \/ Report
  BY <1>5 DEF NoMedallion, Report, EmitReport, Recorded, controller, locals
<1>6. CASE StartPreLoad
  BY <1>6 DEF StartPreLoad, controller, locals, outputs
<1>7. ASSUME NEW f \in Medallion, CheckFeed(f)
      PROVE  TypeOK'
  <2>1. \A b \in BOOLEAN : [ingest |-> CanIngest(f, b), post |-> "none"] \in Entries
    BY DEF CanIngest, Entries
  <2>2. manifest' \in [Medallion -> Entries \cup {NoEntry}]
    BY <1>7, <2>1 DEF CheckFeed
  <2>3. QED
    BY <1>7, <2>2 DEF CheckFeed, controller, outputs
<1>8. CASE StartMedallion
  BY <1>8, NothingType DEF StartMedallion, NewController, Ingestible, ActiveMedallion, controller,
                           locals, outputs
<1>9. ASSUME NEW f \in AllFeeds, LoadFeed(f)
      PROVE  TypeOK'
  <2>1. SourceRows(f) \subseteq Tables
    BY BatchRunAssumption DEF SourceRows, Tables, AllFeeds
  <2>2. table' \in [AllFeeds -> Tables] /\ loadedFrom' \in [AllFeeds -> Tables]
    BY <1>9, <2>1 DEF LoadFeed, Loaded, Failed, Tables
  <2>3. outcome' \in [AllFeeds -> Results \cup {NoResult}] /\ UNCHANGED <<batch, reported, phase>>
    BY <1>9 DEF LoadFeed, LB!Finish
  <2>4. QED
    BY <1>9, <2>2, <2>3 DEF LoadFeed, locals, outputs
<1>10. CASE ControllerReturns
  BY <1>10 DEF ControllerReturns, LB!Return, locals, outputs
<1>11. CASE PostLoadChecks
  <2>1. ASSUME NEW f \in Medallion PROVE manifest'[f] \in Entries \cup {NoEntry}
    <3>1. manifest[f] \in Entries =>
            [manifest[f] EXCEPT !.post = "passed"] \in Entries
            /\ [manifest[f] EXCEPT !.post = "failed"] \in Entries
      BY DEF Entries
    <3>2. manifest[f] \in Entries \cup {NoEntry}
      OBVIOUS
    <3>3. QED
      BY <1>11, <3>1, <3>2 DEF PostLoadChecks
  <2>2. manifest' \in [Medallion -> Entries \cup {NoEntry}]
    BY <1>11, <2>1 DEF PostLoadChecks
  <2>3. QED
    BY <1>11, <2>2 DEF PostLoadChecks, controller, outputs
<1>12. CASE Lineage \/ Decide
  BY <1>12 DEF Lineage, Decide, Recorded, controller, locals, outputs
<1>13. CASE Close
  BY <1>13 DEF Close, controller, locals, outputs
<1>14. CASE UNCHANGED vars
  BY <1>14 DEF vars, controller, locals, outputs
<1>15. QED
  BY <1>1, <1>2, <1>3, <1>4, <1>5, <1>6, <1>7, <1>8, <1>9, <1>10, <1>11, <1>12, <1>13, <1>14
     DEF Next

-----------------------------------------------------------------------------
(* What is loaded, and what was checked.                                   *)

BeforeMedallion == {"launch", "bronze", "extract", "medallion", "preLoad"}

\* The feeds of the batch in progress.
BatchInv ==
    /\ pc = "extract" => batch = ActiveBronze
    /\ pc = "ingest" => batch = Ingestible /\ \A f \in ActiveMedallion : manifest[f] # NoEntry

\* No medallion feed is loaded before its batch; one that was has the rows of
\* its load.
LoadInv ==
    /\ \A f \in AllFeeds : reported[f] # NoResult => reported[f] = outcome[f]
    /\ pc \in BeforeMedallion =>
         \A f \in Medallion : loadedFrom[f] = "none" /\ outcome[f] = NoResult
    /\ \A f \in Medallion :
         outcome[f] = Loaded => loadedFrom[f] = table[f] /\ loadedFrom[f] # "none"

\* The verdict of the gating checks is still true of a bronze table, and there
\* is no other yet.
GateInv ==
    /\ pc \in BeforeMedallion \ {"preLoad"} => \A f \in Medallion : manifest[f] = NoEntry
    /\ pc \in {"preLoad", "ingest", "postLoad"} =>
         \A f \in Medallion : manifest[f] # NoEntry => manifest[f].post = "none"
    /\ pc \in {"preLoad", "ingest"} =>
         \A f \in Medallion :
           manifest[f] # NoEntry /\ Gated(f) /\ Upstream[f] \in Bronze /\ manifest[f].ingest =>
             table[Upstream[f]] = "clean"

DataInv == BatchInv /\ LoadInv /\ GateInv /\ BronzeGateHolds /\ PostLoadIsAboutLoad

LEMMA DataInit == Init => DataInv
BY BatchRunAssumption
   DEF Init, DataInv, BatchInv, LoadInv, GateInv, BronzeGateHolds, PostLoadIsAboutLoad, LB!Nothing,
       BeforeMedallion, ActiveMedallion, Results, AllFeeds, Loaded

\* Steps that pass on what is there.
LEMMA DataKept ==
  ASSUME TypeOK, DataInv, Bookkeeping
  PROVE  DataInv'
<1> USE DEF DataInv, BatchInv, LoadInv, GateInv, BronzeGateHolds, PostLoadIsAboutLoad,
            BeforeMedallion, ActiveMedallion, ActiveBronze, Ingestible, Gated, Checks
<1>1. UNCHANGED <<specs, table, manifest, loadedFrom>>
  BY DEF Bookkeeping, LaunchPasses, LaunchFails, LaunchRaises, StartBronze, BronzeEnds,
         BronzeRaises, NoMedallion, StartPreLoad, StartMedallion, ControllerReturns, MedallionEnds,
         MedallionRaises, Report, Lineage, Decide, Close, locals
<1>2. CASE StartBronze \/ StartMedallion
  <2>1. UNCHANGED controller \/ (outcome' = LB!Nothing /\ reported' = LB!Nothing)
    BY <1>2 DEF StartBronze, StartMedallion, NewController
  <2>2. LoadInv'
    <3>1. CASE UNCHANGED controller
      BY <1>1, <1>2, <3>1 DEF StartBronze, StartMedallion, controller
    <3>2. CASE outcome' = LB!Nothing /\ reported' = LB!Nothing
      <4>1. \A f \in AllFeeds : outcome'[f] = NoResult /\ reported'[f] = NoResult
        BY <3>2 DEF LB!Nothing
      <4>2. NoResult # Loaded
        BY BatchRunAssumption DEF Results
      <4>3. pc' \in BeforeMedallion => pc \in BeforeMedallion
        BY <1>2 DEF StartBronze, StartMedallion
      <4>4. QED
        BY <1>1, <4>1, <4>2, <4>3 DEF AllFeeds
    <3>3. QED
      BY <2>1, <3>1, <3>2
  <2>3. BatchInv'
    BY <1>1, <1>2 DEF StartBronze, StartMedallion, NewController
  <2>4. QED
    BY <1>1, <1>2, <2>2, <2>3 DEF StartBronze, StartMedallion
<1>3. CASE ControllerReturns
  BY <1>1, <1>3 DEF ControllerReturns, LB!Return
<1>4. CASE ~ (StartBronze \/ StartMedallion \/ ControllerReturns)
  <2>1. UNCHANGED <<batch, outcome, reported>>
    BY <1>4 DEF Bookkeeping, LaunchPasses, LaunchFails, LaunchRaises, BronzeEnds, BronzeRaises,
       NoMedallion, StartPreLoad, MedallionEnds, MedallionRaises, Report, Lineage, Decide, Close,
       LB!Raise, controller
  <2>2. /\ pc' \notin {"extract", "ingest"} /\ (pc' \in BeforeMedallion => pc \in BeforeMedallion)
        /\ (pc' \in BeforeMedallion \ {"preLoad"} => pc \in BeforeMedallion \ {"preLoad"})
        /\ (pc' \in {"preLoad", "postLoad"} =>
              pc \in BeforeMedallion \ {"preLoad"} \/ pc = "ingest")
        /\ (pc' = "preLoad" => pc \in BeforeMedallion \ {"preLoad"})
    BY <1>4 DEF Bookkeeping, LaunchPasses, LaunchFails, LaunchRaises, BronzeEnds, BronzeRaises,
       NoMedallion, StartPreLoad, MedallionEnds, MedallionRaises, Report, Lineage, Decide, Close
  <2>3. QED
    BY <1>1, <2>1, <2>2
<1>5. QED
  BY <1>2, <1>3, <1>4

LEMMA DataChecked ==
  ASSUME TypeOK, DataInv, NEW f \in Medallion, CheckFeed(f)
  PROVE  DataInv'
<1> USE DEF DataInv, BatchInv, LoadInv, GateInv, BeforeMedallion
<1>1. pc = "preLoad" /\ UNCHANGED <<specs, table, pc, batch, outcome, reported, loadedFrom>>
  BY DEF CheckFeed, controller
<1>2. PICK broken \in BOOLEAN :
        manifest' = [manifest EXCEPT ![f] = [ingest |-> CanIngest(f, broken), post |-> "none"]]
  BY DEF CheckFeed
<1>3. \A g \in Medallion : g # f => manifest'[g] = manifest[g]
  BY <1>2 DEF TypeOK
<1>4. manifest'[f].post = "none" /\ manifest'[f].ingest = CanIngest(f, broken)
  BY <1>2 DEF TypeOK
<1>5. CanIngest(f, broken) /\ Gated(f) => table[Upstream[f]] = "clean"
  BY DEF CanIngest, Gated
<1>6. GateInv'
  <2>1. ASSUME NEW g \in Medallion, manifest'[g] # NoEntry
        PROVE  /\ manifest'[g].post = "none"
               /\ Gated(g) /\ Upstream[g] \in Bronze /\ manifest'[g].ingest =>
                    table[Upstream[g]] = "clean"
    <3>1. CASE g = f
      BY <1>4, <1>5, <3>1
    <3>2. CASE g # f
      BY <1>1, <1>3, <2>1, <3>2
    <3>3. QED
      BY <3>1, <3>2
  <2>2. QED
    BY <1>1, <2>1 DEF Gated, Checks
<1>7. BronzeGateHolds' /\ PostLoadIsAboutLoad'
  <2>1. \A g \in Medallion : manifest'[g] # NoEntry => manifest'[g].post = "none"
    BY <1>1, <1>6
  <2>2. QED
    BY <1>1, <2>1 DEF BronzeGateHolds, PostLoadIsAboutLoad, ActiveMedallion, Gated, Checks
<1>8. QED
  BY <1>1, <1>6, <1>7

LEMMA DataLoaded ==
  ASSUME TypeOK, DataInv, NEW f \in AllFeeds, LoadFeed(f)
  PROVE  DataInv'
<1> USE DEF DataInv, BatchInv, LoadInv, GateInv, BeforeMedallion
<1>1. /\ pc \in {"extract", "ingest"} /\ UNCHANGED <<specs, pc, manifest, batch, reported>>
      /\ f \in batch /\ outcome[f] = NoResult
  BY DEF LoadFeed, LB!Finish, locals
<1>2. PICK r \in Results : outcome' = [outcome EXCEPT ![f] = r]
  BY DEF LoadFeed, LB!Finish
<1>3. PICK rows \in SourceRows(f) :
        CASE r = Loaded -> /\ rows # "none"
                           /\ table' = [table EXCEPT ![f] = rows]
                           /\ loadedFrom' = [loadedFrom EXCEPT ![f] = rows]
          [] r = Failed -> /\ \E t \in {table[f], "none", rows} : table' = [table EXCEPT ![f] = t]
                           /\ UNCHANGED loadedFrom
          [] OTHER -> UNCHANGED <<table, loadedFrom>>
  <2>1. outcome'[f] = r
    BY <1>2 DEF TypeOK
  <2>2. QED
    BY <2>1 DEF LoadFeed
<1>4. \A g \in AllFeeds : g # f => /\ outcome'[g] = outcome[g] /\ table'[g] = table[g]
                                /\ loadedFrom'[g] = loadedFrom[g]
  BY <1>2, <1>3 DEF TypeOK, Loaded, Failed
<1>5. /\ outcome'[f] = r
      /\ r = Loaded => table'[f] = rows /\ loadedFrom'[f] = rows /\ rows # "none"
      /\ r # Loaded => loadedFrom'[f] = loadedFrom[f]
  BY <1>2, <1>3 DEF TypeOK, Loaded, Failed
<1>6. CASE pc = "extract"
  <2>1. f \in Bronze /\ f \notin Medallion
    BY <1>1, <1>6, BatchRunAssumption DEF ActiveBronze
  <2>2. \A g \in Medallion : /\ g \in AllFeeds /\ g # f
    BY <2>1 DEF AllFeeds
  <2>3. LoadInv'
    <3>1. \A g \in AllFeeds : reported'[g] # NoResult => reported'[g] = outcome'[g]
      BY <1>1, <1>4
    <3>2. QED
      BY <1>1, <1>4, <1>6, <2>2, <3>1, BatchRunAssumption DEF Results
  <2>4. QED
    BY <1>1, <1>4, <1>6, <2>2, <2>3
       DEF BronzeGateHolds, PostLoadIsAboutLoad, ActiveMedallion, ActiveBronze, Gated, Checks
<1>7. CASE pc = "ingest"
  <2>1. f \in Medallion /\ f \in ActiveMedallion /\ manifest[f] # NoEntry /\ manifest[f].ingest
    BY <1>1, <1>7 DEF Ingestible, ActiveMedallion
  <2>2. \A g \in Bronze : table'[g] = table[g]
    BY <1>4, <2>1, BatchRunAssumption DEF AllFeeds
  <2>3. LoadInv'
    <3>1. \A g \in AllFeeds : reported'[g] # NoResult => reported'[g] = outcome'[g]
      BY <1>1, <1>4
    <3>2. ASSUME NEW g \in Medallion, outcome'[g] = Loaded
          PROVE  loadedFrom'[g] = table'[g] /\ loadedFrom'[g] # "none"
      BY <1>4, <1>5, <3>2 DEF AllFeeds
    <3>3. QED
      BY <1>1, <1>7, <3>1, <3>2
  <2>4. Gated(f) /\ Upstream[f] \in Bronze => loadedFrom'[f] # "dirty"
    <3>1. SUFFICES ASSUME Gated(f), Upstream[f] \in Bronze, r = Loaded
                   PROVE  loadedFrom'[f] # "dirty"
      BY <1>5, <2>1 DEF BronzeGateHolds
    <3>2. table[Upstream[f]] = "clean"
      BY <1>7, <2>1, <3>1
    <3>3. rows = table[Upstream[f]]
      BY <2>1, BatchRunAssumption DEF SourceRows
    <3>4. QED
      BY <1>5, <3>1, <3>2, <3>3
  <2>5. BronzeGateHolds'
    <3>1. ASSUME NEW g \in ActiveMedallion, Gated(g), Upstream[g] \in Bronze
          PROVE  loadedFrom'[g] # "dirty"
      BY <1>4, <2>4, <3>1 DEF BronzeGateHolds, ActiveMedallion, AllFeeds
    <3>2. QED
      BY <1>1, <3>1 DEF BronzeGateHolds, ActiveMedallion, Gated, Checks
  <2>6. GateInv'
    BY <1>1, <1>7, <2>2 DEF Gated, Checks
  <2>7. PostLoadIsAboutLoad'
    BY <1>1, <1>7 DEF PostLoadIsAboutLoad, ActiveMedallion
  <2>8. QED
    BY <1>1, <1>7, <2>3, <2>5, <2>6, <2>7 DEF Ingestible, ActiveMedallion
<1>8. QED
  BY <1>1, <1>6, <1>7

LEMMA DataPostChecked ==
  ASSUME TypeOK, DataInv, PostLoadChecks
  PROVE  DataInv'
<1> USE DEF DataInv, BatchInv, LoadInv, GateInv, BeforeMedallion
<1>1. pc = "postLoad" /\ pc' = "report"
      /\ UNCHANGED <<specs, table, batch, outcome, reported, loadedFrom>>
  BY DEF PostLoadChecks, controller
<1>2. PICK broken \in SUBSET Medallion :
         manifest' = [f \in Medallion |->
            IF manifest[f] = NoEntry THEN NoEntry
            ELSE IF "post" \notin Checks(f) \/ f \notin LoadedFeeds THEN manifest[f]
            ELSE [manifest[f] EXCEPT !.post =
                    IF table[f] = "clean" /\ f \notin broken THEN "passed" ELSE "failed"]]
  BY DEF PostLoadChecks
<1>3. ASSUME NEW f \in ActiveMedallion, manifest'[f] # NoEntry, manifest'[f].post # "none"
      PROVE  loadedFrom[f] # "none" /\ (manifest'[f].post = "passed" => loadedFrom[f] = "clean")
  <2>1. f \in Medallion /\ f \in AllFeeds
    BY DEF ActiveMedallion, AllFeeds
  <2>2. manifest[f] # NoEntry /\ f \in LoadedFeeds
    BY <1>1, <1>2, <1>3, <2>1
  <2>3. manifest[f] \in Entries
    BY <2>1, <2>2 DEF TypeOK
  <2>4. manifest'[f].post = "passed" => table[f] = "clean"
    <3>1. manifest'[f].post = "passed" /\ table[f] # "clean" => FALSE
      <4>1. table[f] # "clean" => \/ manifest'[f] = manifest[f]
                                  \/ manifest'[f] = [manifest[f] EXCEPT !.post = "failed"]
        BY <1>2, <2>1, <2>2
      <4>2. [manifest[f] EXCEPT !.post = "failed"].post = "failed"
        BY <2>3 DEF Entries
      <4>3. QED
        BY <1>1, <2>1, <2>2, <4>1, <4>2
    <3>2. QED
      BY <3>1
  <2>5. loadedFrom[f] = table[f] /\ loadedFrom[f] # "none"
    <3>1. reported[f] = Loaded /\ Loaded # NoResult
      BY <2>2, BatchRunAssumption DEF LoadedFeeds, Results
    <3>2. QED
      BY <2>1, <3>1
  <2>6. QED
    BY <2>4, <2>5
<1>4. QED
  BY <1>1, <1>3 DEF BronzeGateHolds, PostLoadIsAboutLoad, ActiveMedallion, Gated, Checks

-----------------------------------------------------------------------------
(* No result is lost.                                                      *)

Loading == {"bronze", "extract", "medallion", "preLoad", "ingest", "postLoad", "report"}
AfterBronze == {"medallion", "preLoad", "ingest", "postLoad", "report"}
Reported == {"lineage", "status"}

HasAll(r, feeds) == \A f \in feeds : r[f] # NoResult

\* What the status and the recorded errors say of the phase.
StatusInv ==
    /\ pc = "launch" => status = "FAILED" /\ errors = {}
    /\ pc \in Loading \cup Reported => status = "COMPLETED_WITH_ERRORS"
    /\ pc \in Loading => "validate_and_load" \notin errors
    /\ pc \in Loading \ {"postLoad", "report"} => "medallion_load" \notin errors

\* Where the results of a feed are while the run goes on.
ResultsInv ==
    /\ pc \in {"launch", "bronze", "medallion", "preLoad"} =>
         phase = "returned" /\ HasAll(results, batch)
    /\ pc \in {"extract", "ingest"} /\ phase = "returned" => HasAll(reported, batch)
    /\ pc \in AfterBronze => HasAll(results, ActiveBronze)
    /\ pc \in {"postLoad", "report"} =>
         /\ \A f \in ActiveMedallion : manifest[f] # NoEntry
         /\ "medallion_load" \notin errors =>
              /\ phase = "returned" /\ HasAll(results, batch)
              /\ \A f \in ActiveMedallion : results[f] # NoResult \/ ~ manifest[f].ingest

\* The same of the RunResult, for a run that came past its load.
RunResultInv ==
    pc \in Reported \/ (status \in {"COMPLETED", "COMPLETED_WITH_ERRORS"} /\ pc \notin Loading) =>
      /\ "validate_and_load" \notin errors => HasAll(runResults, ActiveBronze)
      /\ errors \cap {"validate_and_load", "medallion_load"} = {} =>
           /\ \A f \in ActiveMedallion : manifest[f] # NoEntry
           /\ \A f \in ActiveMedallion : runResults[f] # NoResult \/ ~ manifest[f].ingest
           /\ phase = "returned" /\ HasAll(runResults, batch)
      /\ errors = {} => excel = "results"

AccountInv ==
    /\ StatusInv /\ ResultsInv /\ RunResultInv
    /\ status = "COMPLETED" => errors = {}

LEMMA AccountInit == Init => AccountInv
BY DEF Init, AccountInv, StatusInv, ResultsInv, RunResultInv, Loading, AfterBronze, Reported, HasAll

\* Results that are extended keep what they had.
LEMMA ExtendedHas ==
  ASSUME TypeOK
  PROVE  /\ \A f \in AllFeeds : results[f] # NoResult => Extended[f] # NoResult
         /\ \A f \in AllFeeds : reported[f] # NoResult => Extended[f] # NoResult
BY DEF Extended, TypeOK

LEMMA AccountStep == TypeOK /\ BatchInv /\ AccountInv /\ [Next]_vars => AccountInv'
<1> SUFFICES ASSUME TypeOK, BatchInv, AccountInv, [Next]_vars PROVE AccountInv'
  OBVIOUS
<1> USE DEF AccountInv, StatusInv, ResultsInv, RunResultInv, Loading, AfterBronze, Reported, HasAll
<1>1. UNCHANGED specs /\ ActiveBronze' = ActiveBronze /\ ActiveMedallion' = ActiveMedallion
      /\ ActiveBronze \subseteq AllFeeds /\ ActiveMedallion \subseteq AllFeeds /\ batch \subseteq AllFeeds
      /\ ActiveMedallion \subseteq Medallion
  BY DEF Next, vars, LaunchPasses, LaunchFails, LaunchRaises, StartBronze, BronzeEnds, BronzeRaises,
         NoMedallion, StartPreLoad, CheckFeed, StartMedallion, LoadFeed, ControllerReturns,
         MedallionEnds, MedallionRaises, PostLoadChecks, Report, Lineage, Decide, Close,
         ActiveBronze, ActiveMedallion, AllFeeds, TypeOK
<1> HIDE DEF ActiveBronze, ActiveMedallion
<1>2. CASE LaunchPasses \/ LaunchFails \/ LaunchRaises
  <2>1. CASE LaunchPasses
    <3>1. pc = "launch" /\ pc' = "bronze"
      BY <2>1 DEF LaunchPasses
    <3>2. QED
      BY <1>1, <2>1, <3>1 DEF LaunchPasses, controller, locals, outputs
  <2>2. CASE LaunchFails
    <3>1. pc' = "summary" /\ status' = "VALIDATION_FAILED"
      BY <2>2 DEF LaunchFails
    <3>2. QED
      BY <3>1
  <2>3. CASE LaunchRaises
    <3>1. pc' = "summary" /\ status' = "FAILED"
      BY <2>3 DEF LaunchRaises
    <3>2. QED
      BY <3>1
  <2>4. QED
    BY <1>2, <2>1, <2>2, <2>3
<1>3. CASE StartBronze
  <2>1. CASE ActiveBronze = {}
    <3>1. pc = "bronze" /\ pc' = "medallion"
          /\ UNCHANGED <<batch, phase, results, errors, status>>
      BY <1>3, <2>1 DEF StartBronze, controller, locals
    <3>2. QED
      BY <1>1, <2>1, <3>1
  <2>2. CASE ActiveBronze # {}
    <3>1. pc = "bronze" /\ pc' = "extract" /\ phase' = "running" /\ UNCHANGED <<errors, status>>
      BY <1>3, <2>2 DEF StartBronze, NewController
    <3>2. QED
      BY <3>1
  <2>3. QED
    BY <2>1, <2>2
<1>4. CASE BronzeEnds
  <2>1. /\ pc = "extract" /\ pc' = "medallion" /\ phase = "returned" /\ results' = Extended
        /\ UNCHANGED <<batch, phase, errors, status>> /\ batch = ActiveBronze
    BY <1>4 DEF BronzeEnds, controller, BatchInv
  <2>2. HasAll(results', batch)
    BY <1>1, <2>1, ExtendedHas
  <2>3. QED
    BY <1>1, <2>1, <2>2
<1>5. CASE BronzeRaises
  <2>1. /\ pc = "extract" /\ pc' = "lineage" /\ status' = status
        /\ "validate_and_load" \in errors'
    BY <1>5 DEF BronzeRaises
  <2>2. QED
    BY <2>1
<1>6. CASE NoMedallion
  <2>1. /\ pc = "medallion" /\ pc' = "lineage" /\ runResults' = results /\ ActiveMedallion = {}
        /\ UNCHANGED <<batch, phase, status>>
    BY <1>6 DEF NoMedallion, controller
  <2>2. errors' = {} => excel' = "results"
    BY <1>6 DEF NoMedallion, EmitReport, Recorded
  <2>3. QED
    BY <1>1, <2>1, <2>2
<1>7. CASE StartPreLoad
  <2>1. pc = "medallion" /\ pc' = "preLoad" /\ UNCHANGED <<batch, phase, results, errors, status>>
    BY <1>7 DEF StartPreLoad, controller, locals
  <2>2. QED
    BY <1>1, <2>1
<1>8. CASE \E f \in Medallion : CheckFeed(f)
  <2>1. pc = "preLoad" /\ pc' = pc /\ UNCHANGED <<batch, phase, results, errors, status>>
    BY <1>8 DEF CheckFeed, controller
  <2>2. QED
    BY <1>1, <2>1
<1>9. CASE StartMedallion
  <2>1. /\ pc = "preLoad" /\ \A f \in ActiveMedallion : manifest[f] # NoEntry
        /\ UNCHANGED <<manifest, results, errors, status>>
    BY <1>9 DEF StartMedallion, locals
  <2>2. CASE Ingestible = {}
    <3>1. pc' = "postLoad" /\ UNCHANGED <<batch, phase>>
      BY <1>9, <2>2 DEF StartMedallion, controller
    <3>2. \A f \in ActiveMedallion : ~ manifest[f].ingest
      BY <2>1, <2>2 DEF Ingestible
    <3>3. QED
      BY <1>1, <2>1, <3>1, <3>2
  <2>3. CASE Ingestible # {}
    <3>1. pc' = "ingest" /\ phase' = "running"
      BY <1>9, <2>3 DEF StartMedallion, NewController
    <3>2. QED
      BY <1>1, <2>1, <3>1
  <2>4. QED
    BY <2>2, <2>3
<1>10. CASE \E f \in AllFeeds : LoadFeed(f)
  <2>1. /\ pc \in {"extract", "ingest"} /\ pc' = pc /\ phase = "running"
        /\ UNCHANGED <<batch, phase, results, errors, status>>
    BY <1>10 DEF LoadFeed, LB!Finish, locals
  <2>2. QED
    BY <1>1, <2>1
<1>11. CASE ControllerReturns
  <2>1. /\ pc \in {"extract", "ingest"} /\ pc' = pc /\ phase' = "returned"
        /\ HasAll(reported', batch) /\ UNCHANGED <<batch, results, errors, status>>
    BY <1>11 DEF ControllerReturns, LB!Return, locals
  <2>2. QED
    BY <1>1, <2>1
<1>12. CASE MedallionEnds
  <2>1. /\ pc = "ingest" /\ pc' = "postLoad" /\ phase = "returned" /\ results' = Extended
        /\ UNCHANGED <<batch, phase, manifest, errors, status>>
        /\ batch = Ingestible /\ \A f \in ActiveMedallion : manifest[f] # NoEntry
    BY <1>12 DEF MedallionEnds, controller, BatchInv
  <2>2. HasAll(results', batch) /\ HasAll(results', ActiveBronze)
    BY <1>1, <2>1, ExtendedHas
  <2>3. \A f \in ActiveMedallion : f \in batch \/ ~ manifest[f].ingest
    BY <2>1 DEF Ingestible
  <2>4. QED
    BY <1>1, <2>1, <2>2, <2>3
<1>13. CASE MedallionRaises
  <2>1. /\ pc = "ingest" /\ pc' = "postLoad" /\ "medallion_load" \in errors'
        /\ errors' = errors \cup {"medallion_load"}
        /\ UNCHANGED <<manifest, results, status>>
        /\ \A f \in ActiveMedallion : manifest[f] # NoEntry
    BY <1>13 DEF MedallionRaises, BatchInv, locals
  <2>2. QED
    BY <1>1, <2>1
<1>14. CASE PostLoadChecks
  <2>1. /\ pc = "postLoad" /\ pc' = "report"
        /\ UNCHANGED <<batch, phase, results, errors, status>>
    BY <1>14 DEF PostLoadChecks, controller
  <2>2. ASSUME NEW f \in ActiveMedallion
        PROVE  manifest'[f] # NoEntry /\ manifest'[f].ingest = manifest[f].ingest
    <3>1. manifest[f] \in Entries
      BY <1>1, <2>1 DEF TypeOK
    <3>2. \A v \in {"passed", "failed"} :
            /\ [manifest[f] EXCEPT !.post = v] \in Entries
            /\ [manifest[f] EXCEPT !.post = v].ingest = manifest[f].ingest
      BY <3>1 DEF Entries
    <3>3. \/ manifest'[f] = manifest[f]
          \/ \E v \in {"passed", "failed"} : manifest'[f] = [manifest[f] EXCEPT !.post = v]
      BY <1>1, <1>14, <2>1 DEF PostLoadChecks
    <3>4. QED
      BY <2>1, <3>1, <3>2, <3>3, BatchRunAssumption
  <2>3. QED
    BY <1>1, <2>1, <2>2
<1>15. CASE Report
  <2>1. /\ pc = "report" /\ pc' = "lineage" /\ runResults' = results /\ errors \subseteq errors'
        /\ UNCHANGED <<batch, phase, manifest, status>>
    BY <1>15 DEF Report, EmitReport, Recorded, controller, locals
  <2>2. errors' = {} => excel' = "results"
    BY <1>15 DEF Report, EmitReport, Recorded
  <2>3. QED
    BY <1>1, <2>1, <2>2
<1>16. CASE Lineage
  <2>1. /\ pc = "lineage" /\ pc' = "status" /\ errors \subseteq errors'
        /\ UNCHANGED <<batch, phase, manifest, runResults, excel, status>>
    BY <1>16 DEF Lineage, Recorded, controller, locals, outputs
  <2>2. QED
    BY <1>1, <2>1
<1>17. CASE Decide
  <2>1. /\ pc = "status" /\ pc' = "summary"
        /\ status' = (IF errors = {} THEN "COMPLETED" ELSE status)
        /\ UNCHANGED <<batch, phase, manifest, runResults, excel, errors>>
    BY <1>17 DEF Decide, controller, locals, outputs
  <2>2. QED
    BY <1>1, <2>1
<1>18. CASE Close
  <2>1. /\ pc \in {"summary", "archive", "cleanup"} /\ pc' \in {"archive", "cleanup", "done"}
        /\ UNCHANGED <<batch, phase, manifest, runResults, excel, errors, status>>
    BY <1>18 DEF Close, controller, locals, outputs
  <2>2. QED
    BY <1>1, <2>1
<1>19. CASE UNCHANGED vars
  BY <1>1, <1>19 DEF vars, controller, locals, outputs
<1>20. QED
  BY <1>2, <1>3, <1>4, <1>5, <1>6, <1>7, <1>8, <1>9, <1>10, <1>11, <1>12, <1>13, <1>14, <1>15,
     <1>16, <1>17, <1>18, <1>19 DEF Next

-----------------------------------------------------------------------------
(* Results tell what was loaded.                                           *)

LoadsTold(r) == \A f \in AllFeeds : r[f] = Loaded <=> loadedFrom[f] # "none"

VerdictsGiven(r) ==
    \A f \in ActiveMedallion : r[f] = Loaded /\ "post" \in Checks(f) => manifest[f].post # "none"

\* The list of results tells what was loaded before the batch in progress, and
\* the controller the rest; no feed is in both batches.
TruthInv ==
    /\ \A f \in AllFeeds : f \notin batch => outcome[f] = NoResult
    /\ phase = "returned" => reported = outcome
    /\ pc \in {"launch", "bronze"} =>
         LoadsTold(results) /\ \A f \in AllFeeds : results[f] = NoResult
    /\ pc = "extract" => LoadsTold(outcome) /\ \A f \in AllFeeds : results[f] = NoResult
    /\ pc \in {"medallion", "preLoad", "ingest"} => \A f \in Medallion : results[f] = NoResult
    /\ pc \in {"medallion", "preLoad"} => LoadsTold(results)
    /\ pc = "ingest" =>
         \A f \in AllFeeds : results[f] = Loaded \/ outcome[f] = Loaded <=> loadedFrom[f] # "none"
    /\ pc \in {"postLoad", "report"} /\ "medallion_load" \notin errors => LoadsTold(results)
    /\ pc = "postLoad" /\ "medallion_load" \notin errors =>
         \A f \in Medallion : results[f] = Loaded => reported[f] = Loaded
    /\ pc = "report" /\ "medallion_load" \notin errors => VerdictsGiven(results)
    /\ (pc \in Reported \/ status = "COMPLETED") /\ errors = {} =>
         LoadsTold(runResults) /\ VerdictsGiven(runResults)

LEMMA TruthInit == Init => TruthInv
BY BatchRunAssumption
   DEF Init, TruthInv, LoadsTold, VerdictsGiven, LB!Nothing, Reported, Results, Loaded

LEMMA TruthStep == TypeOK /\ BatchInv /\ AccountInv /\ TruthInv /\ [Next]_vars => TruthInv'
<1> SUFFICES ASSUME TypeOK, BatchInv, AccountInv, TruthInv, [Next]_vars PROVE TruthInv'
  OBVIOUS
<1> USE DEF TruthInv, LoadsTold, VerdictsGiven, Reported
<1>1. UNCHANGED specs /\ ActiveMedallion' = ActiveMedallion /\ ActiveMedallion \subseteq Medallion
      /\ \A f \in Medallion : Checks(f)' = Checks(f)
  BY DEF Next, vars, LaunchPasses, LaunchFails, LaunchRaises, StartBronze, BronzeEnds, BronzeRaises,
         NoMedallion, StartPreLoad, CheckFeed, StartMedallion, LoadFeed, ControllerReturns,
         MedallionEnds, MedallionRaises, PostLoadChecks, Report, Lineage, Decide, Close,
         ActiveMedallion, Checks
<1> HIDE DEF ActiveMedallion, Checks
<1>2. NoResult # Loaded
  BY BatchRunAssumption DEF Results
<1>3. CASE LaunchPasses
  BY <1>3 DEF LaunchPasses, controller, locals, AccountInv, StatusInv
<1>4. CASE LaunchFails \/ LaunchRaises
  BY <1>4 DEF LaunchFails, LaunchRaises, controller
<1>5. CASE StartBronze
  <2>1. /\ pc = "bronze" /\ pc' \in {"medallion", "extract"} /\ status # "COMPLETED"
        /\ UNCHANGED <<results, status, loadedFrom>>
    BY <1>5 DEF StartBronze, locals, AccountInv, StatusInv, Loading
  <2>2. CASE UNCHANGED controller /\ pc' = "medallion"
    BY <2>1, <2>2 DEF controller, AllFeeds
  <2>3. CASE NewController(ActiveBronze) /\ pc' = "extract"
    BY <1>2, <2>1, <2>3 DEF NewController, LB!Nothing
  <2>4. QED
    BY <1>5, <2>2, <2>3 DEF StartBronze
<1>6. CASE BronzeEnds
  <2>1. /\ pc = "extract" /\ pc' = "medallion" /\ reported = outcome /\ results' = Extended
        /\ batch = ActiveBronze /\ status # "COMPLETED"
        /\ UNCHANGED <<controller, status, loadedFrom>>
    BY <1>6 DEF BronzeEnds, BatchInv, AccountInv, StatusInv, Loading
  <2>2. \A f \in AllFeeds : results'[f] = outcome[f]
    BY <2>1 DEF Extended
  <2>3. \A f \in Medallion : f \in AllFeeds /\ f \notin batch
    BY <2>1, BatchRunAssumption DEF ActiveBronze, AllFeeds
  <2>4. QED
    BY <2>1, <2>2, <2>3 DEF controller
<1>7. CASE BronzeRaises
  BY <1>7 DEF BronzeRaises, LB!Raise
<1>8. CASE NoMedallion
  <2>1. /\ pc = "medallion" /\ pc' = "lineage" /\ runResults' = results /\ ActiveMedallion = {}
        /\ UNCHANGED <<controller, loadedFrom>>
    BY <1>8 DEF NoMedallion
  <2>2. QED
    BY <1>1, <2>1 DEF controller
<1>9. CASE StartPreLoad
  BY <1>9 DEF StartPreLoad, controller, locals, AccountInv, StatusInv, Loading
<1>10. CASE \E f \in Medallion : CheckFeed(f)
  BY <1>10 DEF CheckFeed, controller, AccountInv, StatusInv, Loading
<1>11. CASE StartMedallion
  <2>1. /\ pc = "preLoad" /\ status # "COMPLETED"
        /\ UNCHANGED <<results, errors, status, loadedFrom>>
    BY <1>11 DEF StartMedallion, locals, AccountInv, StatusInv, Loading
  <2>2. CASE UNCHANGED controller /\ pc' = "postLoad"
    BY <1>2, <2>1, <2>2 DEF controller
  <2>3. CASE NewController(Ingestible) /\ pc' = "ingest"
    BY <1>2, <2>1, <2>3 DEF NewController, LB!Nothing
  <2>4. QED
    BY <1>11, <2>2, <2>3 DEF StartMedallion
<1>12. CASE \E f \in AllFeeds : LoadFeed(f)
  <2>1. PICK f \in AllFeeds : LoadFeed(f)
    BY <1>12
  <2>2. /\ pc \in {"extract", "ingest"} /\ phase = "running" /\ status # "COMPLETED"
        /\ UNCHANGED <<pc, batch, phase, results, status>> /\ f \in batch /\ outcome[f] = NoResult
    BY <2>1 DEF LoadFeed, LB!Finish, locals, AccountInv, StatusInv, Loading
  <2>3. \A g \in AllFeeds : g # f => outcome'[g] = outcome[g] /\ loadedFrom'[g] = loadedFrom[g]
    BY <2>1 DEF LoadFeed, LB!Finish, TypeOK, Loaded, Failed
  <2>4. results[f] = NoResult
    <3>1. pc = "ingest" => f \in Medallion
      BY <2>2 DEF BatchInv, Ingestible, ActiveMedallion
    <3>2. QED
      BY <2>2, <3>1
  <2>5. loadedFrom[f] = "none"
    BY <1>2, <2>2, <2>4
  <2>6. outcome'[f] = Loaded <=> loadedFrom'[f] # "none"
    BY <2>1, <2>5 DEF LoadFeed, TypeOK, Loaded, Failed
  <2>7. QED
    BY <1>2, <2>2, <2>3, <2>4, <2>6
<1>13. CASE ControllerReturns
  BY <1>13 DEF ControllerReturns, LB!Return, locals, AccountInv, StatusInv, Loading
<1>14. CASE MedallionEnds
  <2>1. /\ pc = "ingest" /\ pc' = "postLoad" /\ reported = outcome /\ results' = Extended
        /\ batch = Ingestible /\ status # "COMPLETED"
        /\ UNCHANGED <<controller, status, loadedFrom>>
    BY <1>14 DEF MedallionEnds, BatchInv, AccountInv, StatusInv, Loading
  <2>2. \A f \in AllFeeds : outcome[f] = Loaded => results[f] = NoResult
    BY <1>2, <2>1 DEF Ingestible, ActiveMedallion
  <2>3. \A f \in AllFeeds : results'[f] = (IF outcome[f] = NoResult THEN results[f] ELSE outcome[f])
    BY <2>1 DEF Extended
  <2>4. \A f \in AllFeeds : outcome[f] # NoResult => f \in Medallion
    BY <2>1 DEF Ingestible, ActiveMedallion
  <2>5. \A f \in AllFeeds : results'[f] = Loaded <=> results[f] = Loaded \/ outcome[f] = Loaded
    BY <1>2, <2>1, <2>3, <2>4
  <2>6. \A f \in Medallion : f \in AllFeeds
    BY DEF AllFeeds
  <2>7. QED
    BY <1>2, <2>1, <2>3, <2>5, <2>6 DEF controller
<1>15. CASE MedallionRaises
  BY <1>15 DEF MedallionRaises, LB!Raise, AccountInv, StatusInv, Loading
<1>16. CASE PostLoadChecks
  <2>1. /\ pc = "postLoad" /\ pc' = "report" /\ status # "COMPLETED"
        /\ UNCHANGED <<controller, results, errors, status, loadedFrom>>
    BY <1>16 DEF PostLoadChecks, AccountInv, StatusInv, Loading
  <2>2. ASSUME "medallion_load" \notin errors, NEW f \in ActiveMedallion, results[f] = Loaded,
               "post" \in Checks(f)
        PROVE  manifest'[f].post # "none"
    <3>1. manifest[f] \in Entries
      BY <1>1, <2>1 DEF TypeOK, AccountInv, ResultsInv
    <3>2. f \in LoadedFeeds
      BY <1>1, <2>1, <2>2 DEF LoadedFeeds
    <3>3. \E v \in {"passed", "failed"} : manifest'[f] = [manifest[f] EXCEPT !.post = v]
      BY <1>1, <1>16, <2>2, <3>1, <3>2, BatchRunAssumption DEF PostLoadChecks
    <3>4. QED
      BY <3>1, <3>3 DEF Entries
  <2>3. QED
    BY <1>1, <2>1, <2>2 DEF controller
<1>17. CASE Report
  <2>1. /\ pc = "report" /\ pc' = "lineage" /\ runResults' = results /\ errors \subseteq errors'
        /\ UNCHANGED <<controller, manifest, loadedFrom>>
    BY <1>17 DEF Report, EmitReport, Recorded, locals
  <2>2. QED
    BY <1>1, <2>1 DEF controller
<1>18. CASE Lineage
  <2>1. /\ pc = "lineage" /\ pc' = "status" /\ errors \subseteq errors'
        /\ UNCHANGED <<controller, manifest, runResults, loadedFrom>>
    BY <1>18 DEF Lineage, Recorded, locals, outputs
  <2>2. QED
    BY <1>1, <2>1 DEF controller
<1>19. CASE Decide
  <2>1. /\ pc = "status" /\ pc' = "summary"
        /\ UNCHANGED <<controller, manifest, runResults, errors, loadedFrom>>
    BY <1>19 DEF Decide, locals, outputs
  <2>2. QED
    BY <1>1, <2>1 DEF controller
<1>20. CASE Close
  <2>1. /\ pc \in {"summary", "archive", "cleanup"} /\ pc' \in {"archive", "cleanup", "done"}
        /\ UNCHANGED <<controller, manifest, runResults, errors, status, loadedFrom>>
    BY <1>20 DEF Close, locals, outputs
  <2>2. QED
    BY <1>1, <2>1 DEF controller
<1>21. CASE UNCHANGED vars
  BY <1>1, <1>21 DEF vars, controller, locals, outputs
<1>22. QED
  BY <1>3, <1>4, <1>5, <1>6, <1>7, <1>8, <1>9, <1>10, <1>11, <1>12, <1>13, <1>14, <1>15, <1>16,
     <1>17, <1>18, <1>19, <1>20, <1>21 DEF Next

-----------------------------------------------------------------------------

IInv == TypeOK /\ DataInv /\ AccountInv /\ TruthInv

LEMMA Inductive == Spec => []IInv
<1>1. Init => IInv
  BY TypeInit, DataInit, AccountInit, TruthInit DEF IInv
<1>2. IInv /\ [Next]_vars => IInv'
  <2> SUFFICES ASSUME IInv, [Next]_vars PROVE IInv'
    OBVIOUS
  <2>1. TypeOK'
    BY TypeStep DEF IInv
  <2>2. AccountInv'
    BY AccountStep DEF IInv, DataInv
  <2>3. TruthInv'
    BY TruthStep DEF IInv, DataInv
  <2>4. DataInv'
    <3>1. CASE Bookkeeping
      BY <3>1, DataKept DEF IInv
    <3>2. ASSUME NEW f \in Medallion, CheckFeed(f) PROVE DataInv'
      BY <3>2, DataChecked DEF IInv
    <3>3. ASSUME NEW f \in AllFeeds, LoadFeed(f) PROVE DataInv'
      BY <3>3, DataLoaded DEF IInv
    <3>4. CASE PostLoadChecks
      BY <3>4, DataPostChecked DEF IInv
    <3>5. CASE UNCHANGED vars
      BY <3>5 DEF IInv, DataInv, BatchInv, LoadInv, GateInv, BronzeGateHolds, PostLoadIsAboutLoad,
         ActiveMedallion, ActiveBronze, Ingestible, Gated, Checks, vars, controller, locals
    <3>6. QED
      BY <3>1, <3>2, <3>3, <3>4, <3>5 DEF Next, Bookkeeping
  <2>5. QED
    BY <2>1, <2>2, <2>3, <2>4 DEF IInv
<1>3. QED
  BY <1>1, <1>2, PTL DEF Spec

\* Every variable has its type.
THEOREM TypeCorrect == Spec => []TypeOK
BY Inductive, PTL DEF IInv

\* Rows that would fail the configured checks are never copied out of a bronze
\* table by a feed these checks gate.
THEOREM GateHolds == Spec => []BronzeGateHolds
BY Inductive, PTL DEF IInv, DataInv

\* A post-load verdict is about the rows this run has loaded.
THEOREM VerdictsOfLoads == Spec => []PostLoadIsAboutLoad
BY Inductive, PTL DEF IInv, DataInv

\* Every feed whose batch was not cut short has its result in the RunResult, or
\* was blocked by its checks.
THEOREM Accounted == Spec => []EveryFeedAccountedFor
<1>1. IInv => EveryFeedAccountedFor
  BY DEF IInv, AccountInv, RunResultInv, Loading, HasAll, EveryFeedAccountedFor
<1>2. QED
  BY <1>1, Inductive, PTL

\* A run that says COMPLETED has written its report, tells of every feed what
\* became of it, loaded feeds of both batches included, and has a verdict on
\* whatever it loaded and was to check.
THEOREM CompletedTrue == Spec => []CompletedHidesNothing
<1>1. IInv => CompletedHidesNothing
  <2> SUFFICES ASSUME IInv, status = "COMPLETED"
               PROVE  CompletedHidesNothing
    BY DEF CompletedHidesNothing
  <2>1. errors = {} /\ pc \notin Loading
    BY DEF IInv, AccountInv, StatusInv
  <2>2. /\ excel = "results" /\ \A f \in ActiveBronze : runResults[f] # NoResult
        /\ \A f \in ActiveMedallion :
             manifest[f] # NoEntry /\ (runResults[f] # NoResult \/ ~ manifest[f].ingest)
    BY <2>1 DEF IInv, AccountInv, RunResultInv, HasAll
  <2>3. LoadsTold(runResults) /\ VerdictsGiven(runResults)
    BY <2>1 DEF IInv, TruthInv
  <2>4. specs.active \subseteq AllFeeds
    BY DEF IInv, TypeOK
  <2>5. \A f \in specs.active : f \in ActiveBronze \/ f \in ActiveMedallion
    BY <2>4 DEF ActiveBronze, ActiveMedallion, AllFeeds
  <2>6. QED
    BY <2>2, <2>3, <2>4, <2>5
       DEF CompletedHidesNothing, LoadsTold, VerdictsGiven, ActiveBronze, ActiveMedallion
<1>2. QED
  BY <1>1, Inductive, PTL

=============================================================================
