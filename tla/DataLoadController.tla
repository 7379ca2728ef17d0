------------------------- MODULE DataLoadController -------------------------
(***************************************************************************)
(* The data load controller and the dispatcher it calls for every feed.    *)
(*                                                                         *)
(* Feeds that share a parallelism_group_number run in one thread pool, the *)
(* groups run one after the other in ascending order, and the results of   *)
(* the whole batch are handed over in a single assignment at the very end. *)
(* A feed that fails becomes a LoadResult; it never stops its neighbours.  *)
(*                                                                         *)
(* The order of feeds inside a group is not part of the model:             *)
(* sort_values uses an unstable sort, so the pool's queue is a set here.   *)
(***************************************************************************)
EXTENDS Integers, FiniteSets

CONSTANTS Feeds,              \* the rows of the master specs handed to the controller
          GroupNumbers,       \* the values parallelism_group_number may take
          ConfiguredWorkers,  \* the values max_concurrent_batches may take
          Nobody              \* no group is being executed

ASSUME ControllerAssumption ==
    /\ IsFiniteSet(Feeds)
    /\ GroupNumbers \subseteq Int
    /\ ConfiguredWorkers \subseteq Int
    /\ Nobody \notin Int

VARIABLES groupOf,     \* feed -> its parallelism_group_number (never changes)
          maxWorkers,  \* self.max_workers (never changes)
          runPhase,    \* where run() is
          current,     \* the group __run_group is executing, or Nobody
          state,       \* feed -> waiting, queued in the pool, running, ended, collected
          produced,    \* feed -> how its dispatch ended, once it did
          executed,    \* the results __execute has gathered so far, as feed -> result
          published    \* self.load_results_list, as feed -> result

controllerVars == <<groupOf, maxWorkers, runPhase, current, state, produced, executed, published>>

-----------------------------------------------------------------------------
(* Results.                                                                *)

\* What loader.load() did. "missing": it reports success but the target
\* table does not exist; "raised": it raised an exception.
StrategyOutcomes == {"loaded", "skipped", "nochange", "missing", "raised"}

\* The LoadResult of a dispatch. A load that claims success without a target
\* table is turned into a failure, unless it also claims to have skipped.
Dispatch(outcome) ==
    [success |-> outcome \in {"loaded", "skipped"},
     skipped |-> outcome \in {"skipped", "nochange"},
     code    |-> CASE outcome = "missing" -> "HF038"
                   [] outcome = "raised"  -> "HF039"
                   [] OTHER               -> "none"]

\* What the controller records for a dispatch that itself raised in the pool.
PoolFailure == [success |-> FALSE, skipped |-> FALSE, code |-> "HF093"]

\* The exception in a future whose dispatch raised; it is not a LoadResult.
Escaped == [success |-> FALSE, skipped |-> FALSE, code |-> "escaped"]

NotRun == [success |-> FALSE, skipped |-> FALSE, code |-> "unset"]

LoadResults == {Dispatch(o) : o \in StrategyOutcomes} \cup {PoolFailure}

-----------------------------------------------------------------------------
(* Groups and the pool.                                                    *)

InGroup(g) == {f \in Feeds : groupOf[f] = g}

\* A group is pending while its feeds have not been submitted.
Pending == {groupOf[f] : f \in {x \in Feeds : state[x] = "waiting"}}

Pooled(g) == Cardinality(InGroup(g)) > 1

Running == {f \in Feeds : state[f] = "running"}

\* Faulty variant: the configured number is taken as it is.
NoFloor(n) == n

\* max_workers = max(1, max_concurrent_batches)
MaxWorkers(n) == IF n > 1 THEN n ELSE 1

\* Faulty variant: one worker for every feed of the group.
WorkerPerFeed(g) == Cardinality(InGroup(g))

\* The size of the pool of group g: min(len(feeds), max_workers).
Workers(g) == LET n == Cardinality(InGroup(g))
              IN  IF n < maxWorkers THEN n ELSE maxWorkers

-----------------------------------------------------------------------------

ControllerInit ==
    /\ groupOf \in [Feeds -> GroupNumbers]
    /\ maxWorkers \in {MaxWorkers(n) : n \in ConfiguredWorkers}
    /\ runPhase = "ready"
    /\ current = Nobody
    /\ state = [f \in Feeds |-> "waiting"]
    /\ produced = [f \in Feeds |-> NotRun]
    /\ executed = [f \in Feeds |-> NotRun]
    /\ published = [f \in Feeds |-> NotRun]

\* run: __prepare sorts the rows and builds the groups.
Prepare ==
    /\ runPhase = "ready"
    /\ runPhase' = "executing"
    /\ UNCHANGED <<groupOf, maxWorkers, current, state, produced, executed, published>>

\* __run_group: submit every feed of the next group to a pool, or, for a group
\* of one feed, dispatch it on the calling thread.
StartGroup(g) ==
    /\ runPhase = "executing" /\ current = Nobody
    /\ g \in Pending /\ \A h \in Pending : g <= h
    /\ current' = g
    /\ state' = [f \in Feeds |-> IF groupOf[f] # g THEN state[f]
                                 ELSE IF Pooled(g) THEN "queued" ELSE "running"]
    /\ UNCHANGED <<groupOf, maxWorkers, runPhase, produced, executed, published>>

\* A free worker of the pool takes a queued feed.
TakeFeed(f) ==
    /\ state[f] = "queued"
    /\ Cardinality(Running) < Workers(groupOf[f])
    /\ state' = [state EXCEPT ![f] = "running"]
    /\ UNCHANGED <<groupOf, maxWorkers, runPhase, current, produced, executed, published>>

\* dispatch returns a LoadResult whatever the strategy did.
FinishFeed(f) ==
    /\ state[f] = "running"
    /\ \E o \in StrategyOutcomes : produced' = [produced EXCEPT ![f] = Dispatch(o)]
    /\ state' = [state EXCEPT ![f] = "ended"]
    /\ UNCHANGED <<groupOf, maxWorkers, runPhase, current, executed, published>>

\* _dispatch_single_feed raises outside dispatch's own try block.
DispatchRaises(f) ==
    /\ state[f] = "running"
    /\ produced' = [produced EXCEPT ![f] = Escaped]
    /\ state' = [state EXCEPT ![f] = "ended"]
    /\ UNCHANGED <<groupOf, maxWorkers, runPhase, current, executed, published>>

\* Faulty variant: the pool has no handler for an exception either.
CollectUnhandled(f) ==
    /\ state[f] = "ended"
    /\ state' = [state EXCEPT ![f] = "collected"]
    /\ IF produced[f] = Escaped
       THEN runPhase' = "raised" /\ UNCHANGED executed
       ELSE executed' = [executed EXCEPT ![f] = produced[f]] /\ UNCHANGED runPhase
    /\ UNCHANGED <<groupOf, maxWorkers, current, produced, published>>

\* Faulty variant: the handler logs the exception and records nothing.
CollectLogsOnly(f) ==
    /\ state[f] = "ended"
    /\ state' = [state EXCEPT ![f] = "collected"]
    /\ executed' = IF produced[f] = Escaped THEN executed
                   ELSE [executed EXCEPT ![f] = produced[f]]
    /\ UNCHANGED <<groupOf, maxWorkers, runPhase, current, produced, published>>

\* Faulty variant: what the future raised is recorded as if it were a result.
CollectException(f) ==
    /\ state[f] = "ended"
    /\ state' = [state EXCEPT ![f] = "collected"]
    /\ executed' = [executed EXCEPT ![f] = produced[f]]
    /\ UNCHANGED <<groupOf, maxWorkers, runPhase, current, produced, published>>

\* Faulty variant: every result is handed over as soon as it is there.
CollectStreams(f) ==
    /\ state[f] = "ended"
    /\ state' = [state EXCEPT ![f] = "collected"]
    /\ IF produced[f] = Escaped /\ ~ Pooled(groupOf[f])
       THEN runPhase' = "raised" /\ UNCHANGED <<executed, published>>
       ELSE /\ executed' = [executed EXCEPT ![f] =
                              IF produced[f] = Escaped THEN PoolFailure ELSE produced[f]]
            /\ published' = executed'
            /\ UNCHANGED runPhase
    /\ UNCHANGED <<groupOf, maxWorkers, current, produced>>

\* as_completed hands over one finished feed, in the order they finish. In a
\* pool an exception becomes a failed LoadResult; a feed dispatched on the
\* calling thread has no handler and its exception leaves run().
Collect(f) ==
    /\ state[f] = "ended"
    /\ state' = [state EXCEPT ![f] = "collected"]
    /\ IF produced[f] = Escaped /\ ~ Pooled(groupOf[f])
       THEN runPhase' = "raised" /\ UNCHANGED executed
       ELSE /\ executed' = [executed EXCEPT ![f] =
                              IF produced[f] = Escaped THEN PoolFailure ELSE produced[f]]
            /\ UNCHANGED runPhase
    /\ UNCHANGED <<groupOf, maxWorkers, current, produced, published>>

\* Faulty variant: the group ends when its last feed has left the queue.
EndGroupEarly ==
    /\ runPhase = "executing" /\ current # Nobody
    /\ \A f \in InGroup(current) : state[f] # "queued"
    /\ current' = Nobody
    /\ UNCHANGED <<groupOf, maxWorkers, runPhase, state, produced, executed, published>>

\* The pool is shut down once as_completed is exhausted.
EndGroup ==
    /\ runPhase = "executing" /\ current # Nobody
    /\ \A f \in InGroup(current) : state[f] = "collected"
    /\ current' = Nobody
    /\ UNCHANGED <<groupOf, maxWorkers, runPhase, state, produced, executed, published>>

\* __execute returns and run() assigns load_results_list.
Publish ==
    /\ runPhase = "executing" /\ current = Nobody /\ Pending = {}
    /\ runPhase' = "returned"
    /\ published' = executed
    /\ UNCHANGED <<groupOf, maxWorkers, current, state, produced, executed>>

ControllerNext ==
    \/ Prepare
    \/ \E g \in GroupNumbers : StartGroup(g)
    \/ \E f \in Feeds : TakeFeed(f)
    \/ \E f \in Feeds : FinishFeed(f)
    \/ \E f \in Feeds : DispatchRaises(f)
    \/ \E f \in Feeds : Collect(f)
    \/ EndGroup
    \/ Publish

\* Every dispatch is assumed to return or raise: a load that hangs forever
\* blocks its group, as the code sets no timeout.
ControllerSpec == ControllerInit /\ [][ControllerNext]_controllerVars /\ WF_controllerVars(ControllerNext)

-----------------------------------------------------------------------------
(* Properties.                                                             *)

FeedStates == {"waiting", "queued", "running", "ended", "collected"}

\* Every variable has its type.
ControllerTypeOK ==
    /\ groupOf \in [Feeds -> GroupNumbers]
    /\ maxWorkers \in Int
    /\ runPhase \in {"ready", "executing", "returned", "raised"}
    /\ current \in GroupNumbers \cup {Nobody}
    /\ state \in [Feeds -> FeedStates]
    /\ produced \in [Feeds -> LoadResults \cup {NotRun, Escaped}]
    /\ executed \in [Feeds -> LoadResults \cup {NotRun}]
    /\ published \in [Feeds -> LoadResults \cup {NotRun}]

\* No feed of a later group is submitted before every feed of every earlier
\* group has been collected: a feed whose source is the target of an earlier
\* group never reads a table that is still being written.
GroupBarrier ==
    \A f, g \in Feeds :
        groupOf[f] < groupOf[g] /\ state[g] # "waiting" => state[f] = "collected"

\* Whatever is configured, at least one worker runs and never more feeds are
\* in flight than max_concurrent_batches allows.
WorkerBound ==
    /\ maxWorkers >= 1
    /\ Cardinality(Running) <= maxWorkers

\* The list run() leaves behind holds one result for every feed, and each is
\* the outcome of that feed's own dispatch: no result is lost when feeds fail,
\* when they finish out of order, or when a dispatch raises in the pool.
NoResultLost ==
    runPhase = "returned" =>
        \A f \in Feeds :
            published[f] = IF produced[f] = Escaped THEN PoolFailure ELSE produced[f]

\* An exception leaves run(), losing the results of every feed loaded so far,
\* only if it came from a feed that was alone in its group.
RaisesOnlyAlone ==
    runPhase = "raised" =>
        /\ \E f \in Feeds : produced[f] = Escaped /\ InGroup(groupOf[f]) = {f}
        /\ published = [f \in Feeds |-> NotRun]

\* Unless an exception leaves run(), the batch comes to an end with a result
\* for every feed: a failing feed keeps no other feed from being dispatched,
\* and no configured number of workers leaves a pool without any.
EveryFeedReported ==
    <>(\/ runPhase = "raised"
       \/ runPhase = "returned" /\ \A f \in Feeds : published[f] # NotRun)

\* The controller implements the contract its caller relies on: a batch either
\* raises without any result, or returns one result per feed, each gathered
\* once and never changed.
Contract == INSTANCE LoadBatch
            WITH Results <- LoadResults, NoResult <- NotRun, batch <- Feeds,
                 outcome <- executed, reported <- published,
                 phase <- IF runPhase \in {"returned", "raised"} THEN runPhase ELSE "running"

\* The property of the runs: see Contract.
ImplementsContract == Contract!Spec

=============================================================================
