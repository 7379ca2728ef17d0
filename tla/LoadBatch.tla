----------------------------- MODULE LoadBatch ------------------------------
(***************************************************************************)
(* What the orchestrator relies on when it hands a batch of feeds to a     *)
(* DataLoadController: either run() raises, and get_load_results() stays   *)
(* empty, or run() returns and there is exactly one LoadResult per feed.   *)
(* Groups, pools and workers are left to DataLoadController, which         *)
(* implements this specification.                                          *)
(***************************************************************************)
CONSTANTS Feeds,     \* all feeds
          Results,   \* the LoadResults a feed can end with
          NoResult   \* a feed without LoadResult

VARIABLES batch,     \* the feeds handed to the controller
          outcome,   \* feed -> the LoadResult gathered for it so far
          reported,  \* feed -> its LoadResult in get_load_results()
          phase      \* is run() in progress, has it returned or raised?

batchVars == <<batch, outcome, reported, phase>>

Nothing == [f \in Feeds |-> NoResult]

Init ==
    /\ batch \subseteq Feeds
    /\ outcome = Nothing
    /\ reported = Nothing
    /\ phase = "running"

\* The controller learns how feed f ended.
Finish(f) ==
    /\ phase = "running"
    /\ f \in batch /\ outcome[f] = NoResult
    /\ \E r \in Results : outcome' = [outcome EXCEPT ![f] = r]
    /\ UNCHANGED <<batch, reported, phase>>

\* All results are handed over at once.
Return ==
    /\ phase = "running"
    /\ \A f \in batch : outcome[f] # NoResult
    /\ reported' = outcome
    /\ phase' = "returned"
    /\ UNCHANGED <<batch, outcome>>

\* An exception leaves run().
Raise ==
    /\ phase = "running"
    /\ phase' = "raised"
    /\ UNCHANGED <<batch, outcome, reported>>

Next == (\E f \in Feeds : Finish(f)) \/ Return \/ Raise

Spec == Init /\ [][Next]_batchVars

=============================================================================
