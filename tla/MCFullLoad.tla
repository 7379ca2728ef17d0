----------------------------- MODULE MCFullLoad -----------------------------
(* Two partitionings, source snapshots that are empty or not, and enough     *)
(* versions for commits before, during and after a run and its successor.    *)
EXTENDS FullLoad

MCRowCounts == {0, 1}
=============================================================================
