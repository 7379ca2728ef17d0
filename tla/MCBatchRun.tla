----------------------------- MODULE MCBatchRun -----------------------------
(* A chain of the medallion layout, bronze to silver to gold: the source of  *)
(* silver is loaded by the bronze ingest of the run, that of gold by the     *)
(* silver feed in the same batch.                                            *)
EXTENDS BatchRun

CONSTANTS bronze, silver, gold

MCUpstream == [f \in Medallion |-> IF f = silver THEN bronze ELSE silver]
MCCheckConfigs == {{"standard"}, {"pre", "post"}, {"post"}}
=============================================================================
