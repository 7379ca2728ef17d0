-------------------------- MODULE MCMedallionChain --------------------------
(* One partitioning, a source that is never empty and changes twice.         *)
EXTENDS MedallionChain

MCRowCounts == {1}
=============================================================================
