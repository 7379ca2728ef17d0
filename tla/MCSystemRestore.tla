--------------------------- MODULE MCSystemRestore ---------------------------
(* A table that one feed writes and another reads, and a table that is only  *)
(* read.                                                                     *)
EXTENDS SystemRestore, TLC

CONSTANTS silver, external

MCEntries == {<<silver, "TARGET">>, <<silver, "SOURCE">>, <<external, "SOURCE">>}
\* The external table comes into the specs, or goes out of them.
MCMasterSpecs == {MCEntries, MCEntries \ {<<external, "SOURCE">>}}
MCMaxContents == silver :> 2 @@ external :> 1
MCHours == {1, 2}
=============================================================================
