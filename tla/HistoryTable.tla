---------------------------- MODULE HistoryTable ----------------------------
(***************************************************************************)
(* What a target that keeps history promises its readers, whatever the     *)
(* staging behind it does: APPEND_LOAD and SCD_TYPE_2 both implement it.   *)
(* Each key has a sequence of versions, oldest first. A commit adds at     *)
(* most one version per key, at the end, or closes versions, and never     *)
(* changes what a version says, opens a closed one again, or takes one     *)
(* away that is not past the retention. Only losing the table as a whole   *)
(* loses the history.                                                      *)
(***************************************************************************)
EXTENDS Integers, Sequences

CONSTANTS Keys, Vals,
          NoTable       \* the table does not exist

VARIABLE table

\* A row of the table; expired: past the retention of the system's cleanup.
Version == [val : Vals, open : BOOLEAN, expired : BOOLEAN]
Fresh(val) == [val |-> val, open |-> TRUE, expired |-> FALSE]
Closed(version) == [version EXCEPT !.open = FALSE, !.expired = FALSE]

Init == table = NoTable \/ table = [k \in Keys |-> <<>>]

\* The table is created with at most one version of each key.
Create ==
    /\ table = NoTable /\ table' # NoTable
    /\ \A k \in Keys : table'[k] = <<>> \/ \E v \in Vals : table'[k] = <<Fresh(v)>>
    /\ DOMAIN table' = Keys

Add ==
    /\ table # NoTable /\ table' # NoTable
    /\ DOMAIN table' = Keys
    /\ \A k \in Keys : table'[k] = table[k] \/ \E v \in Vals : table'[k] = Append(table[k], Fresh(v))

\* Some open versions are closed.
Close ==
    /\ table # NoTable /\ table' # NoTable
    /\ DOMAIN table' = Keys
    /\ \A k \in Keys :
         /\ DOMAIN table'[k] = DOMAIN table[k]
         /\ \A i \in DOMAIN table[k] :
              \/ table'[k][i] = table[k][i]
              \/ table[k][i].open /\ table'[k][i] = Closed(table[k][i])

\* Time passes, and what is past the retention may be deleted.
Age ==
    /\ table # NoTable
    /\ table' = [k \in Keys |-> [i \in DOMAIN table[k] |-> [table[k][i] EXCEPT !.expired = TRUE]]]

Forget ==
    /\ table # NoTable /\ table' # NoTable
    /\ DOMAIN table' = Keys
    /\ \A k \in Keys : \E at \in [DOMAIN table'[k] -> DOMAIN table[k]] :
         /\ \A i, j \in DOMAIN at : i < j => at[i] < at[j]
         /\ \A i \in DOMAIN at : table'[k][i] = table[k][at[i]]
         /\ \A n \in DOMAIN table[k] : table[k][n].expired \/ \E i \in DOMAIN at : at[i] = n

Lose == table # NoTable /\ table' = NoTable

Next == Create \/ Add \/ Close \/ Age \/ Forget \/ Lose

Spec == Init /\ [][Next]_table

=============================================================================
