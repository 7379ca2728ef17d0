-------------------------- MODULE MCIncrementalCDC --------------------------
(* Two keys, so that one row can stay while the other comes, changes and     *)
(* goes: no rows at all, one row, the same row changed, and two rows.        *)
EXTENDS IncrementalCDC

CONSTANTS k1, k2, a, b

Table(v1, v2) == [k \in Keys |-> IF k = k1 THEN v1 ELSE v2]

MCSnapshots == {Table(Absent, Absent), Table(a, Absent), Table(b, Absent), Table(a, b)}
=============================================================================
