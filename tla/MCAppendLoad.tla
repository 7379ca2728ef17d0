---------------------------- MODULE MCAppendLoad ----------------------------
(* Two keys, so that one row can stay while the other comes, changes, goes   *)
(* and comes back.                                                           *)
EXTENDS AppendLoad

CONSTANTS k1, k2, a, b

Table(v1, v2) == [k \in Keys |-> IF k = k1 THEN v1 ELSE v2]

MCSnapshots == {Table(Absent, Absent), Table(b, Absent), Table(a, b)}

\* A second row that comes and goes.
MCOneOrTwoRows == {Table(a, Absent), Table(a, b)}
=============================================================================
