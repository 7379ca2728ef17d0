----------------------------- MODULE MCSCDType2 -----------------------------
(* Two keys, so that one row can stay while the other changes: no rows, one  *)
(* row, and two rows of which one differs.                                   *)
EXTENDS SCDType2

CONSTANTS k1, k2, a, b

Table(v1, v2) == [k \in Keys |-> IF k = k1 THEN v1 ELSE v2]

MCSnapshots == {Table(Absent, Absent), Table(b, Absent), Table(a, b)}
=============================================================================
