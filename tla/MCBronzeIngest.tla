--------------------------- MODULE MCBronzeIngest ---------------------------
(* Numbers whose order as text is not theirs, one of them also with a        *)
(* leading zero, and a name that is no number.                               *)
EXTENDS BronzeIngest

MCNames == [num : {9, 10}, plain : {TRUE}] \cup
           {[num |-> 9, plain |-> FALSE], [num |-> NotANumber, plain |-> TRUE]}
=============================================================================
