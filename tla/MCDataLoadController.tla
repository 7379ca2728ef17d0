------------------------ MODULE MCDataLoadController ------------------------
(* Three feeds over three group numbers: all in one pool, pools of two with  *)
(* a feed alone before or after, and three feeds alone. max_concurrent_      *)
(* batches is zero, below, and above the size of a group.                    *)
EXTENDS DataLoadController

MCConfiguredWorkers == {0, 2, 5}
MCGroupNumbers == {1, 2, 7}
=============================================================================
