------------------------- MODULE MCWorkStealingPool -------------------------
(* Instances of WorkStealingPool. *)
EXTENDS WorkStealingPool

CONSTANTS w1, w2, w3, t1, t2, t3

=============================================================================
