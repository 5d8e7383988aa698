------------------------- MODULE MCCollectionCycle -------------------------
(* Instances of CollectionCycle for TLC. *)
EXTENDS CollectionCycle, TLC

CONSTANTS c1, c2

============================================================================
