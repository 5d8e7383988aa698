------------------------- MODULE MCServiceRequests -------------------------
(* Instances of ServiceRequests for TLC. *)
EXTENDS ServiceRequests, TLC

CONSTANTS c1, c2, c3

ClientSymmetry == Permutations(Clients)

============================================================================
