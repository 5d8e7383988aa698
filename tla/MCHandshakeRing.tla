-------------------------- MODULE MCHandshakeRing --------------------------
(* Instances of HandshakeRing small enough for TLC. *)
EXTENDS HandshakeRing

CONSTANTS c1, c2, c3

============================================================================
