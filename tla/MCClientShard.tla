--------------------------- MODULE MCClientShard ---------------------------
(* Instances of ClientShard for TLC. *)
EXTENDS ClientShard

CONSTANTS t1, t2, t3
=============================================================================
