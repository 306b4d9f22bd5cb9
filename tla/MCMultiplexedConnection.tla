---------------------- MODULE MCMultiplexedConnection ----------------------
(* Small instances of MultiplexedConnection for TLC. *)
EXTENDS MultiplexedConnection

CONSTANTS c1, c2
=============================================================================
