----------------------------- MODULE MCCoScope -----------------------------
(* Instances of CoScope for TLC. *)
EXTENDS CoScope

CONSTANTS t1, t2, t3
=============================================================================
