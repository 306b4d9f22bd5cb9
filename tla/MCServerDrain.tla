--------------------------- MODULE MCServerDrain ---------------------------
(* Two shards, with one connection on Main and one on s2; a request for    *)
(* the CPU pool on the first, one for the I/O worker and an inline one on  *)
(* the second.                                                             *)
EXTENDS ServerDrain

CONSTANTS r1, r2, r3, c1, c2, s1, s2

MCShardOf == [c \in Conns |-> IF c = c1 THEN s1 ELSE s2]
MCConnOf == [r \in Requests |-> IF r = r1 THEN c1 ELSE c2]
MCModeOf == [r \in Requests |-> CASE r = r1 -> "CPU_POOL" [] r = r2 -> "IO_COROUTINE" [] OTHER -> "NETWORK_INLINE"]
=============================================================================
