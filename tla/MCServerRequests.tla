------------------------- MODULE MCServerRequests -------------------------
(* Two connections on two shards and three requests.  r2 may meet r1 on a  *)
(* key, on its connection or another, with the same body or another, or    *)
(* have a third key for two entries, or none.                              *)
EXTENDS ServerRequests, TLC

CONSTANTS r1, r2, r3, c1, c2, s1, s2, k1, k2, k3

MCShardOf == (c1 :> s1) @@ (c2 :> s2)

Content(c, k, b, m) == [conn |-> c, key |-> k, body |-> b, mode |-> m]

MCContents ==
    (r1 :> {Content(c1, k1, "b1", "CPU_POOL")})
    @@ (r2 :> {Content(c2, k1, "b1", "CPU_POOL"), Content(c1, k1, "b1", "CPU_POOL"),
               Content(c1, k1, "b2", "CPU_POOL"), Content(c2, k3, "b2", "CPU_POOL"),
               Content(c2, NoKey, "b2", "NETWORK_INLINE")})
    @@ (r3 :> {Content(c1, k2, "b3", "NETWORK_INLINE")})
=============================================================================
