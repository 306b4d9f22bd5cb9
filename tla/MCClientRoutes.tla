--------------------------- MODULE MCClientRoutes ---------------------------
(***************************************************************************)
(* Calls of two services whose endpoints come and go.                      *)
(***************************************************************************)
EXTENDS ClientRoutes, TLC

Symmetry == Permutations(Callers) \cup Permutations(Services) \cup Permutations(Addresses)
=============================================================================
