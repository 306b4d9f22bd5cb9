------------------------------ MODULE MCNaming ------------------------------
(***************************************************************************)
(* A server alone, whose sessions break, that publishes twice and leaves;  *)
(* a client alone, whose sessions break, among other servers; and the two  *)
(* together, with one fault or with stops.                                 *)
(***************************************************************************)
EXTENDS Naming

Bound(clients, frail, faults, changes, publishes, stops) ==
    [clients |-> clients, frail |-> frail, faults |-> faults, changes |-> changes, publishes |-> publishes,
     stops |-> stops]

MCBudgets == { Bound({"registry"}, {"registry"}, 2, 0, 2, 1),
               Bound({"discovery"}, {"discovery"}, 1, 2, 0, 1),
               Bound({"discovery"}, {"discovery"}, 2, 1, 0, 0),
               Bound(Clients, {"registry"}, 1, 0, 1, 0),
               Bound(Clients, {}, 0, 0, 1, 1) }
=============================================================================
