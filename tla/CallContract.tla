---------------------------- MODULE CallContract ----------------------------
(***************************************************************************)
(* What a connection promises to those who call through it, whatever its   *)
(* fibers, timers and peer do: a call is taken only while the connection   *)
(* is ready, is decided once, and never fails while it is ready; and a     *)
(* connection that left a state does not come back to it.                  *)
(***************************************************************************)
CONSTANT Ids   \* request ids

VARIABLES
    gate,      \* the connection is "shut", "open", "leaving", "closed"
    life       \* each id is "new", "waiting", decided (its status), or "gone"

contractVars == <<gate, life>>

Failed == {"CONNECTION_CLOSED", "PROTOCOL_ERROR"}
Decided == {"OK", "TIMEOUT"} \cup Failed

ContractInit == gate = "shut" /\ life = [i \in Ids |-> "new"]

Goes(i, from, to) ==
    /\ life[i] = from
    /\ life' = [life EXCEPT ![i] = to]
    /\ UNCHANGED gate

Accept(i) == gate = "open" /\ Goes(i, "new", "waiting")
Refuse(i) == gate = "open" /\ Goes(i, "new", "gone")
Decide(i) == gate # "shut" /\ \E how \in {"OK", "TIMEOUT"} : Goes(i, "waiting", how)
Fail(i) == gate \in {"leaving", "closed"} /\ \E how \in Failed : Goes(i, "waiting", how)
Return(i) == \E how \in Decided : Goes(i, how, "gone")

Move ==
    /\ <<gate, gate'>> \in {<<"shut", "open">>, <<"open", "leaving">>, <<"open", "closed">>,
                            <<"leaving", "closed">>}
    /\ UNCHANGED life

ContractNext == Move \/ \E i \in Ids : Accept(i) \/ Refuse(i) \/ Decide(i) \/ Fail(i) \/ Return(i)

ContractSpec == ContractInit /\ [][ContractNext]_contractVars
=============================================================================
