--------------------------- MODULE ServiceRegistry ---------------------------
(***************************************************************************)
(* ZookeeperServiceRegistry: a server publishes its endpoint of one        *)
(* service step by step, each step sent by the completion of the one       *)
(* before, and does so again whenever its session is new or back.  The     *)
(* record reg is what the mutex guards; a handler takes it to its next     *)
(* value and the requests it sends.                                        *)
(***************************************************************************)
EXTENDS ZooKeeper

VARIABLES
    reg,        \* the registry's fields
    renewal,    \* the thread in ReconnectExpired: where it is, the generation it took
    everPublished, \* whether the server called Publish
    unheard,    \* history: the session came up, or expired, and the registry ignored it
    refused     \* history: the last publication found the node of another session

registryVars == <<reg, renewal, everPublished, unheard, refused>>

Idle == [at |-> "none", gen |-> 0]

\* handle_ is the number of its session, 0 for nullptr.
RegistryInit ==
    /\ reg = [started |-> "registry" \in budget.clients, handle |-> 1, gen |-> 1, wanted |-> FALSE,
              publishing |-> FALSE, again |-> FALSE, recorded |-> FALSE, published |-> FALSE]
    /\ renewal = Idle /\ everPublished = FALSE /\ unheard = FALSE /\ refused = FALSE

Same(r) == [next |-> r, send |-> <<>>]
Sends(r, kind) == [next |-> r, send |-> <<[kind |-> kind, gen |-> r.gen]>>]

\* Only with a session that is up, and one at a time.
BeginPublish(r) ==
    IF ~r.started \/ r.handle = 0 \/ ~r.wanted \/ link["registry"] # "up" THEN Same(r)
    ELSE IF r.publishing THEN Same([r EXCEPT !.again = TRUE])
    ELSE Sends([r EXCEPT !.publishing = TRUE, !.again = FALSE], "root")

\* The completion is of the publication under way, not of one given up.
Current(r, g) == r.publishing /\ g = r.gen

FinishPublish(r, g, success) ==
    LET done == [r EXCEPT !.publishing = FALSE, !.again = FALSE, !.published = success]
    IN  IF ~Current(r, g) THEN Same(r)
        ELSE IF r.again THEN BeginPublish(done)
        ELSE Same(done)

\* The step that follows, unless the publication was given up.
Proceed(r, g, kind) == IF Current(r, g) THEN Sends(r, kind) ELSE Same(r)

Records(r, g) == IF g = r.gen THEN [r EXCEPT !.recorded = TRUE] ELSE r
-----------------------------------------------------------------------------
(* Completions and events, in the library's thread                         *)

Delivered(kind) ==
    /\ inbox["registry"] # <<>>
    /\ Head(inbox["registry"]).kind = kind

React(step) ==
    /\ reg' = step.next
    /\ requests' = [requests EXCEPT !["registry"] = @ \o step.send]
    /\ inbox' = [inbox EXCEPT !["registry"] = Tail(@)]
    /\ UNCHANGED <<nodes, owner, session, link, watches, missed, budget, log, renewal, everPublished>>

Arrived == Head(inbox["registry"])

RootCompletion ==
    /\ Delivered("root")
    /\ React(IF Arrived.result = "ok" THEN Proceed(reg, Arrived.gen, "service")
             ELSE FinishPublish(reg, Arrived.gen, FALSE))
    /\ UNCHANGED <<unheard, refused>>

ServiceCompletion ==
    /\ Delivered("service")
    /\ React(IF Arrived.result = "ok" THEN Proceed(reg, Arrived.gen, "providers")
             ELSE FinishPublish(reg, Arrived.gen, FALSE))
    /\ UNCHANGED <<unheard, refused>>

ProvidersCompletion ==
    /\ Delivered("providers")
    /\ React(IF Arrived.result = "ok" THEN Proceed(reg, Arrived.gen, "endpoint")
             ELSE FinishPublish(reg, Arrived.gen, FALSE))
    /\ UNCHANGED <<unheard, refused>>

EndpointCompletion ==
    /\ Delivered("endpoint")
    /\ React(IF Arrived.result = "ok" THEN FinishPublish(Records(reg, Arrived.gen), Arrived.gen, TRUE)
             ELSE IF Arrived.result = "exists" THEN Proceed(reg, Arrived.gen, "stat")
             ELSE FinishPublish(reg, Arrived.gen, FALSE))
    /\ refused' = (refused /\ Arrived.result # "ok")
    /\ UNCHANGED unheard

\* Fault: any node under the address is taken for its own.
AdoptsAny(result) == result # "error"

\* Only a node this session created is its own.
Adopts(result) == result = "own"

ExistingEndpointCompletion ==
    /\ Delivered("stat")
    /\ React(IF Adopts(Arrived.result) /\ Current(reg, Arrived.gen) THEN Sends(reg, "set")
             ELSE FinishPublish(reg, Arrived.gen, FALSE))
    /\ refused' = (Arrived.result = "other" \/ refused)
    /\ UNCHANGED unheard

SetCompletion ==
    /\ Delivered("set")
    /\ React(IF Arrived.result = "ok"
             THEN FinishPublish(IF reg.publishing THEN Records(reg, Arrived.gen) ELSE reg, Arrived.gen, TRUE)
             ELSE FinishPublish(reg, Arrived.gen, FALSE))
    /\ refused' = (refused /\ Arrived.result # "ok")
    /\ UNCHANGED unheard

Hears == reg.started /\ reg.handle = session["registry"]

\* Watcher: the session is up.
RegistryConnected ==
    /\ Delivered("connected")
    /\ React(IF Hears THEN BeginPublish(reg) ELSE Same(reg))
    /\ unheard' = ~Hears
    /\ UNCHANGED refused

\* Fault: the publication under way is still marked so.
ForgetsLess(r) == [r EXCEPT !.handle = 0, !.gen = @ + 1, !.recorded = FALSE, !.published = FALSE]

Forget(r) == [r EXCEPT !.handle = 0, !.gen = @ + 1, !.publishing = FALSE, !.again = FALSE,
                       !.recorded = FALSE, !.published = FALSE]

\* Watcher: the session expired; ReconnectExpired up to its zookeeper_close, which
\* has every completion called that is outstanding.
RegistryExpired ==
    /\ Delivered("expired")
    /\ reg' = IF Hears THEN Forget(reg) ELSE reg
    /\ renewal' = IF Hears THEN [at |-> "closed", gen |-> reg.gen + 1] ELSE renewal
    /\ unheard' = (unheard \/ ~Hears)
    /\ Drains("registry")
    /\ UNCHANGED <<nodes, owner, session, link, watches, missed, budget, log, everPublished, refused>>

\* It closes the session and opens another, unless the registry was stopped.
RegistryReopens ==
    /\ renewal.at = "closed" /\ inbox["registry"] = <<>>
    /\ \/ reg.started /\ Open("registry") /\ renewal' = [renewal EXCEPT !.at = "opened"]
       \/ ~reg.started /\ Close("registry") /\ renewal' = Idle
    /\ UNCHANGED <<reg, everPublished, unheard, refused>>

\* It keeps the new session, unless something changed meanwhile.
RegistryRetains ==
    /\ renewal.at = "opened" /\ renewal' = Idle
    /\ IF reg.started /\ reg.handle = 0 /\ reg.gen = renewal.gen
       THEN reg' = [reg EXCEPT !.handle = session["registry"]] /\ UNCHANGED zkVars
       ELSE Close("registry") /\ UNCHANGED reg
    /\ UNCHANGED <<everPublished, unheard, refused>>
-----------------------------------------------------------------------------
(* Calls of the server                                                     *)

GivesUp(r) == IF r.publishing THEN [r EXCEPT !.gen = @ + 1, !.publishing = FALSE] ELSE r

Calls(step) ==
    /\ reg' = step.next
    /\ requests' = [requests EXCEPT !["registry"] = @ \o step.send]
    /\ UNCHANGED <<nodes, owner, session, link, inbox, watches, missed, log, renewal, unheard>>

Publish ==
    /\ budget.publishes > 0 /\ reg.started
    /\ everPublished => reg.wanted
    /\ everPublished' = TRUE
    /\ budget' = [budget EXCEPT !.publishes = @ - 1]
    /\ Calls(BeginPublish([GivesUp(reg) EXCEPT !.wanted = TRUE, !.again = FALSE, !.published = FALSE]))
    /\ UNCHANGED refused

\* The server leaves for good.
Unpublish ==
    /\ reg.started /\ reg.wanted
    /\ budget.stops > 0
    /\ budget' = [budget EXCEPT !.stops = @ - 1]
    /\ UNCHANGED everPublished
    /\ Calls([next |-> [Forget(reg) EXCEPT !.handle = reg.handle, !.wanted = FALSE],
              send |-> IF reg.recorded /\ reg.handle # 0 THEN <<[kind |-> "delete", gen |-> 0]>> ELSE <<>>])
    /\ UNCHANGED refused

Deleting == \E i \in DOMAIN requests["registry"] : requests["registry"][i].kind = "delete"

\* After Unpublish, whose deletes have ended.
StopRegistry ==
    /\ reg.started /\ everPublished /\ ~reg.wanted
    /\ Deleting => link["registry"] = "expired"
    /\ reg' = [Forget(reg) EXCEPT !.started = FALSE]
    /\ IF reg.handle # 0 THEN Close("registry") ELSE UNCHANGED zkVars
    /\ UNCHANGED <<renewal, everPublished, unheard, refused>>
-----------------------------------------------------------------------------
RegistryHandles ==
    \/ RootCompletion \/ ServiceCompletion \/ ProvidersCompletion \/ EndpointCompletion
    \/ ExistingEndpointCompletion \/ SetCompletion \/ RegistryConnected \/ RegistryExpired

RegistryRenews == RegistryReopens \/ RegistryRetains

(***************************************************************************)
(* A registry that says it is published is: it has recorded the endpoint,  *)
(* so that Unpublish deletes it, and the node is there and of the          *)
(* registry's own session, as long as that has not expired.  A publication *)
(* overlaps lost replies, given-up publications, and sessions before this  *)
(* (FinishPublish, ExistingEndpointCompletion, ReconnectExpired).          *)
(***************************************************************************)
PublishedIsThere ==
    reg.published =>
        /\ reg.recorded
        /\ link["registry"] \in {"up", "down"} => OwnsEndpoint("registry")
=============================================================================
