-------------------------- MODULE ServiceDiscovery --------------------------
(***************************************************************************)
(* ZookeeperServiceDiscovery: a client keeps the endpoints of one service  *)
(* up to date.  A refresh asks whether the service has providers, which,   *)
(* and reads each; it leaves a watch on all it read, and whatever changes  *)
(* meanwhile asks for one more refresh after it.  The record dis is what   *)
(* the mutex guards; a handler takes it to its next value and the requests *)
(* it sends.                                                               *)
(***************************************************************************)
EXTENDS ZooKeeper

VARIABLES
    dis,       \* the discovery's fields
    refresh,   \* the DiscoveryRefresh under way
    view,      \* what the sink was given last
    viewAt,    \* history: the moment of the log it was read at
    revival,   \* the thread in Start or ReconnectExpired: where it is, the generation it took
    deaf       \* history: an expiry was ignored

discoveryVars == <<dis, refresh, view, viewAt, revival, deaf>>

NoRefresh == [left |-> 0, found |-> {}, failed |-> FALSE, at |-> 0]
Resting == [at |-> "none", gen |-> 0]

\* Start has opened a session, and not yet stored its handle.
DiscoveryInit ==
    /\ dis = [started |-> "discovery" \in budget.clients, handle |-> 0, gen |-> 0,
              watched |-> FALSE, pending |-> FALSE, again |-> FALSE]
    /\ refresh = NoRefresh
    /\ view = {} /\ viewAt = 0
    /\ revival = [at |-> IF dis.started THEN "starting" ELSE "none", gen |-> 0] /\ deaf = FALSE

Quiet(d) == [next |-> d, send |-> <<>>]
Ask(kind, g) == <<[kind |-> kind, gen |-> g]>>

\* One refresh at a time; without a handle it ends at once.
RefreshService(d) ==
    IF ~d.started \/ ~d.watched THEN Quiet(d)
    ELSE IF d.pending THEN Quiet([d EXCEPT !.again = TRUE])
    ELSE IF d.handle = 0 THEN Quiet([d EXCEPT !.again = FALSE])
    ELSE [next |-> [d EXCEPT !.pending = TRUE], send |-> Ask("exists", d.gen)]

\* Fault: what changed during the refresh is not read again.
FinishForgetsAgain(d) == Quiet([d EXCEPT !.pending = FALSE, !.again = FALSE])

FinishRefresh(d) ==
    LET done == [d EXCEPT !.pending = FALSE, !.again = FALSE]
    IN  IF d.again THEN RefreshService(done) ELSE Quiet(done)

DiscoverAllServices(d) == IF d.started /\ d.handle # 0 THEN Ask("rootChildren", 0) ELSE <<>>
-----------------------------------------------------------------------------
(* Completions and events, in the library's thread                         *)

Comes(kind) ==
    /\ inbox["discovery"] # <<>>
    /\ Head(inbox["discovery"]).kind = kind

Come == Head(inbox["discovery"])

Responds(step) ==
    /\ dis' = step.next
    /\ requests' = [requests EXCEPT !["discovery"] = @ \o step.send]
    /\ inbox' = [inbox EXCEPT !["discovery"] = Tail(@)]
    /\ UNCHANGED <<nodes, owner, session, link, watches, missed, budget, log>>

\* PublishService gives the sink the endpoints es, as they were at moment i.
PublishService(es, i) == view' = es /\ viewAt' = i

\* A service found below the root is watched from then on.
RootChildrenCompletion ==
    /\ Comes("rootChildren")
    /\ Responds(IF dis.started /\ Come.result = "ok" /\ ~dis.watched
                THEN RefreshService([dis EXCEPT !.watched = TRUE]) ELSE Quiet(dis))
    /\ UNCHANGED <<refresh, view, viewAt, revival, deaf>>

\* No providers node: the service has no endpoints.  A failure ends the refresh.
ExistsCompletion ==
    /\ Comes("exists")
    /\ IF Come.gen # dis.gen THEN Responds(Quiet(dis)) /\ UNCHANGED <<view, viewAt>>
       ELSE IF Come.result = "none" THEN Responds(FinishRefresh(dis)) /\ PublishService({}, Come.at)
       ELSE IF Come.result = "ok"
       THEN Responds([next |-> dis, send |-> Ask("children", dis.gen)]) /\ UNCHANGED <<view, viewAt>>
       ELSE Responds(FinishRefresh(dis)) /\ UNCHANGED <<view, viewAt>>
    /\ UNCHANGED <<refresh, revival, deaf>>

Gets(as, g) == LET order == SetToSeq(as)
               IN  [i \in DOMAIN order |-> [kind |-> "get", gen |-> g, address |-> order[i]]]

ChildrenCompletion ==
    /\ Comes("children")
    /\ IF Come.gen # dis.gen THEN Responds(Quiet(dis)) /\ UNCHANGED <<refresh, view, viewAt>>
       ELSE IF Come.result # "ok" THEN Responds(FinishRefresh(dis)) /\ UNCHANGED <<refresh, view, viewAt>>
       ELSE IF Come.endpoints = {}
       THEN Responds(FinishRefresh(dis)) /\ PublishService({}, Come.at) /\ UNCHANGED refresh
       ELSE /\ Responds([next |-> dis, send |-> Gets(Come.endpoints, dis.gen)])
            /\ refresh' = [left |-> Cardinality(Come.endpoints), found |-> {}, failed |-> FALSE, at |-> Come.at]
            /\ UNCHANGED <<view, viewAt>>
    /\ UNCHANGED <<revival, deaf>>

\* Fault: an endpoint that could not be read is left out.
ReadsOn(r) ==
    [r EXCEPT !.left = @ - 1, !.found = IF Come.result = "ok" THEN @ \cup {Come.address} ELSE @]

ReadEndpointInto(r) ==
    IF Come.result = "ok" THEN [r EXCEPT !.left = @ - 1, !.found = @ \cup {Come.address}]
    ELSE [r EXCEPT !.left = @ - 1, !.failed = TRUE]

\* The last endpoint read publishes them all, or has them read again if one failed.
EndpointRead ==
    /\ Comes("get")
    /\ LET r == ReadEndpointInto(refresh)
       IN  IF Come.gen # dis.gen THEN Responds(Quiet(dis)) /\ UNCHANGED <<refresh, view, viewAt>>
           ELSE IF r.left # 0 THEN Responds(Quiet(dis)) /\ refresh' = r /\ UNCHANGED <<view, viewAt>>
           ELSE /\ refresh' = NoRefresh
                /\ Responds(FinishRefresh([dis EXCEPT !.again = @ \/ r.failed]))
                /\ IF r.failed THEN UNCHANGED <<view, viewAt>> ELSE PublishService(r.found, r.at)
    /\ UNCHANGED <<revival, deaf>>

Listens == dis.started /\ dis.handle = session["discovery"]

\* After a session is up: look for services, and refresh the one that is watched.
LooksAgain(d) ==
    LET step == RefreshService(d) IN [next |-> step.next, send |-> DiscoverAllServices(d) \o step.send]

DiscoveryConnected ==
    /\ Comes("connected")
    /\ Responds(IF Listens THEN LooksAgain(dis) ELSE Quiet(dis))
    /\ UNCHANGED <<refresh, view, viewAt, revival, deaf>>

RootChanged ==
    /\ Comes("rootChanged")
    /\ Responds([next |-> dis, send |-> IF Listens THEN DiscoverAllServices(dis) ELSE <<>>])
    /\ UNCHANGED <<refresh, view, viewAt, revival, deaf>>

ServiceChanged ==
    /\ Comes("serviceChanged")
    /\ Responds(IF Listens THEN RefreshService(dis) ELSE Quiet(dis))
    /\ UNCHANGED <<refresh, view, viewAt, revival, deaf>>

Detach(d) == [d EXCEPT !.handle = 0, !.gen = @ + 1, !.pending = FALSE, !.again = FALSE]

\* ReconnectExpired up to its zookeeper_close, which has the outstanding completions called.
DiscoveryExpired ==
    /\ Comes("expired")
    /\ dis' = IF Listens THEN Detach(dis) ELSE dis
    /\ revival' = IF Listens THEN [at |-> "closed", gen |-> dis.gen + 1] ELSE revival
    /\ refresh' = IF Listens THEN NoRefresh ELSE refresh
    /\ deaf' = (deaf \/ ~Listens)
    /\ Drains("discovery")
    /\ UNCHANGED <<nodes, owner, session, link, watches, missed, budget, log, view, viewAt>>

DiscoveryReopens ==
    /\ revival.at = "closed" /\ inbox["discovery"] = <<>>
    /\ \/ dis.started /\ Open("discovery") /\ revival' = [revival EXCEPT !.at = "opened"]
       \/ ~dis.started /\ Close("discovery") /\ revival' = Resting
    /\ UNCHANGED <<dis, refresh, view, viewAt, deaf>>

\* The new session is kept, and all is read again, unless something changed meanwhile.
DiscoveryRetains ==
    /\ revival.at = "opened" /\ revival' = Resting
    /\ IF dis.started /\ dis.handle = 0 /\ dis.gen = revival.gen
       THEN LET step == LooksAgain([dis EXCEPT !.handle = session["discovery"]])
            IN  /\ dis' = step.next
                /\ requests' = [requests EXCEPT !["discovery"] = @ \o step.send]
                /\ UNCHANGED <<nodes, owner, session, link, inbox, watches, missed, budget, log>>
       ELSE Close("discovery") /\ UNCHANGED dis
    /\ UNCHANGED <<refresh, view, viewAt, deaf>>
-----------------------------------------------------------------------------
(* Calls of the client                                                     *)

\* The end of Start.
DiscoveryStarted ==
    /\ revival.at = "starting" /\ revival' = Resting
    /\ dis' = [dis EXCEPT !.handle = session["discovery"], !.gen = 1]
    /\ UNCHANGED zkVars /\ UNCHANGED <<refresh, view, viewAt, deaf>>

\* A call to the service, by a thread of the client.
WatchService ==
    /\ revival.at # "starting" /\ dis.started /\ ~dis.watched
    /\ LET step == RefreshService([dis EXCEPT !.watched = TRUE])
       IN  /\ dis' = step.next
           /\ requests' = [requests EXCEPT !["discovery"] = @ \o step.send]
    /\ UNCHANGED <<nodes, owner, session, link, inbox, watches, missed, budget, log>>
    /\ UNCHANGED <<refresh, view, viewAt, revival, deaf>>

StopDiscovery ==
    /\ revival.at # "starting" /\ dis.started /\ budget.stops > 0
    /\ dis' = [Detach(dis) EXCEPT !.started = FALSE]
    /\ refresh' = NoRefresh
    /\ IF dis.handle # 0 THEN Close("discovery") ELSE UNCHANGED zkVars
    /\ UNCHANGED <<view, viewAt, revival, deaf>>
-----------------------------------------------------------------------------
DiscoveryHandles ==
    \/ RootChildrenCompletion \/ ExistsCompletion \/ ChildrenCompletion \/ EndpointRead
    \/ DiscoveryConnected \/ RootChanged \/ ServiceChanged \/ DiscoveryExpired

DiscoveryRenews == DiscoveryReopens \/ DiscoveryRetains \/ DiscoveryStarted

(***************************************************************************)
(* What the sink gets is a list the service really had, whole, and never   *)
(* one older than the list before, although providers come and go between  *)
(* the reads of a refresh and sessions are replaced (ChildrenCompletion,   *)
(* EndpointCompletion, PublishService).                                    *)
(***************************************************************************)
ViewsAreSnapshots == [][viewAt' >= viewAt /\ (viewAt' > 0 => view' = log'[viewAt'])]_<<view, viewAt>>
=============================================================================
