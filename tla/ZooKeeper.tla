------------------------------ MODULE ZooKeeper ------------------------------
(***************************************************************************)
(* ZooKeeper as the registry of a server and the discovery of a client use *)
(* it (external to this repository).  Each of the two has a session with a *)
(* queue of requests, served in order, and a queue of completions and      *)
(* events, delivered in order by the client library's thread.  The tree is *)
(* that of one service: its node, the node "providers" below it, and the   *)
(* endpoints below that, which are ephemeral.  A watch fires once.         *)
(***************************************************************************)
EXTENDS Naturals, Sequences, SequencesExt, FiniteSets

CONSTANTS
    Own,          \* the address the registry publishes
    Others,       \* addresses of other servers
    Budgets       \* bounds of a behaviour: the clients there are; those whose sessions fail (frail),
                  \* how often (faults); what other servers do (changes); calls of Publish; stops

ASSUME OwnAssumption == Own \notin Others

Clients == {"registry", "discovery"}

VARIABLES
    nodes,                \* the persistent nodes there are: "root", "service", "providers"
    owner,                \* the endpoints: address -> session that owns it
    session,              \* the session each client has, or had last
    link,                 \* "up", "down", or "expired"
    requests, inbox,      \* the queues of each client
    watches, missed,      \* the discovery's watches; those that fired while it was cut off
    budget,               \* what is left of the bounds
    log                   \* history: the sets of endpoints there were, in order

zkVars == <<nodes, owner, session, link, requests, inbox, watches, missed, budget, log>>

Endpoints == DOMAIN owner

\* A server that crashed and was started again may find the endpoint of the process before it.
ZkInit ==
    /\ \/ nodes = {} /\ owner = [a \in {} |-> 0]
       \/ nodes = {"root", "service", "providers"} /\ owner = [a \in {Own} |-> 0]
    /\ session = [c \in Clients |-> 1]
    /\ budget \in Budgets
    /\ link = [c \in Clients |-> IF c \in budget.clients THEN "down" ELSE "closed"]
    /\ requests = [c \in Clients |-> <<>>] /\ inbox = [c \in Clients |-> <<>>]
    /\ watches = {} /\ missed = {} /\ log = <<DOMAIN owner>>

Message(kind) == [kind |-> kind, gen |-> 0]
Failure(r) == [kind |-> r.kind, gen |-> r.gen, result |-> "error"]
Failures(c) == LET async == SelectSeq(requests[c], LAMBDA r : r.kind # "delete")
               IN  [i \in DOMAIN async |-> Failure(async[i])]
Answer(r, result) == [kind |-> r.kind, gen |-> r.gen, result |-> result]

\* What the client is told of a watch: the root's children changed, or the service's.
Event(w) == Message(IF w = <<"root">> THEN "rootChanged" ELSE "serviceChanged")
EventsOf(ws) == LET order == SetToSeq(ws) IN [i \in DOMAIN order |-> Event(order[i])]

\* The watches ws fire: the discovery is told, after what `base` makes of the inboxes.
Fires(ws, base) ==
    LET fired == ws \cap watches
        told == link["discovery"] = "up"
    IN  /\ watches' = watches \ ws
        /\ missed' = IF told THEN missed ELSE missed \cup fired
        /\ inbox' = [base EXCEPT !["discovery"] = @ \o (IF told THEN EventsOf(fired) ELSE <<>>)]

Told(c, ms) == [inbox EXCEPT ![c] = @ \o ms]

WatchesOf(removed) == IF removed = {} THEN {} ELSE {<<"children">>} \cup { <<"data", a>> : a \in removed }
-----------------------------------------------------------------------------
(* Serving the first request of a client                                   *)

Asked(c, kind) == link[c] = "up" /\ requests[c] # <<>> /\ Head(requests[c]).kind = kind
Served(c) == requests' = [requests EXCEPT ![c] = Tail(@)]

FirstOf(c) == Head(requests[c])
Replies(ws, result) == Fires(ws, Told("registry", <<Answer(FirstOf("registry"), result)>>))

\* The persistent nodes: there is no failure when one exists.
CreateNode ==
    \E n \in {"root", "service", "providers"} :
       /\ Asked("registry", n) /\ Served("registry")
       /\ nodes' = nodes \cup {n}
       /\ Replies(IF n \in nodes \/ n = "root" THEN {}
                  ELSE IF n = "service" THEN {<<"root">>} ELSE {<<"exists">>}, "ok")
       /\ UNCHANGED <<owner, session, link, budget, log>>

\* The endpoints become those of o.
Become(o) ==
    /\ owner' = o
    /\ log' = IF DOMAIN o = Endpoints THEN log ELSE Append(log, DOMAIN o)

With(a, s) == [b \in Endpoints \cup {a} |-> IF b = a THEN s ELSE owner[b]]
Without(as) == [b \in Endpoints \ as |-> owner[b]]

CreateEndpoint ==
    /\ Asked("registry", "endpoint") /\ Served("registry")
    /\ \/ /\ Own \notin Endpoints
          /\ Become(With(Own, session["registry"]))
          /\ Replies({<<"children">>}, "ok")
       \/ /\ Own \in Endpoints
          /\ Replies({}, "exists")
          /\ UNCHANGED <<owner, log>>
    /\ UNCHANGED <<nodes, session, link, budget>>

OwnsEndpoint(c) == Own \in Endpoints /\ owner[Own] = session[c]

StatEndpoint ==
    /\ Asked("registry", "stat") /\ Served("registry")
    /\ Replies({}, IF OwnsEndpoint("registry") THEN "own" ELSE "other")
    /\ UNCHANGED <<nodes, owner, session, link, budget, log>>

SetEndpoint ==
    /\ Asked("registry", "set") /\ Served("registry")
    /\ Replies({<<"data", Own>>}, IF Own \in Endpoints THEN "ok" ELSE "error")
    /\ UNCHANGED <<nodes, owner, session, link, budget, log>>

\* The caller of a delete waits for it; there is no completion.
DeleteEndpoint ==
    /\ Asked("registry", "delete") /\ Served("registry")
    /\ Become(Without({Own}))
    /\ Fires(WatchesOf({Own} \cap Endpoints), inbox)
    /\ UNCHANGED <<nodes, session, link, budget>>

\* The discovery's reads leave a watch on what they read, the first and last only if it is there.
Reads(kind, answer, left) ==
    /\ Asked("discovery", kind) /\ Served("discovery")
    /\ inbox' = [inbox EXCEPT !["discovery"] = Append(@, answer)]
    /\ watches' = watches \cup left
    /\ UNCHANGED <<nodes, owner, session, link, missed, budget, log>>

ReadRoot ==
    Reads("rootChildren", Answer(FirstOf("discovery"), IF "service" \in nodes THEN "ok" ELSE "none"),
          IF "root" \in nodes THEN {<<"root">>} ELSE {})

Snapshot(r, result) == [kind |-> r.kind, gen |-> r.gen, result |-> result, endpoints |-> Endpoints, at |-> Len(log)]

ReadExists ==
    Reads("exists", Snapshot(FirstOf("discovery"), IF "providers" \in nodes THEN "ok" ELSE "none"), {<<"exists">>})

ReadChildren ==
    Reads("children", Snapshot(FirstOf("discovery"), "ok"), {<<"children">>})

ReadEndpoint ==
    /\ Asked("discovery", "get")
    /\ LET a == FirstOf("discovery").address
       IN  Reads("get", [kind |-> "get", gen |-> FirstOf("discovery").gen, address |-> a,
                         result |-> IF a \in Endpoints THEN "ok" ELSE "error"],
                 IF a \in Endpoints THEN {<<"data", a>>} ELSE {})

Serve ==
    \/ CreateNode \/ CreateEndpoint \/ StatEndpoint \/ SetEndpoint \/ DeleteEndpoint
    \/ ReadRoot \/ ReadExists \/ ReadChildren \/ ReadEndpoint
-----------------------------------------------------------------------------
(* Links, sessions, and the other servers                                  *)

MayFail(c) == c \in budget.frail /\ budget.faults > 0

\* The requests that are under way fail.
LoseLink(c) ==
    /\ link[c] = "up" /\ MayFail(c)
    /\ budget' = [budget EXCEPT !.faults = @ - 1]
    /\ link' = [link EXCEPT ![c] = "down"]
    /\ inbox' = [inbox EXCEPT ![c] = @ \o Failures(c)]
    /\ requests' = [requests EXCEPT ![c] = <<>>]
    /\ UNCHANGED <<nodes, owner, session, watches, missed, log>>

\* The same, but the server had created the endpoint: only the reply is lost.
LoseReply ==
    /\ Asked("registry", "endpoint") /\ Own \notin Endpoints /\ MayFail("registry")
    /\ budget' = [budget EXCEPT !.faults = @ - 1]
    /\ link' = [link EXCEPT !["registry"] = "down"]
    /\ Become(With(Own, session["registry"]))
    /\ Fires({<<"children">>}, Told("registry", Failures("registry")))
    /\ requests' = [requests EXCEPT !["registry"] = <<>>]
    /\ UNCHANGED <<nodes, session>>

\* The session is established, or again: the library says so, and tells what it missed.
LinkUp(c) ==
    /\ link[c] = "down"
    /\ link' = [link EXCEPT ![c] = "up"]
    /\ inbox' = [inbox EXCEPT ![c] = Append(@, Message("connected"))
                                     \o (IF c = "discovery" THEN EventsOf(missed) ELSE <<>>)]
    /\ missed' = IF c = "discovery" THEN {} ELSE missed
    /\ UNCHANGED <<nodes, owner, session, requests, watches, budget, log>>

\* The session of c ends: the endpoint it owns goes, or its watches do.
Ends(c, state, base) ==
    /\ link' = [link EXCEPT ![c] = state]
    /\ requests' = [requests EXCEPT ![c] = <<>>]
    /\ IF c = "discovery"
       THEN watches' = {} /\ missed' = {} /\ inbox' = base /\ UNCHANGED <<owner, log>>
       ELSE LET gone == IF OwnsEndpoint(c) THEN {Own} ELSE {}
            IN  Become(Without(gone)) /\ Fires(WatchesOf(gone), base)

Expire(c) ==
    /\ link[c] \in {"up", "down"} /\ MayFail(c)
    /\ budget' = [budget EXCEPT !.faults = @ - 1]
    /\ Ends(c, "expired", Told(c, Append(Failures(c), Message("expired"))))
    /\ UNCHANGED <<nodes, session>>

\* zookeeper_close in the thread that takes its last event: what is outstanding fails.
Drains(c) ==
    /\ inbox' = [inbox EXCEPT ![c] = Tail(@) \o Failures(c)]
    /\ requests' = [requests EXCEPT ![c] = <<>>]

\* zookeeper_close by another: completions of what is under way find the generation changed, and are dropped.
Close(c) ==
    /\ Ends(c, "closed", [inbox EXCEPT ![c] = <<>>])
    /\ UNCHANGED <<nodes, session, budget>>

\* zookeeper_init, after the session before was closed.
Open(c) ==
    /\ session' = [session EXCEPT ![c] = @ + 1]
    /\ link' = [link EXCEPT ![c] = "down"]
    /\ inbox' = [inbox EXCEPT ![c] = <<>>]
    /\ requests' = [requests EXCEPT ![c] = <<>>]
    /\ UNCHANGED <<nodes, owner, watches, missed, budget, log>>

\* The session of the process before this one expires.
PredecessorExpires ==
    /\ Own \in Endpoints /\ owner[Own] = 0
    /\ Become(Without({Own})) /\ Fires(WatchesOf({Own}), inbox)
    /\ UNCHANGED <<nodes, session, link, requests, budget>>

\* Other servers: they create the nodes that lack, one after the other, publish, and leave.
OthersPrepare ==
    /\ budget.changes > 0
    /\ \/ "root" \notin nodes /\ nodes' = {"root"} /\ Fires({}, inbox)
       \/ nodes = {"root"} /\ nodes' = nodes \cup {"service"} /\ Fires({<<"root">>}, inbox)
       \/ nodes = {"root", "service"} /\ nodes' = nodes \cup {"providers"} /\ Fires({<<"exists">>}, inbox)
    /\ UNCHANGED <<owner, session, link, requests, budget, log>>

OthersChange ==
    /\ budget.changes > 0 /\ "providers" \in nodes
    /\ budget' = [budget EXCEPT !.changes = @ - 1]
    /\ \E a \in Others :
          \/ a \notin Endpoints /\ Become(With(a, 0)) /\ Fires({<<"children">>}, inbox)
          \/ a \in Endpoints /\ Become(Without({a})) /\ Fires(WatchesOf({a}), inbox)
    /\ UNCHANGED <<nodes, session, link, requests>>
=============================================================================
