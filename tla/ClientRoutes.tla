---------------------------- MODULE ClientRoutes ----------------------------
(***************************************************************************)
(* How a call of the client finds its connection: the services that        *)
(* discovery publishes, and on one client shard the table of connections   *)
(* and the one cached route.  The calls are coroutines of the shard's      *)
(* thread; only Connect suspends them.  The publisher is discovery's       *)
(* thread; it retires addresses by a closure posted to the shard.          *)
(*                                                                         *)
(* A method and its schema are part of the service here.  The breaker of   *)
(* an endpoint always permits: nothing in the client calls Record, so its  *)
(* control word stays CLOSED.                                              *)
(***************************************************************************)
EXTENDS Naturals, Sequences, FiniteSets

CONSTANTS
    Callers,         \* coroutines of the shard that issue calls
    Services,        \* service names
    Addresses,       \* endpoint keys
    Conns,           \* numbers of connection objects, as many as can exist at once
    NoConn,          \* nullptr
    MaxGeneration    \* bound on PublishService

ASSUME ConnAssumption == NoConn \notin Conns

VARIABLES
    services,     \* services_: the endpoints of each service, absent if unknown
    servicesGeneration,  \* services_generation_
    publisher,    \* where PublishService is, and what it retires
    inbox,        \* retiring closures posted to the shard
    table,        \* connections: address -> connection
    conn,         \* the connection objects
    cached,       \* cached_route
    call,         \* the calls in GetConnectionForCall
    running,      \* the call that has the shard's thread, or "none"
    ever          \* history: the addresses a service has ever had

vars == <<services, servicesGeneration, publisher, inbox, table, conn, cached, call, running, ever>>

\* Where there is no connection object, or one was destroyed.
Nothing == [state |-> "none"]

Known == DOMAIN services
Listed(a) == \E s \in Known : a \in services[s]

Init ==
    /\ services = <<>> /\ servicesGeneration = 1
    /\ publisher = [at |-> "idle", retired |-> {}]
    /\ inbox = <<>>
    /\ table = [a \in Addresses |-> NoConn]
    /\ conn = [c \in Conns |-> Nothing]
    /\ cached = [generation |-> 0, service |-> "", address |-> "", conn |-> NoConn]
    /\ call = [k \in Callers |-> [at |-> "idle"]]
    /\ running = "none"
    /\ ever = [s \in Services |-> {}]
-----------------------------------------------------------------------------
(* PublishService, on discovery's thread                                   *)

PublishStores(s, endpoints) ==
    /\ publisher.at = "idle" /\ servicesGeneration < MaxGeneration
    /\ publisher' = [at |-> "stored",
                     retired |-> IF s \in Known THEN services[s] \ endpoints ELSE {}]
    /\ services' = [t \in Known \cup {s} |-> IF t = s THEN endpoints ELSE services[t]]
    /\ ever' = [ever EXCEPT ![s] = @ \cup endpoints]
    /\ UNCHANGED <<servicesGeneration, inbox, table, conn, cached, call, running>>

\* Fault: the generation does not move when a known service changes.
PublishForgetsGeneration ==
    /\ publisher.at = "stored"
    /\ servicesGeneration' = IF publisher.retired = {} THEN servicesGeneration + 1 ELSE servicesGeneration
    /\ publisher' = [publisher EXCEPT !.at = "bumped"]
    /\ UNCHANGED <<services, inbox, table, conn, cached, call, running, ever>>

PublishBumps ==
    /\ publisher.at = "stored"
    /\ servicesGeneration' = servicesGeneration + 1
    /\ publisher' = [publisher EXCEPT !.at = "bumped"]
    /\ UNCHANGED <<services, inbox, table, conn, cached, call, running, ever>>

\* Fault: any other service that is known keeps an address.
RetiredWithLastService == { a \in publisher.retired : Cardinality(Known) = 1 }

\* An address another service still lists is not retired.
GloballyRetired == { a \in publisher.retired : ~Listed(a) }

\* RetireAddresses posts the closure.
PublishRetires ==
    /\ publisher.at = "bumped"
    /\ inbox' = IF GloballyRetired = {} THEN inbox ELSE Append(inbox, GloballyRetired)
    /\ publisher' = [at |-> "idle", retired |-> {}]
    /\ UNCHANGED <<services, servicesGeneration, table, conn, cached, call, running, ever>>

\* Fault: the connection is dropped without BeginDrain.
DroppedOnly(c) == conn[c]

BeginDrain(c) == [conn[c] EXCEPT !.state = "DRAINING"]

\* The closure, on the shard; BeginDrain closes a connection at once that has no calls.
RetireClosure ==
    /\ running = "none" /\ inbox # <<>>
    /\ conn' = [c \in Conns |-> IF \A a \in Head(inbox) : table[a] # c THEN conn[c]
                                ELSE IF conn[c].state = "READY" THEN BeginDrain(c) ELSE Nothing]
    /\ table' = [a \in Addresses |-> IF a \in Head(inbox) THEN NoConn ELSE table[a]]
    /\ inbox' = Tail(inbox)
    /\ UNCHANGED <<services, servicesGeneration, publisher, cached, call, running, ever>>
-----------------------------------------------------------------------------
(* Connections                                                             *)

\* The table, the connection's own coroutines and, until Connect returns, the call
\* that creates it keep an object alive.  The memory of a destroyed one is not used
\* again while the cached route names it.
Fresh(c) == conn[c] = Nothing /\ cached.conn # c

InTable(c) == \E a \in Addresses : table[a] = c

\* The peer closes it, or it fails, or its drain ends.
ConnectionCloses(c) ==
    /\ running = "none" /\ conn[c].state \in {"READY", "DRAINING"}
    /\ conn' = [conn EXCEPT ![c] = IF InTable(c) THEN [@ EXCEPT !.state = "CLOSED"] ELSE Nothing]
    /\ UNCHANGED <<services, servicesGeneration, publisher, inbox, table, cached, call, running, ever>>
-----------------------------------------------------------------------------
(* GetConnectionForCall and GetOrCreateConnection, on the shard            *)

\* What the state of connection c reads as; a destroyed object may read as anything.
ReadsReady(c) == CASE c = NoConn -> {FALSE}
                   [] c # NoConn /\ conn[c] = Nothing -> BOOLEAN
                   [] OTHER -> {conn[c].state = "READY"}

Returns(k, s, c) ==
    /\ call' = [call EXCEPT ![k] = [at |-> "returned", service |-> s, conn |-> c]]
    /\ running' = k

Usable(a) == table[a] # NoConn /\ conn[table[a]].state = "READY"

\* The call creates a connection to a and suspends in Connect.
Creates(k, s, g, a, fast, left) ==
    \E c \in Conns :
        /\ Fresh(c) /\ \A d \in Conns : Fresh(d) => c <= d
        /\ table' = [table EXCEPT ![a] = NoConn]
        /\ conn' = [d \in Conns |-> IF d = c THEN [state |-> "CONNECTING"]
                                    ELSE IF d = table[a] THEN Nothing ELSE conn[d]]
        /\ call' = [call EXCEPT ![k] = [at |-> "connecting", service |-> s, generation |-> g,
                                        address |-> a, fast |-> fast, left |-> left, conn |-> c]]
        /\ running' = "none"

Route(k, a, c) == [generation |-> call[k].generation, service |-> call[k].service, address |-> a, conn |-> c]

\* One endpoint of the slow path: a READY connection of the table, or a new one.
Tries(k, a, left) ==
    \/ /\ Usable(a)
       /\ cached' = Route(k, a, table[a])
       /\ Returns(k, call[k].service, table[a])
       /\ UNCHANGED <<table, conn>>
    \/ /\ ~Usable(a)
       /\ Creates(k, call[k].service, call[k].generation, a, FALSE, left)
       /\ UNCHANGED cached

CacheHit(s) == cached.generation = servicesGeneration /\ cached.service = s

\* The generation is read, and with it the cached route is tried.  The bound on the
\* objects delays a call until there is one for each call in progress.
Look(k, s) ==
    /\ running = "none" /\ call[k].at = "idle"
    /\ Cardinality({c \in Conns : Fresh(c)}) > Cardinality({j \in Callers : call[j].at # "idle"})
    /\ \/ /\ CacheHit(s)
          /\ \E ready \in ReadsReady(cached.conn) :
                \/ ready
                   /\ Returns(k, s, cached.conn) /\ UNCHANGED <<table, conn, cached>>
                \/ ~ready /\ Usable(cached.address)
                   /\ cached' = [cached EXCEPT !.conn = table[cached.address]]
                   /\ Returns(k, s, table[cached.address]) /\ UNCHANGED <<table, conn>>
                \/ ~ready /\ ~Usable(cached.address)
                   /\ Creates(k, s, servicesGeneration, cached.address, TRUE, {}) /\ UNCHANGED cached
       \/ /\ ~CacheHit(s)
          /\ call' = [call EXCEPT ![k] = [at |-> "pick", service |-> s, generation |-> servicesGeneration]]
          /\ running' = k
          /\ UNCHANGED <<table, conn, cached>>
    /\ UNCHANGED <<services, servicesGeneration, publisher, inbox, ever>>

\* The endpoints are read, and tried in the order of the map.
Pick(k) ==
    /\ call[k].at = "pick"
    /\ LET s == call[k].service
       IN \/ /\ s \in Known => services[s] = {}
             /\ Returns(k, s, NoConn) /\ UNCHANGED <<table, conn, cached>>
          \/ s \in Known /\ \E a \in services[s] : Tries(k, a, services[s] \ {a})
    /\ UNCHANGED <<services, servicesGeneration, publisher, inbox, ever>>

\* Connect succeeds: emplace keeps an entry that is there already.  The key of the
\* cached path is a view of cached_route.endpoint_key, read only now.
Connected(k) ==
    /\ running = "none" /\ call[k].at = "connecting"
    /\ LET c == call[k].conn
           key == IF call[k].fast THEN cached.address ELSE call[k].address
       IN /\ conn' = [conn EXCEPT ![c] = [state |-> "READY", address |-> call[k].address,
                                          late |-> ~Listed(key),
                                          rivalled |-> table[key] # NoConn \/ key # call[k].address]]
          /\ table' = [table EXCEPT ![key] = IF @ = NoConn THEN c ELSE @]
          /\ cached' = IF call[k].fast THEN [cached EXCEPT !.conn = c] ELSE Route(k, call[k].address, c)
          /\ Returns(k, call[k].service, c)
    /\ UNCHANGED <<services, servicesGeneration, publisher, inbox, ever>>

\* Connect fails or times out: the cached path gives up, the slow path goes on.
ConnectFails(k) ==
    /\ running = "none" /\ call[k].at = "connecting"
    /\ conn' = [conn EXCEPT ![call[k].conn] = Nothing]
    /\ cached' = IF call[k].fast THEN [cached EXCEPT !.conn = NoConn] ELSE cached
    /\ IF call[k].left = {}
       THEN Returns(k, call[k].service, NoConn)
       ELSE /\ call' = [call EXCEPT ![k] = [at |-> "next", service |-> call[k].service,
                                            generation |-> call[k].generation, left |-> call[k].left]]
            /\ running' = k
    /\ UNCHANGED <<services, servicesGeneration, publisher, inbox, table, ever>>

TryNext(k) ==
    /\ call[k].at = "next"
    /\ \E a \in call[k].left : Tries(k, a, call[k].left \ {a})
    /\ UNCHANGED <<services, servicesGeneration, publisher, inbox, ever>>

\* The caller uses what it was given, and issues another call later.
EndCall(k) ==
    /\ call[k].at = "returned"
    /\ call' = [call EXCEPT ![k] = [at |-> "idle"]]
    /\ running' = "none"
    /\ UNCHANGED <<services, servicesGeneration, publisher, inbox, table, conn, cached, ever>>

GetConnectionForCall(k) ==
    Pick(k) \/ TryNext(k) \/ Connected(k) \/ ConnectFails(k) \/ EndCall(k)

Next ==
    \/ \E s \in Services, e \in SUBSET Addresses : PublishStores(s, e)
    \/ PublishBumps \/ PublishRetires
    \/ RetireClosure
    \/ \E c \in Conns : ConnectionCloses(c)
    \/ \E k \in Callers : (\E s \in Services : Look(k, s)) \/ GetConnectionForCall(k)

Spec == Init /\ [][Next]_vars
-----------------------------------------------------------------------------
\* A call is given a connection the shard owns, that is in its table under the
\* address it leads to, and that address was published for the service of the call
\* (rpc_client.cpp 202-225, 905-1056).
HandsOutOwned ==
    \A k \in Callers :
        call[k].at = "returned" /\ call[k].conn # NoConn =>
            LET c == call[k].conn
            IN  /\ conn[c] # Nothing /\ table[conn[c].address] = c
                /\ conn[c].address \in ever[call[k].service]

\* A cached route that the present generation vouches for leads to an endpoint the
\* service has now, unless its change is just being published: the generation is
\* read before the endpoints and moved after them (rpc_client.cpp 639-656, 927).
RouteIsCurrent ==
    publisher.at # "stored" /\ cached.generation = servicesGeneration =>
        /\ cached.service \in Known
        /\ cached.address \in services[cached.service]

\* A connection in use is the shard's, in its table under the address it leads to,
\* until it closes or drains: only a Connect that another call's Connect overtook
\* leaves one outside (rpc_client.cpp 202-225, 716-725).
OwnedUnlessRivalled ==
    \A c \in Conns : conn[c].state = "READY" /\ ~conn[c].rivalled => table[conn[c].address] = c

\* When all that was posted has run, the shard keeps no connection to an address no
\* service lists, but for one whose Connect the retirement overtook
\* (rpc_client.cpp 658-727).
RetiredAddressesLeave ==
    publisher.at = "idle" /\ inbox = <<>> =>
        \A a \in Addresses : table[a] # NoConn /\ ~Listed(a) => conn[table[a]].late
=============================================================================
