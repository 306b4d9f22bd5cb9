------------------------- MODULE ServiceDispatcher -------------------------
(***************************************************************************)
(* The copy-on-write method table: updates publish a new table and then    *)
(* raise the generation, under a mutex; Lookup compares the generation     *)
(* with that of its thread's cache and takes the current table if they     *)
(* differ.  Each step is one atomic access.  A dispatcher outlives the     *)
(* lookups in it.                                                          *)
(***************************************************************************)
EXTENDS Naturals, Sequences

CONSTANTS
    Threads,    \* threads that update and look up
    Keys,       \* service and method names
    Handlers,   \* what is registered for one
    Missing     \* no handler, no name

VARIABLES
    tables,      \* every table published, the last is methods_
    generation,  \* generation_
    owner,       \* who has update_mutex_, if anybody
    pc,          \* where each thread is
    key,         \* the name it looks up
    started,     \* ghost: the generation when its Lookup was called
    loaded,      \* generation in Lookup
    cache,       \* the thread's Cache; its snapshot as a position in tables, 0 for none
    answer       \* what its last Lookup returned

dispatcherVars == <<tables, generation, owner, pc, key, started, loaded, cache, answer>>

Table == [Keys -> Handlers \cup {Missing}]
methods == tables[Len(tables)]
Cache == [generation : Nat, key : Keys \cup {Missing}, snapshot : Nat]

DispatcherInit ==
    /\ tables = <<[k \in Keys |-> Missing]>> /\ generation = 1
    /\ owner = {}
    /\ pc = [t \in Threads |-> "idle"]
    /\ key \in [Threads -> Keys]
    /\ started = [t \in Threads |-> 0] /\ loaded = [t \in Threads |-> 0]
    /\ cache = [t \in Threads |-> [generation |-> 0, key |-> Missing, snapshot |-> 0]]
    /\ answer = [t \in Threads |-> Missing]

Goes(t, from, to) == pc[t] = from /\ pc' = [pc EXCEPT ![t] = to]
-----------------------------------------------------------------------------
Lock(t) ==
    /\ Goes(t, "idle", "locked")
    /\ owner = {} /\ owner' = {t}
    /\ UNCHANGED <<tables, generation, key, started, loaded, cache, answer>>

\* Register and RegisterInline add a name that is not there, Unregister takes one away.
Store(t) ==
    /\ Goes(t, "locked", "stored")
    /\ \E k \in Keys :
          \/ \E h \in Handlers : methods[k] = Missing /\ tables' = Append(tables, [methods EXCEPT ![k] = h])
          \/ methods[k] # Missing /\ tables' = Append(tables, [methods EXCEPT ![k] = Missing])
    /\ UNCHANGED <<generation, owner, key, started, loaded, cache, answer>>

\* The name was there, or was not: nothing is published.
GiveUp(t) ==
    /\ Goes(t, "locked", "idle")
    /\ owner' = {}
    /\ UNCHANGED <<tables, generation, key, started, loaded, cache, answer>>

Bump(t) ==
    /\ Goes(t, "stored", "idle")
    /\ generation' = generation + 1
    /\ owner' = {}
    /\ UNCHANGED <<tables, key, started, loaded, cache, answer>>
-----------------------------------------------------------------------------
\* Lookup is called, by ExecutionMode, Dispatch or DispatchInline.
StartLookup(t) ==
    /\ Goes(t, "idle", "load")
    /\ \E k \in Keys : key' = [key EXCEPT ![t] = k]
    /\ started' = [started EXCEPT ![t] = generation]
    /\ UNCHANGED <<tables, generation, owner, loaded, cache, answer>>

Hit(t) == cache[t].generation = generation /\ cache[t].key = key[t]

\* The generation is read, and the cache answers if it has the name.
LoadGeneration(t) ==
    /\ loaded' = [loaded EXCEPT ![t] = generation]
    /\ IF Hit(t)
       THEN /\ Goes(t, "load", "found")
            /\ answer' = [answer EXCEPT ![t] = tables[cache[t].snapshot][key[t]]]
       ELSE Goes(t, "load", "miss") /\ UNCHANGED answer
    /\ UNCHANGED <<tables, generation, owner, key, started, cache>>

\* The table is read after the generation; the cache is filled with both.
LoadTable(t) ==
    /\ Goes(t, "miss", "found")
    /\ cache' = [cache EXCEPT ![t] = [generation |-> loaded[t], key |-> key[t], snapshot |-> Len(tables)]]
    /\ answer' = [answer EXCEPT ![t] = methods[key[t]]]
    /\ UNCHANGED <<tables, generation, owner, key, started, loaded>>

EndLookup(t) ==
    /\ Goes(t, "found", "idle")
    /\ UNCHANGED <<tables, generation, owner, key, started, loaded, cache, answer>>

DispatcherNext == \E t \in Threads :
    \/ Lock(t) \/ Store(t) \/ GiveUp(t) \/ Bump(t)
    \/ StartLookup(t) \/ LoadGeneration(t) \/ LoadTable(t) \/ EndLookup(t)

DispatcherSpec == DispatcherInit /\ [][DispatcherNext]_dispatcherVars
-----------------------------------------------------------------------------
\* Lookup is never behind: its answer is what the name had in a table that was
\* current when it was called or was published after that, though it may come from
\* the cache.  A method registered or taken away before the call is seen.
AnswersAreCurrent ==
    \A t \in Threads : pc[t] = "found" =>
        \E n \in started[t]..Len(tables) : answer[t] = tables[n][key[t]]
=============================================================================
