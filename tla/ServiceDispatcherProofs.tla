----------------------- MODULE ServiceDispatcherProofs -----------------------
(***************************************************************************)
(* Lookup is never behind, with any threads, names and handlers.  The      *)
(* number of tables published is the generation, or one more while an      *)
(* update is between its store and its increment; so a table read after    *)
(* the generation is at least that new, and stays so in the cache.         *)
(***************************************************************************)
EXTENDS ServiceDispatcher, TLAPS

Places == {"idle", "locked", "stored", "load", "miss", "found"}

Typed ==
    /\ tables \in Seq(Table) /\ generation \in Nat \ {0}
    /\ pc \in [Threads -> Places] /\ key \in [Threads -> Keys]
    /\ started \in [Threads -> Nat] /\ loaded \in [Threads -> Nat]
    /\ cache \in [Threads -> Cache] /\ answer \in [Threads -> Handlers \cup {Missing}]

Locked == \A t \in Threads : pc[t] \in {"locked", "stored"} => owner = {t}

Counted ==
    /\ (\E t \in Threads : pc[t] = "stored") => Len(tables) = generation + 1
    /\ (\A t \in Threads : pc[t] # "stored") => Len(tables) = generation

Ordered == \A t \in Threads :
    /\ pc[t] \in {"load", "miss", "found"} => started[t] \in 1..generation
    /\ pc[t] = "miss" => loaded[t] <= generation

Cached == \A t \in Threads :
    cache[t].generation <= cache[t].snapshot /\ cache[t].snapshot <= Len(tables)

DispatcherInv == Typed /\ Locked /\ Counted /\ Ordered /\ Cached /\ AnswersAreCurrent
-----------------------------------------------------------------------------
\* The empty dispatcher.
LEMMA InitDispatcherInv == DispatcherInit => DispatcherInv
  <1> SUFFICES ASSUME DispatcherInit PROVE DispatcherInv
    OBVIOUS
  <1>1. tables \in Seq(Table) /\ Len(tables) = 1
    <2>1. [k \in Keys |-> Missing] \in Table
      BY DEF Table
    <2> QED
      BY <2>1 DEF DispatcherInit
  <1>2. Typed
    <2>1. cache \in [Threads -> Cache]
      BY DEF DispatcherInit, Cache
    <2>2. pc \in [Threads -> Places] /\ answer \in [Threads -> Handlers \cup {Missing}]
      BY DEF DispatcherInit, Places
    <2> QED
      BY <1>1, <2>1, <2>2 DEF DispatcherInit, Typed
  <1>3. Locked /\ Counted /\ Ordered /\ AnswersAreCurrent
    BY <1>1 DEF DispatcherInit, Locked, Counted, Ordered, AnswersAreCurrent
  <1>4. Cached
    <2>1. \A t \in Threads : cache[t].generation = 0 /\ cache[t].snapshot = 0
      BY DEF DispatcherInit
    <2>2. 0 <= 0 /\ 0 <= Len(tables)
      BY <1>1
    <2>3. \A t \in Threads : cache[t].generation <= cache[t].snapshot /\ cache[t].snapshot <= Len(tables)
      BY <2>1, <2>2, Zenon
    <2> QED
      BY <2>3 DEF Cached
  <1> QED
    BY <1>2, <1>3, <1>4 DEF DispatcherInv

\* The number of tables is the generation or one more, and only one thread updates.
LEMMA TablesCounted ==
  ASSUME DispatcherInv
  PROVE  /\ Len(tables) \in Nat /\ Len(tables) >= generation /\ Len(tables) >= 1
         /\ tables[Len(tables)] \in Table
         /\ \A t, u \in Threads : pc[t] \in {"locked", "stored"} /\ pc[u] \in {"locked", "stored"} => t = u
  <1>1. Len(tables) = generation \/ Len(tables) = generation + 1
    BY DEF DispatcherInv, Counted
  <1>2. Len(tables) \in Nat /\ Len(tables) >= generation /\ Len(tables) >= 1
    BY <1>1 DEF DispatcherInv, Typed
  <1>3. tables[Len(tables)] \in Table
    BY <1>2 DEF DispatcherInv, Typed
  <1>4. \A t, u \in Threads : pc[t] \in {"locked", "stored"} /\ pc[u] \in {"locked", "stored"} => t = u
    BY DEF DispatcherInv, Locked
  <1> QED
    BY <1>2, <1>3, <1>4

\* Steps of an update: the mutex, the store, the increment.
LEMMA UpdateKeeps ==
  ASSUME DispatcherInv, NEW t \in Threads, Lock(t) \/ Store(t) \/ GiveUp(t) \/ Bump(t)
  PROVE  DispatcherInv'
  <1> USE DEF DispatcherInv, Goes
  <1>1. CASE Lock(t)
    <2>1. Typed' /\ Locked'
      BY <1>1 DEF Lock, Typed, Locked, Places
    <2>2. Counted' /\ Ordered' /\ Cached'
      BY <1>1 DEF Lock, Typed, Counted, Ordered, Cached
    <2>3. AnswersAreCurrent'
      BY <1>1 DEF Lock, Typed, AnswersAreCurrent
    <2> QED
      BY <2>1, <2>2, <2>3
  <1>2. CASE Store(t)
    <2>1. PICK m \in Table : tables' = Append(tables, m)
      BY Zenon, <1>2, TablesCounted DEF Store, methods, Table
    <2>2. /\ tables' \in Seq(Table) /\ Len(tables') = Len(tables) + 1
          /\ \A n \in 1..Len(tables) : tables'[n] = tables[n]
      BY <2>1 DEF Typed
    <2>3. Typed' /\ Locked'
      BY <1>2, <2>2 DEF Store, Typed, Locked, Places
    <2>4. Counted'
      <3>1. \A u \in Threads : pc[u] # "stored"
        BY <1>2, TablesCounted DEF Store
      <3>2. Len(tables) = generation
        BY <3>1 DEF Counted
      <3>3. pc'[t] = "stored" /\ UNCHANGED generation
        BY <1>2 DEF Store, Typed
      <3> QED
        BY <2>2, <3>2, <3>3 DEF Counted
    <2>5. Ordered' /\ Cached'
      <3>1. UNCHANGED <<generation, started, loaded, cache>>
        BY <1>2 DEF Store
      <3>2. \A u \in Threads : cache[u].snapshot \in Nat /\ Len(tables) \in Nat
        BY TablesCounted DEF Typed, Cache
      <3>3. Ordered'
        BY <1>2, <3>1 DEF Store, Typed, Ordered
      <3> QED
        BY <2>2, <3>1, <3>2, <3>3 DEF Cached
    <2>6. AnswersAreCurrent'
      <3> SUFFICES ASSUME NEW u \in Threads, pc'[u] = "found"
                   PROVE  \E n \in started'[u]..Len(tables') : answer'[u] = tables'[n][key'[u]]
        BY DEF AnswersAreCurrent
      <3>1. pc[u] = "found" /\ UNCHANGED <<started, answer, key>>
        BY <1>2 DEF Store, Typed
      <3>2. PICK n \in started[u]..Len(tables) : answer[u] = tables[n][key[u]]
        BY <3>1 DEF AnswersAreCurrent
      <3>3. n \in 1..Len(tables) /\ n \in started[u]..Len(tables')
        BY <2>2, <3>1, <3>2, TablesCounted DEF Ordered, Typed
      <3> QED
        BY <2>2, <3>1, <3>2, <3>3
    <2> QED
      BY <2>3, <2>4, <2>5, <2>6
  <1>3. CASE GiveUp(t)
    <2>1. Typed'
      BY <1>3 DEF GiveUp, Typed, Places
    <2>2. Locked'
      BY <1>3, TablesCounted DEF GiveUp, Typed, Locked
    <2>3. Counted' /\ Ordered' /\ Cached'
      BY <1>3 DEF GiveUp, Typed, Counted, Ordered, Cached
    <2>4. AnswersAreCurrent'
      BY <1>3 DEF GiveUp, Typed, AnswersAreCurrent
    <2> QED
      BY <2>1, <2>2, <2>3, <2>4
  <1>4. CASE Bump(t)
    <2>1. Typed'
      BY <1>4 DEF Bump, Typed, Places
    <2>2. Locked'
      BY <1>4, TablesCounted DEF Bump, Typed, Locked
    <2>3. Counted'
      <3>1. \A u \in Threads : pc'[u] # "stored"
        BY <1>4, TablesCounted DEF Bump, Typed
      <3>2. Len(tables) = generation + 1
        BY <1>4 DEF Bump, Counted
      <3> QED
        BY <1>4, <3>1, <3>2 DEF Bump, Counted
    <2>4. Ordered'
      BY <1>4 DEF Bump, Typed, Ordered
    <2>5. Cached' /\ AnswersAreCurrent'
      BY <1>4 DEF Bump, Typed, Cached, AnswersAreCurrent
    <2> QED
      BY <2>1, <2>2, <2>3, <2>4, <2>5
  <1> QED
    BY <1>1, <1>2, <1>3, <1>4

\* Steps of a Lookup.
LEMMA LookupKeeps ==
  ASSUME DispatcherInv, NEW t \in Threads,
         StartLookup(t) \/ LoadGeneration(t) \/ LoadTable(t) \/ EndLookup(t)
  PROVE  DispatcherInv'
  <1> USE DEF DispatcherInv, Goes
  <1>1. CASE StartLookup(t)
    <2>1. Typed' /\ Locked' /\ Counted' /\ Cached'
      BY <1>1 DEF StartLookup, Typed, Locked, Counted, Cached, Places
    <2>2. Ordered'
      BY <1>1 DEF StartLookup, Typed, Ordered
    <2>3. AnswersAreCurrent'
      BY <1>1 DEF StartLookup, Typed, AnswersAreCurrent
    <2> QED
      BY <2>1, <2>2, <2>3
  <1>2. CASE LoadGeneration(t)
    <2>1. pc[t] = "load" /\ pc' = [pc EXCEPT ![t] = IF Hit(t) THEN "found" ELSE "miss"]
      BY <1>2 DEF LoadGeneration
    <2>2. Hit(t) => /\ cache[t].snapshot \in 1..Len(tables) /\ started[t] <= cache[t].snapshot
                    /\ tables[cache[t].snapshot] \in Table
      BY <2>1, TablesCounted DEF Hit, Cached, Ordered, Typed, Cache
    <2>3. Typed'
      <3>1. Hit(t) => tables[cache[t].snapshot][key[t]] \in Handlers \cup {Missing}
        BY <2>2 DEF Table, Typed
      <3> QED
        BY Zenon, <1>2, <2>1, <3>1 DEF LoadGeneration, Typed, Places
    <2>4. Locked' /\ Counted' /\ Cached'
      BY <1>2, <2>1 DEF LoadGeneration, Typed, Locked, Counted, Cached
    <2>5. Ordered'
      BY <1>2, <2>1 DEF LoadGeneration, Typed, Ordered
    <2>6. AnswersAreCurrent'
      <3> SUFFICES ASSUME NEW u \in Threads, pc'[u] = "found"
                   PROVE  \E n \in started[u]..Len(tables) : answer'[u] = tables[n][key[u]]
        BY <1>2 DEF LoadGeneration, AnswersAreCurrent
      <3>1. CASE u = t
        <4>1. Hit(t) /\ answer'[t] = tables[cache[t].snapshot][key[t]]
          BY <1>2, <2>1, <3>1 DEF LoadGeneration, Typed
        <4>2. cache[t].snapshot \in started[t]..Len(tables)
          BY <2>2, <4>1 DEF Typed
        <4> QED
          BY <3>1, <4>1, <4>2
      <3>2. CASE u # t
        <4>1. pc[u] = "found" /\ answer'[u] = answer[u]
          BY <1>2, <2>1, <3>2 DEF LoadGeneration, Typed
        <4> QED
          BY <4>1 DEF AnswersAreCurrent
      <3> QED
        BY <3>1, <3>2
    <2> QED
      BY <2>3, <2>4, <2>5, <2>6
  <1>3. CASE LoadTable(t)
    <2>1. methods[key[t]] \in Handlers \cup {Missing}
      BY TablesCounted DEF methods, Table, Typed
    <2>2. [generation |-> loaded[t], key |-> key[t], snapshot |-> Len(tables)] \in Cache
      BY TablesCounted DEF Cache, Typed
    <2>3. Typed'
      BY <1>3, <2>1, <2>2 DEF LoadTable, Typed, Places
    <2>4. Locked' /\ Counted' /\ Ordered'
      BY <1>3 DEF LoadTable, Typed, Locked, Counted, Ordered
    <2>5. Cached'
      BY <1>3, TablesCounted DEF LoadTable, Typed, Cached, Ordered
    <2>6. AnswersAreCurrent'
      <3>1. Len(tables) \in started[t]..Len(tables)
        BY <1>3, TablesCounted DEF LoadTable, Ordered, Typed
      <3> QED
        BY <1>3, <3>1 DEF LoadTable, Typed, AnswersAreCurrent, methods
    <2> QED
      BY <2>3, <2>4, <2>5, <2>6
  <1>4. CASE EndLookup(t)
    <2>1. Typed' /\ Locked' /\ Counted' /\ Ordered' /\ Cached'
      BY <1>4 DEF EndLookup, Typed, Locked, Counted, Ordered, Cached, Places
    <2>2. AnswersAreCurrent'
      BY <1>4 DEF EndLookup, Typed, AnswersAreCurrent
    <2> QED
      BY <2>1, <2>2
  <1> QED
    BY <1>1, <1>2, <1>3, <1>4

\* Every step keeps the invariant.
LEMMA NextDispatcherInv == DispatcherInv /\ [DispatcherNext]_dispatcherVars => DispatcherInv'
  <1> SUFFICES ASSUME DispatcherInv, [DispatcherNext]_dispatcherVars PROVE DispatcherInv'
    OBVIOUS
  <1>1. CASE DispatcherNext
    BY <1>1, UpdateKeeps, LookupKeeps DEF DispatcherNext
  <1>2. CASE UNCHANGED dispatcherVars
    BY <1>2 DEF dispatcherVars, DispatcherInv, Typed, Locked, Counted, Ordered, Cached, AnswersAreCurrent
  <1> QED
    BY <1>1, <1>2

\* A Lookup that is called after Register or Unregister returned answers from their
\* table or a later one, from the thread's cache too: the generation is read before
\* the table (service_dispatcher.cpp:139, 146) and raised after it is published
\* (service_dispatcher.cpp:28-30).
THEOREM LookupIsNeverBehind == DispatcherSpec => []AnswersAreCurrent
  <1>1. DispatcherInv => AnswersAreCurrent
    BY DEF DispatcherInv
  <1> QED
    BY <1>1, InitDispatcherInv, NextDispatcherInv, PTL DEF DispatcherSpec
=============================================================================
