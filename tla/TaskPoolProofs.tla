--------------------------- MODULE TaskPoolProofs ---------------------------
(***************************************************************************)
(* The pool hands no task out twice, with any number of threads and tasks. *)
(* The lists are described by what one link tells: the part a task is in   *)
(* holds what follows it, and nothing follows two tasks.  The heart is     *)
(* ScansSee: from the second look at the head on, whoever asks about the   *)
(* task has still to read the record that protects it.                     *)
(***************************************************************************)
EXTENDS TaskPool, TLAPS

MaybeTask == Tasks \cup {Null}
Steps == {"idle", "load", "emptied", "reload", "create", "protect", "check", "readNext", "swap",
          "unprotect", "clear", "count", "pushLoad", "pushLink", "pushSwap", "exchange", "walk", "scan"}
Pushes == {"pushLoad", "pushLink", "pushSwap"}
Looked == {"readNext", "swap"}

Typed ==
    /\ head \in MaybeTask /\ retired \in MaybeTask /\ link \in [Tasks -> MaybeTask]
    /\ hazard \in [Threads -> MaybeTask] /\ pc \in [Threads -> Steps]
    /\ task \in [Threads -> MaybeTask] /\ next \in [Threads -> MaybeTask]
    /\ batch \in [Threads -> MaybeTask] /\ scan \in [Threads -> SUBSET Threads]
    /\ node \in [Threads -> MaybeTask] /\ onto \in [Threads -> {"free", "retired"}]
    /\ old \in [Threads -> MaybeTask] /\ after \in [Threads -> {"idle", "reload", "count"}]
    /\ where \in [Tasks -> {"none", "user", "hand", "batch", "free", "retired"}]
    /\ holder \in [Tasks -> Threads \cup {Null}]

\* A list with tasks S, entered at e, along the links f.
IsList(S, e, f) ==
    /\ e \in S \cup {Null}
    /\ \A n \in S : f[n] \in S \cup {Null}
    /\ \A m, n \in S : f[m] = f[n] /\ f[m] # Null => m = n
    /\ \A n \in S : f[n] = e => e = Null

Part(w) == {n \in Tasks : where[n] = w}
BatchOf(t) == {n \in Tasks : where[n] = "batch" /\ holder[n] = t}

Lists ==
    /\ IsList(Part("free"), head, link) /\ IsList(Part("retired"), retired, link)
    /\ \A t \in Threads : IsList(BatchOf(t), batch[t], link)

InHand(n, t) == n \in Tasks /\ where[n] = "hand" /\ holder[n] = t

Hands == \A t \in Threads :
    /\ pc[t] \in {"unprotect", "clear"} => InHand(task[t], t)
    /\ pc[t] \in {"scan"} \cup Pushes => InHand(node[t], t)
    /\ pc[t] = "pushSwap" => link[node[t]] = old[t]

Protected == \A t \in Threads :
    /\ pc[t] \in {"protect", "check"} \cup Looked => task[t] \in Tasks
    /\ pc[t] \in {"check"} \cup Looked => hazard[t] = task[t]

ScansSee == \A t, u \in Threads : pc[t] \in Looked /\ node[u] = task[t] =>
    /\ pc[u] = "scan" => t \in scan[u]
    /\ pc[u] \in Pushes => onto[u] = "retired"

Fresh == \A t \in Threads :
    pc[t] = "swap" /\ where[task[t]] = "free" => next[t] = link[task[t]]

PoolInv == Typed /\ Lists /\ Hands /\ Protected /\ ScansSee /\ Fresh
-----------------------------------------------------------------------------
\* Adding to a list, taking its first task, and writing a link outside it.
LEMMA ListPush ==
  ASSUME NEW S, NEW e, NEW f, IsList(S, e, f), NEW x, x \notin S, x # Null, f[x] = e
  PROVE  IsList(S \cup {x}, x, f)
  BY DEF IsList

LEMMA ListPop ==
  ASSUME NEW S, NEW e, NEW f, IsList(S, e, f), e # Null
  PROVE  IsList(S \ {e}, f[e], f)
  BY DEF IsList

LEMMA ListApart ==
  ASSUME NEW S, NEW e, NEW f, NEW g, IsList(S, e, f), \A n \in S : g[n] = f[n]
  PROVE  IsList(S, e, g)
  BY DEF IsList

\* Nothing is a task and Null.
LEMMA NullIsNoTask == Null \notin Tasks
  BY DEF Null, Tasks

\* An empty pool.
LEMMA InitPoolInv == Init => PoolInv
  <1> SUFFICES ASSUME Init PROVE PoolInv
    OBVIOUS
  <1>1. Typed
    BY DEF Init, Typed, MaybeTask, Steps
  <1>2. Lists
    BY DEF Init, Lists, IsList, Part, BatchOf
  <1>3. Hands /\ Protected /\ ScansSee /\ Fresh
    BY DEF Init, Hands, Protected, ScansSee, Fresh, Pushes, Looked
  <1> QED
    BY <1>1, <1>2, <1>3 DEF PoolInv
-----------------------------------------------------------------------------
\* Steps that move no task and write no link.
LEMMA ListsKept ==
  ASSUME Lists, UNCHANGED <<head, retired, link, batch, where, holder>>
  PROVE  Lists'
  BY DEF Lists, IsList, Part, BatchOf

\* Allocate begins (task_pool.h:124).
LEMMA StartAllocateKeeps ==
  ASSUME PoolInv, NEW t \in Threads, StartAllocate(t)
  PROVE  PoolInv'
  <1> USE DEF PoolInv, StartAllocate, Goes, lists, locals, ghosts
  <1>1. Typed'
    BY DEF Typed, Steps, MaybeTask
  <1>2. Lists'
    BY ListsKept
  <1>3. Hands'
    BY DEF Hands, InHand, Typed, Pushes
  <1>4. Protected'
    BY NullIsNoTask DEF Protected, Typed, Looked, MaybeTask
  <1>5. ScansSee'
    BY DEF ScansSee, Typed, Looked, Pushes, Protected, Hands, InHand, Lists, IsList, Part
  <1>6. Fresh'
    BY DEF Fresh, Typed
  <1> QED
    BY <1>1, <1>2, <1>3, <1>4, <1>5, <1>6

\* The two loads of the head (task_pool.h:130, 135).
LEMMA LoadHeadKeeps ==
  ASSUME PoolInv, NEW t \in Threads, LoadHead(t)
  PROVE  PoolInv'
  <1> USE DEF PoolInv, LoadHead, Goes, lists, locals, ghosts
  <1>1. Typed'
    BY DEF Typed, Steps, MaybeTask
  <1>2. Lists'
    BY ListsKept
  <1>3. Hands'
    BY DEF Hands, InHand, Typed, Pushes
  <1>4. Protected'
    BY NullIsNoTask DEF Protected, Typed, Looked, MaybeTask
  <1>5. ScansSee'
    BY DEF ScansSee, Typed, Looked, Pushes, Protected, Hands, InHand, Lists, IsList, Part
  <1>6. Fresh'
    BY DEF Fresh, Typed
  <1> QED
    BY <1>1, <1>2, <1>3, <1>4, <1>5, <1>6

\* Before a reclaim Allocate protects nothing (task_pool.h:132).
LEMMA EmptiedKeeps ==
  ASSUME PoolInv, NEW t \in Threads, Emptied(t)
  PROVE  PoolInv'
  <1> USE DEF PoolInv, Emptied, Goes, lists, locals, ghosts
  <1>1. Typed'
    BY DEF Typed, Steps, MaybeTask
  <1>2. Lists'
    BY ListsKept
  <1>3. Hands'
    BY DEF Hands, InHand, Typed, Pushes
  <1>4. Protected'
    BY NullIsNoTask DEF Protected, Typed, Looked, MaybeTask
  <1>5. ScansSee'
    BY DEF ScansSee, Typed, Looked, Pushes, Protected, Hands, InHand, Lists, IsList, Part
  <1>6. Fresh'
    BY DEF Fresh, Typed
  <1> QED
    BY <1>1, <1>2, <1>3, <1>4, <1>5, <1>6

\* The hazard is published (task_pool.h:143).
LEMMA ProtectKeeps ==
  ASSUME PoolInv, NEW t \in Threads, Protect(t)
  PROVE  PoolInv'
  <1> USE DEF PoolInv, Protect, Goes, lists, locals, ghosts
  <1>1. Typed'
    BY DEF Typed, Steps, MaybeTask
  <1>2. Lists'
    BY ListsKept
  <1>3. Hands'
    BY DEF Hands, InHand, Typed, Pushes
  <1>4. Protected'
    BY NullIsNoTask DEF Protected, Typed, Looked, MaybeTask
  <1>5. ScansSee'
    BY DEF ScansSee, Typed, Looked, Pushes, Protected, Hands, InHand, Lists, IsList, Part
  <1>6. Fresh'
    BY DEF Fresh, Typed
  <1> QED
    BY <1>1, <1>2, <1>3, <1>4, <1>5, <1>6

\* The second look: a task that is still the head is reusable, so nobody asks about it.
LEMMA CheckHeadKeeps ==
  ASSUME PoolInv, NEW t \in Threads, CheckHead(t)
  PROVE  PoolInv'
  <1> USE DEF PoolInv, CheckHead, Goes, lists, locals, ghosts
  <1>1. Typed'
    BY DEF Typed, Steps, MaybeTask
  <1>2. Lists'
    BY ListsKept
  <1>3. Hands'
    BY DEF Hands, InHand, Typed, Pushes
  <1>4. Protected'
    BY NullIsNoTask DEF Protected, Typed, Looked, MaybeTask
  <1>5. ScansSee'
    <2>1. head = task[t] => \A u \in Threads : pc[u] \in {"scan"} \cup Pushes => node[u] # task[t]
      <3>1. head = task[t] => where[task[t]] = "free"
        BY NullIsNoTask DEF Protected, Lists, IsList, Part
      <3>2. \A u \in Threads : pc[u] \in {"scan"} \cup Pushes => where[node[u]] = "hand"
        BY DEF Hands, InHand
      <3> QED
        BY <3>1, <3>2
    <2> QED
      BY <2>1 DEF ScansSee, Typed, Looked, Pushes
  <1>6. Fresh'
    BY DEF Fresh, Typed
  <1> QED
    BY <1>1, <1>2, <1>3, <1>4, <1>5, <1>6

\* The task read is what followed it if it is still reusable.
LEMMA ReadNextKeeps ==
  ASSUME PoolInv, NEW t \in Threads, ReadNext(t)
  PROVE  PoolInv'
  <1> USE DEF PoolInv, ReadNext, Goes, lists, locals, ghosts
  <1>1. Typed'
    <2>1. link[task[t]] \in MaybeTask
      BY DEF Protected, Looked, Typed
    <2> QED
      BY <2>1 DEF Typed, Steps
  <1>2. Lists'
    BY ListsKept
  <1>3. Hands'
    BY DEF Hands, InHand, Typed, Pushes
  <1>4. Protected'
    BY NullIsNoTask DEF Protected, Typed, Looked, MaybeTask
  <1>5. ScansSee'
    BY DEF ScansSee, Typed, Looked, Pushes, Protected, Hands, InHand, Lists, IsList, Part
  <1>6. Fresh'
    BY DEF Fresh, Typed
  <1> QED
    BY <1>1, <1>2, <1>3, <1>4, <1>5, <1>6

\* The hazard is cleared after the swap (task_pool.h:152).
LEMMA UnprotectKeeps ==
  ASSUME PoolInv, NEW t \in Threads, Unprotect(t)
  PROVE  PoolInv'
  <1> USE DEF PoolInv, Unprotect, Goes, lists, locals, ghosts
  <1>1. Typed'
    BY DEF Typed, Steps, MaybeTask
  <1>2. Lists'
    BY ListsKept
  <1>3. Hands'
    BY DEF Hands, InHand, Typed, Pushes
  <1>4. Protected'
    BY NullIsNoTask DEF Protected, Typed, Looked, MaybeTask
  <1>5. ScansSee'
    BY DEF ScansSee, Typed, Looked, Pushes, Protected, Hands, InHand, Lists, IsList, Part
  <1>6. Fresh'
    BY DEF Fresh, Typed
  <1> QED
    BY <1>1, <1>2, <1>3, <1>4, <1>5, <1>6

\* Free counts (task_pool.h:166).
LEMMA CountKeeps ==
  ASSUME PoolInv, NEW t \in Threads, Count(t)
  PROVE  PoolInv'
  <1> USE DEF PoolInv, Count, Goes, lists, locals, ghosts
  <1>1. Typed'
    BY DEF Typed, Steps, MaybeTask
  <1>2. Lists'
    BY ListsKept
  <1>3. Hands'
    BY DEF Hands, InHand, Typed, Pushes
  <1>4. Protected'
    BY NullIsNoTask DEF Protected, Typed, Looked, MaybeTask
  <1>5. ScansSee'
    BY DEF ScansSee, Typed, Looked, Pushes, Protected, Hands, InHand, Lists, IsList, Part
  <1>6. Fresh'
    BY DEF Fresh, Typed
  <1> QED
    BY <1>1, <1>2, <1>3, <1>4, <1>5, <1>6

\* PushList reads the entry (task_pool.h:206).
LEMMA PushLoadKeeps ==
  ASSUME PoolInv, NEW t \in Threads, PushLoad(t)
  PROVE  PoolInv'
  <1> USE DEF PoolInv, PushLoad, Goes, lists, locals, ghosts
  <1>1. Typed'
    <2>1. Entry(onto[t]) \in MaybeTask
      BY DEF Entry, Typed
    <2> QED
      BY <2>1 DEF Typed, Steps
  <1>2. Lists'
    BY ListsKept
  <1>3. Hands'
    BY DEF Hands, InHand, Typed, Pushes
  <1>4. Protected'
    BY NullIsNoTask DEF Protected, Typed, Looked, MaybeTask
  <1>5. ScansSee'
    BY DEF ScansSee, Typed, Looked, Pushes, Protected, Hands, InHand, Lists, IsList, Part
  <1>6. Fresh'
    BY DEF Fresh, Typed
  <1> QED
    BY <1>1, <1>2, <1>3, <1>4, <1>5, <1>6

\* IsProtected reads a record: one that protects the task is not passed over.
LEMMA ScanKeeps ==
  ASSUME PoolInv, NEW t \in Threads, Scan(t)
  PROVE  PoolInv'
  <1> USE DEF PoolInv, Scan, Goes, lists, locals, ghosts
  <1>1. Typed'
    BY DEF Typed, Steps, MaybeTask
  <1>2. Lists'
    BY ListsKept
  <1>3. Hands'
    BY DEF Hands, InHand, Typed, Pushes
  <1>4. Protected'
    BY NullIsNoTask DEF Protected, Typed, Looked, MaybeTask
  <1>5. ScansSee'
    BY DEF ScansSee, Typed, Looked, Pushes, Protected, Hands, InHand, Lists, IsList, Part
  <1>6. Fresh'
    BY DEF Fresh, Typed
  <1> QED
    BY <1>1, <1>2, <1>3, <1>4, <1>5, <1>6

-----------------------------------------------------------------------------
(* Steps that move a task or write a link.                                 *)

\* A new task (task_pool.h:137).
LEMMA CreateKeeps ==
  ASSUME PoolInv, NEW t \in Threads, Create(t)
  PROVE  PoolInv'
  <1> USE DEF PoolInv, Create, Goes, Place, lists, locals, ghosts
  <1>1. Typed'
    BY DEF Typed, Steps, MaybeTask
  <1>2. Lists'
    BY NullIsNoTask DEF Lists, IsList, Part, BatchOf, Typed
  <1>3. Hands'
    BY DEF Hands, InHand, Typed, Pushes
  <1>4. Protected'
    BY NullIsNoTask DEF Protected, Typed, Looked, MaybeTask
  <1>5. ScansSee'
    BY DEF ScansSee, Typed, Looked, Pushes, Protected, Hands, InHand
  <1>6. Fresh'
    BY SMTT(30) DEF Fresh, Typed
  <1> QED
    BY <1>1, <1>2, <1>3, <1>4, <1>5, <1>6

\* The swap takes the first reusable task, and the list goes on with what follows it.
LEMMA SwapHeadKeeps ==
  ASSUME PoolInv, NEW t \in Threads, SwapHead(t)
  PROVE  PoolInv'
  <1> USE DEF PoolInv, SwapHead, Goes, Place, lists, locals, ghosts
  <1>0. /\ pc[t] = "swap" /\ task[t] \in Tasks
        /\ head = task[t] => where[task[t]] = "free" /\ next[t] = link[task[t]]
    <2>1. pc[t] = "swap" /\ task[t] \in Tasks
      BY DEF Protected, Looked
    <2>2. head = task[t] => where[task[t]] = "free"
      BY <2>1, NullIsNoTask DEF Lists, IsList, Part
    <2> QED
      BY <2>1, <2>2 DEF Fresh
  <1>1. Typed'
    BY SMTT(30) DEF Typed, Steps, MaybeTask
  <1>2. Lists'
    <2>1. CASE head = task[t]
      <3>1. /\ Part("free")' = Part("free") \ {head} /\ Part("retired")' = Part("retired")
            /\ \A u \in Threads : BatchOf(u)' = BatchOf(u)
        BY <1>0, <2>1 DEF Part, BatchOf, Typed
      <3>2. IsList(Part("free") \ {head}, link[head], link)
        BY ZenonT(60), <1>0, <2>1, NullIsNoTask, ListPop DEF Lists
      <3> QED
        BY <1>0, <2>1, <3>1, <3>2 DEF Lists
    <2>2. CASE head # task[t]
      BY <2>2, ListsKept
    <2> QED
      BY <2>1, <2>2
  <1>3. Hands'
    <2>1. CASE head = task[t]
      <3>1. \A n \in Tasks, u \in Threads : InHand(n, u) => InHand(n, u)'
        BY <1>0, <2>1 DEF InHand, Typed
      <3>2. InHand(task[t], t)'
        BY <1>0, <2>1 DEF InHand, Typed
      <3> QED
        BY <1>0, <2>1, <3>1, <3>2 DEF Hands, Typed, Pushes, InHand
    <2>2. CASE head # task[t]
      BY <2>2 DEF Hands, Typed, Pushes, InHand
    <2> QED
      BY <2>1, <2>2
  <1>4. Protected'
    BY DEF Protected, Typed, Looked
  <1>5. ScansSee'
    BY SMTT(30) DEF ScansSee, Typed, Looked, Pushes
  <1>6. Fresh'
    <2>1. \A n \in Tasks : where'[n] = "free" => where[n] = "free"
      BY <1>0 DEF Typed
    <2>2. \A u \in Threads : pc'[u] = "swap" => pc[u] = "swap" /\ task[u] \in Tasks
      BY DEF Typed, Protected, Looked
    <2> QED
      BY <2>1, <2>2 DEF Fresh
  <1> QED
    BY <1>1, <1>2, <1>3, <1>4, <1>5, <1>6

\* The task goes to the user (task_pool.h:153).
LEMMA HandOutKeeps ==
  ASSUME PoolInv, NEW t \in Threads, HandOut(t)
  PROVE  PoolInv'
  <1> USE DEF PoolInv, HandOut, Goes, Place, lists, locals, ghosts
  <1>1. Typed'
    BY Zenon DEF Typed, Steps, MaybeTask
  <1>2. Lists'
    <2>1. task[t] \in Tasks /\ where[task[t]] = "hand"
      BY DEF Hands, InHand
    <2>2. /\ Part("free")' = Part("free") /\ Part("retired")' = Part("retired")
          /\ \A u \in Threads : BatchOf(u)' = BatchOf(u)
      BY <2>1 DEF Part, BatchOf, Typed
    <2>3. \A n \in Tasks : where[n] # "hand" => link'[n] = link[n]
      BY <2>1 DEF Typed
    <2>4. /\ \A n \in Part("free") \cup Part("retired") : link'[n] = link[n]
          /\ \A u \in Threads : \A n \in BatchOf(u) : link'[n] = link[n]
      BY <2>3 DEF Part, BatchOf
    <2>5. IsList(Part("free"), head, link') /\ IsList(Part("retired"), retired, link')
      BY Zenon, <2>4, ListApart DEF Lists
    <2>6. \A u \in Threads : IsList(BatchOf(u), batch[u], link')
      BY ZenonT(60), <2>4, ListApart DEF Lists
    <2> QED
      BY Zenon, <2>2, <2>5, <2>6 DEF Lists
  <1>3. Hands'
    BY DEF Hands, InHand, Typed, Pushes
  <1>4. Protected'
    BY NullIsNoTask DEF Protected, Typed, Looked, MaybeTask
  <1>5. ScansSee'
    BY DEF ScansSee, Typed, Looked, Pushes, Protected, Hands, InHand
  <1>6. Fresh'
    BY DEF Fresh, Typed
  <1> QED
    BY <1>1, <1>2, <1>3, <1>4, <1>5, <1>6

\* The user gives a task back (task_pool.h:159).
LEMMA FreeKeeps ==
  ASSUME PoolInv, NEW t \in Threads, Free(t)
  PROVE  PoolInv'
  <1> USE DEF PoolInv, Free, Goes, Place, lists, locals, ghosts
  <1>1. Typed'
    BY SMTT(30) DEF Typed, Steps, MaybeTask
  <1>2. Lists'
    BY NullIsNoTask DEF Lists, IsList, Part, BatchOf, Typed
  <1>3. Hands'
    BY DEF Hands, InHand, Typed, Pushes
  <1>4. Protected'
    BY NullIsNoTask DEF Protected, Typed, Looked, MaybeTask
  <1>5. ScansSee'
    BY DEF ScansSee, Typed, Looked, Pushes, Protected, Hands, InHand
  <1>6. Fresh'
    BY DEF Fresh, Typed
  <1> QED
    BY <1>1, <1>2, <1>3, <1>4, <1>5, <1>6

\* PushList links a task nobody else has (task_pool.h:208).
LEMMA PushLinkKeeps ==
  ASSUME PoolInv, NEW t \in Threads, PushLink(t)
  PROVE  PoolInv'
  <1> USE DEF PoolInv, PushLink, Goes, Place, lists, locals, ghosts
  <1>1. Typed'
    BY Zenon DEF Typed, Steps, MaybeTask
  <1>2. Lists'
    <2>1. \A n \in Tasks : where[n] # "hand" => link'[n] = link[n]
      BY DEF Typed, Hands, InHand, Pushes
    <2>2. /\ Part("free")' = Part("free") /\ Part("retired")' = Part("retired")
          /\ \A u \in Threads : BatchOf(u)' = BatchOf(u)
      BY DEF Part, BatchOf
    <2>3. /\ \A n \in Part("free") \cup Part("retired") : link'[n] = link[n]
          /\ \A u \in Threads : \A n \in BatchOf(u) : link'[n] = link[n]
      BY <2>1 DEF Part, BatchOf
    <2>4. IsList(Part("free"), head, link') /\ IsList(Part("retired"), retired, link')
      BY Zenon, <2>3, ListApart DEF Lists
    <2>5. \A u \in Threads : IsList(BatchOf(u), batch[u], link')
      BY ZenonT(60), <2>3, ListApart DEF Lists
    <2> QED
      BY ZenonT(60), <2>2, <2>4, <2>5 DEF Lists
  <1>3. Hands'
    BY DEF Hands, InHand, Typed, Pushes
  <1>4. Protected'
    BY NullIsNoTask DEF Protected, Typed, Looked, MaybeTask
  <1>5. ScansSee'
    BY DEF ScansSee, Typed, Looked, Pushes, Protected, Hands, InHand
  <1>6. Fresh'
    <2>1. \A n \in Tasks : where[n] # "hand" => link'[n] = link[n]
      BY DEF Typed, Hands, InHand, Pushes
    <2>2. \A u \in Threads : pc'[u] = "swap" => pc[u] = "swap" /\ task[u] \in Tasks
      BY DEF Typed, Protected, Looked
    <2> QED
      BY <2>1, <2>2 DEF Fresh
  <1> QED
    BY <1>1, <1>2, <1>3, <1>4, <1>5, <1>6

\* PushList adds the task; on the reusable list only if nobody looked at it since it left.
LEMMA PushSwapKeeps ==
  ASSUME PoolInv, NEW t \in Threads, PushSwap(t)
  PROVE  PoolInv'
  <1> USE DEF PoolInv, Goes, Place, lists, locals, ghosts
  <1> DEFINE n == node[t]
  <1>0. pc[t] = "pushSwap" /\ InHand(n, t) /\ link[n] = old[t] /\ onto[t] \in {"free", "retired"}
    BY DEF PushSwap, Hands, Pushes, Typed
  <1>1. CASE /\ Entry(onto[t]) = old[t]
             /\ pc' = [pc EXCEPT ![t] = IF after[t] = "count" THEN "count" ELSE "walk"]
             /\ head' = IF onto[t] = "free" THEN n ELSE head
             /\ retired' = IF onto[t] = "free" THEN retired ELSE n
             /\ Place(n, onto[t], Null) /\ UNCHANGED <<link, hazard, locals>>
    <2>1. \A m \in Tasks : /\ where'[m] = IF m = n THEN onto[t] ELSE where[m]
                           /\ holder'[m] = IF m = n THEN Null ELSE holder[m]
      BY <1>0, <1>1 DEF Typed
    <2>2. Typed'
      BY <1>0, <1>1, SMTT(30) DEF Typed, Steps, MaybeTask, InHand
    <2>3. Lists'
      <3>1. n \in Tasks /\ where[n] = "hand"
        BY <1>0 DEF InHand
      <3>2. Part(onto[t])' = Part(onto[t]) \cup {n} /\ n \notin Part(onto[t])
        <4>1. UNCHANGED onto
          BY <1>1, SMTT(30)
        <4> QED
          BY <1>0, <2>1, <3>1, <4>1 DEF Part
      <3>3. /\ onto[t] = "free" => Part("retired")' = Part("retired")
            /\ onto[t] = "retired" => Part("free")' = Part("free")
        BY <1>0, <2>1, <3>1 DEF Part
      <3>4. \A u \in Threads : BatchOf(u)' = BatchOf(u)
        BY <1>0, <2>1, <3>1 DEF BatchOf
      <3>5. IsList(Part(onto[t]), Entry(onto[t]), link)
        BY <1>0, SMTT(30) DEF Lists, Entry
      <3>6. IsList(Part(onto[t]) \cup {n}, n, link)
        BY <1>0, <1>1, <3>1, <3>2, <3>5, NullIsNoTask, ListPush, SMTT(30)
      <3> QED
        BY Zenon, <1>0, <1>1, <3>2, <3>3, <3>4, <3>6 DEF Lists
    <2>4. Hands'
      <3>1. \A m \in Tasks, u \in Threads \ {t} : InHand(m, u) => InHand(m, u)'
        BY ZenonT(60), <1>0, <2>1 DEF InHand
      <3> QED
        BY <1>0, <1>1, <3>1, SMTT(30) DEF Hands, Typed, Pushes, InHand
    <2>5. Protected'
      BY <1>0, <1>1 DEF Protected, Typed, Looked
    <2>6. ScansSee'
      BY <1>0, <1>1 DEF ScansSee, Typed, Looked, Pushes
    <2>7. Fresh'
      <3>1. \A u \in Threads : pc'[u] = "swap" => pc[u] = "swap" /\ task[u] \in Tasks
        BY <1>0, <1>1, SMTT(30) DEF Typed, Protected, Looked
      <3>2. \A u \in Threads : pc[u] = "swap" /\ task[u] = n => onto[t] = "retired"
        BY <1>0 DEF ScansSee, Looked, Pushes
      <3> QED
        BY <1>1, <2>1, <3>1, <3>2 DEF Fresh
    <2> QED
      BY <2>2, <2>3, <2>4, <2>5, <2>6, <2>7
  <1>2. CASE /\ pc' = [pc EXCEPT ![t] = "pushLink"] /\ old' = [old EXCEPT ![t] = Entry(onto[t])]
             /\ UNCHANGED <<lists, hazard, task, next, batch, scan, node, onto, after, ghosts>>
    <2>1. Entry(onto[t]) \in MaybeTask
      BY DEF Entry, Typed
    <2>2. Typed'
      BY <1>2, <2>1 DEF Typed, Steps
    <2>3. Lists'
      BY <1>2, ListsKept
    <2>4. Hands'
      BY <1>0, <1>2 DEF Hands, InHand, Typed, Pushes
    <2>5. Protected' /\ ScansSee'
      BY <1>0, <1>2 DEF Protected, ScansSee, Typed, Looked, Pushes
    <2>6. Fresh'
      BY <1>0, <1>2, SMTT(30) DEF Fresh, Typed
    <2> QED
      BY <2>2, <2>3, <2>4, <2>5, <2>6
  <1> QED
    BY <1>1, <1>2 DEF PushSwap

\* ReclaimRetired takes the whole retired list.
LEMMA ExchangeKeeps ==
  ASSUME PoolInv, NEW t \in Threads, Exchange(t)
  PROVE  PoolInv'
  <1> USE DEF PoolInv, Exchange, Goes, Place, lists, locals, ghosts
  <1>1. Typed'
    BY SMTT(30) DEF Typed, Steps, MaybeTask
  <1>2. Lists'
    BY NullIsNoTask DEF Lists, IsList, Part, BatchOf, Typed
  <1>3. Hands'
    BY DEF Hands, InHand, Typed, Pushes
  <1>4. Protected'
    BY NullIsNoTask DEF Protected, Typed, Looked, MaybeTask
  <1>5. ScansSee'
    BY DEF ScansSee, Typed, Looked, Pushes, Protected, Hands, InHand
  <1>6. Fresh'
    <2>1. \A n \in Tasks : where'[n] = "free" => where[n] = "free"
      BY DEF Typed
    <2>2. \A u \in Threads : pc'[u] = "swap" => pc[u] = "swap" /\ task[u] \in Tasks
      BY DEF Typed, Protected, Looked
    <2> QED
      BY <2>1, <2>2 DEF Fresh
  <1> QED
    BY <1>1, <1>2, <1>3, <1>4, <1>5, <1>6

\* ReclaimRetired takes the next task of its batch, and all records are still to read.
LEMMA WalkKeeps ==
  ASSUME PoolInv, NEW t \in Threads, Walk(t)
  PROVE  PoolInv'
  <1> USE DEF PoolInv, Goes, Place, lists, locals, ghosts
  <1> DEFINE n == batch[t]
  <1>1. CASE /\ n # Null /\ pc[t] = "walk" /\ pc' = [pc EXCEPT ![t] = "scan"]
             /\ node' = [node EXCEPT ![t] = n] /\ batch' = [batch EXCEPT ![t] = link[n]]
             /\ scan' = [scan EXCEPT ![t] = Threads] /\ Place(n, "hand", t)
             /\ UNCHANGED <<lists, hazard, task, next, onto, old, after>>
    <2>0. n \in Tasks /\ where[n] = "batch" /\ holder[n] = t
      BY <1>1 DEF Lists, IsList, BatchOf
    <2>1. \A m \in Tasks : /\ where'[m] = IF m = n THEN "hand" ELSE where[m]
                           /\ holder'[m] = IF m = n THEN t ELSE holder[m]
      BY <1>1, <2>0 DEF Typed
    <2>2. Typed'
      <3>1. link[n] \in MaybeTask
        BY <2>0, SMTT(30) DEF Typed
      <3> QED
        BY <1>1, <2>0, <3>1 DEF Typed, Steps, MaybeTask
    <2>3. Lists'
      <3>1. Part("free")' = Part("free") /\ Part("retired")' = Part("retired")
        BY <2>0, <2>1 DEF Part
      <3>2. \A u \in Threads \ {t} : BatchOf(u)' = BatchOf(u) /\ batch'[u] = batch[u]
        BY <1>1, <2>0, <2>1 DEF BatchOf, Typed
      <3>3. BatchOf(t)' = BatchOf(t) \ {n} /\ batch'[t] = link[n]
        BY <1>1, <2>0, <2>1, SMTT(30) DEF BatchOf, Typed
      <3>4. IsList(BatchOf(t) \ {n}, link[n], link)
        BY ZenonT(60), <1>1, ListPop DEF Lists
      <3> QED
        BY ZenonT(60), <1>1, <3>1, <3>2, <3>3, <3>4 DEF Lists
    <2>4. Hands'
      <3>1. \A m \in Tasks, u \in Threads : InHand(m, u) => InHand(m, u)'
        BY <2>0, <2>1, SMTT(30) DEF InHand
      <3>2. n \in Tasks /\ where'[n] = "hand" /\ holder'[n] = t
        BY <2>0, <2>1
      <3>3. \A u \in Threads \ {t} : pc'[u] = pc[u] /\ node'[u] = node[u]
        BY <1>1 DEF Typed
      <3>4. pc'[t] = "scan" /\ node'[t] = n
        BY <1>1 DEF Typed
      <3> QED
        BY <1>1, <3>1, <3>2, <3>3, <3>4 DEF Hands, Pushes, InHand
    <2>5. Protected'
      BY <1>1 DEF Protected, Typed, Looked
    <2>6. ScansSee'
      BY <1>1 DEF ScansSee, Typed, Looked, Pushes
    <2>7. Fresh'
      <3>1. \A u \in Threads : pc'[u] = "swap" => pc[u] = "swap" /\ task[u] \in Tasks
        BY <1>1 DEF Typed, Protected, Looked
      <3> QED
        BY <1>1, <2>1, <3>1 DEF Fresh
    <2> QED
      BY <2>2, <2>3, <2>4, <2>5, <2>6, <2>7
  <1>2. CASE /\ pc[t] = "walk" /\ pc' = [pc EXCEPT ![t] = after[t]]
             /\ UNCHANGED <<lists, hazard, locals, ghosts>>
    <2>1. after[t] \in {"idle", "reload", "count"}
      BY DEF Typed
    <2>2. Typed'
      BY <1>2, <2>1 DEF Typed, Steps
    <2>3. Lists'
      BY <1>2, ListsKept
    <2>4. Hands'
      BY <1>2, <2>1 DEF Hands, InHand, Typed, Pushes
    <2>5. Protected'
      BY <1>2, <2>1 DEF Protected, Typed, Looked
    <2>6. ScansSee'
      BY <1>2, <2>1 DEF ScansSee, Typed, Looked, Pushes
    <2>7. Fresh'
      BY <1>2, <2>1 DEF Fresh, Typed
    <2> QED
      BY <2>2, <2>3, <2>4, <2>5, <2>6, <2>7
  <1> QED
    BY <1>1, <1>2, SMTT(30) DEF Walk

-----------------------------------------------------------------------------
\* Who has a task writes its link (mpsc_queue.h:24).
LEMMA EnqueueKeeps ==
  ASSUME PoolInv, Enqueue
  PROVE  PoolInv'
  <1> USE DEF PoolInv, Enqueue, locals, ghosts
  <1>1. Typed'
    BY DEF Typed, MaybeTask
  <1>2. \A n \in Tasks : where[n] # "user" => link'[n] = link[n]
    BY DEF Typed
  <1>3. Lists'
    <2>1. /\ \A n \in Part("free") \cup Part("retired") : link'[n] = link[n]
          /\ \A u \in Threads : \A n \in BatchOf(u) : link'[n] = link[n]
      BY <1>2 DEF Part, BatchOf
    <2>2. IsList(Part("free"), head, link') /\ IsList(Part("retired"), retired, link')
      BY Zenon, <2>1, ListApart DEF Lists
    <2>3. \A u \in Threads : IsList(BatchOf(u), batch[u], link')
      BY ZenonT(60), <2>1, ListApart DEF Lists
    <2>4. /\ Part("free")' = Part("free") /\ Part("retired")' = Part("retired")
          /\ \A u \in Threads : BatchOf(u)' = BatchOf(u)
      BY DEF Part, BatchOf
    <2> QED
      BY Zenon, <2>2, <2>3, <2>4 DEF Lists
  <1>4. Hands'
    BY <1>2 DEF Hands, InHand, Pushes
  <1>5. Protected' /\ ScansSee'
    BY DEF Protected, ScansSee
  <1>6. Fresh'
    BY <1>2 DEF Fresh, Protected, Looked
  <1> QED
    BY <1>1, <1>3, <1>4, <1>5, <1>6

\* Every step keeps PoolInv.
LEMMA NextPoolInv == PoolInv /\ [Next]_vars => PoolInv'
  <1> SUFFICES ASSUME PoolInv, [Next]_vars PROVE PoolInv'
    OBVIOUS
  <1>1. CASE Enqueue
    BY <1>1, EnqueueKeeps
  <1>2. ASSUME NEW t \in Threads, AllocateStep(t) PROVE PoolInv'
    BY <1>2, StartAllocateKeeps, LoadHeadKeeps, EmptiedKeeps, CreateKeeps, ProtectKeeps,
       CheckHeadKeeps, ReadNextKeeps, SwapHeadKeeps, UnprotectKeeps, HandOutKeeps DEF AllocateStep
  <1>3. ASSUME NEW t \in Threads, FreeStep(t) PROVE PoolInv'
    BY SMTT(30), <1>3, FreeKeeps, CountKeeps, PushLoadKeeps, PushLinkKeeps, PushSwapKeeps,
       ExchangeKeeps, WalkKeeps, ScanKeeps DEF FreeStep
  <1>4. CASE UNCHANGED vars
    <2>1. UNCHANGED <<head, retired, link, hazard, pc, task, next, batch, scan, node, onto, old,
                      after, where, holder>>
      BY <1>4 DEF vars, lists, locals, ghosts
    <2>2. Typed'
      BY <2>1 DEF PoolInv, Typed
    <2>3. Lists'
      BY <2>1, ListsKept DEF PoolInv
    <2>4. Hands'
      BY <2>1 DEF PoolInv, Hands, InHand
    <2>5. Protected' /\ ScansSee' /\ Fresh'
      BY <2>1 DEF PoolInv, Protected, ScansSee, Fresh
    <2> QED
      BY <2>2, <2>3, <2>4, <2>5 DEF PoolInv
  <1> QED
    BY <1>1, <1>2, <1>3, <1>4 DEF Next

\* PoolInv holds throughout: it is inductive, with any threads and any tasks.
THEOREM PoolInductive == Spec => []PoolInv
  BY InitPoolInv, NextPoolInv, PTL DEF Spec

\* Where the tasks at the two list heads are.
LEMMA ListHeads ==
  ASSUME PoolInv
  PROVE  /\ head # Null => where[head] = "free"
         /\ retired # Null => where[retired] = "retired"
  <1>1. IsList(Part("free"), head, link) /\ IsList(Part("retired"), retired, link)
    BY DEF PoolInv, Lists
  <1>2. head \in Part("free") \cup {Null} /\ retired \in Part("retired") \cup {Null}
    BY <1>1 DEF IsList
  <1> QED
    BY <1>2 DEF Part

\* Who has the tasks that are being returned, freed or reclaimed.
LEMMA HeldTasks ==
  ASSUME PoolInv, NEW t \in Threads
  PROVE  /\ pc[t] \in {"unprotect", "clear"} => InHand(task[t], t)
         /\ pc[t] \in {"scan", "pushLoad", "pushLink", "pushSwap"} => InHand(node[t], t)
  <1>1. Hands
    BY DEF PoolInv
  <1> QED
    BY <1>1 DEF Hands, Pushes

\* Allocate never installs a link that a task had in an earlier life: the hazard
\* record and the second look at the head (task_pool.h:143-144) keep ReclaimRetired
\* from making the task reusable between the read of its next and the swap.
THEOREM NoTaskComesBack == Spec => []NoStaleNext
  <1>1. PoolInv => NoStaleNext
    <2> SUFFICES ASSUME PoolInv, NEW t \in Threads, pc[t] = "swap", head = task[t]
                 PROVE  next[t] = link[task[t]]
      BY DEF NoStaleNext
    <2>1. task[t] \in Tasks
      <3>1. Protected
        BY DEF PoolInv
      <3> QED
        BY <3>1 DEF Protected, Looked
    <2>2. where[task[t]] = "free"
      BY <2>1, NullIsNoTask, ListHeads
    <2>3. Fresh
      BY DEF PoolInv
    <2> QED
      BY <2>2, <2>3 DEF Fresh
  <1> QED
    BY <1>1, PoolInductive, PTL

\* Allocate returns a task to one thread: what it is about to return is on neither
\* list, has no user, and no other thread returns, frees or reclaims it.
THEOREM TasksAreHandedOutOnce == Spec => []HandedOutOnce
  <1>1. PoolInv => HandedOutOnce
    <2> SUFFICES ASSUME PoolInv, NEW t \in Threads, pc[t] \in {"unprotect", "clear"}
                 PROVE  /\ where[task[t]] = "hand" /\ holder[task[t]] = t
                        /\ task[t] # head /\ task[t] # retired
                        /\ \A u \in Threads \ {t} :
                              /\ pc[u] \in {"unprotect", "clear"} => task[u] # task[t]
                              /\ pc[u] \in {"scan", "pushLoad", "pushLink", "pushSwap"} => node[u] # task[t]
      BY DEF HandedOutOnce
    <2>1. InHand(task[t], t)
      BY HeldTasks
    <2>2. task[t] # Null /\ where[task[t]] = "hand"
      BY <2>1, NullIsNoTask DEF InHand
    <2>3. task[t] # head /\ task[t] # retired
      BY <2>2, ListHeads
    <2>4. \A u \in Threads : /\ pc[u] \in {"unprotect", "clear"} => holder[task[u]] = u
                             /\ pc[u] \in {"scan", "pushLoad", "pushLink", "pushSwap"} => holder[node[u]] = u
      BY HeldTasks DEF InHand
    <2> QED
      BY <2>1, <2>3, <2>4 DEF InHand
  <1> QED
    BY <1>1, PoolInductive, PTL
=============================================================================
