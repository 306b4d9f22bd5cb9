------------------------------ MODULE TaskPool ------------------------------
(***************************************************************************)
(* One bucket of the task pool: Allocate takes a task from the reusable    *)
(* list with compare-and-swap, Free puts it on the retired list, and       *)
(* ReclaimRetired moves retired tasks that no hazard record protects back  *)
(* to the reusable list.  Each step is one atomic access of the code; the  *)
(* scan of the hazard records reads them one at a time.  A record that is  *)
(* added during a scan protects nothing at its start, as if it were read   *)
(* first.  Threads of other buckets only free into this one.               *)
(***************************************************************************)
EXTENDS Naturals

CONSTANTS
    Threads,
    MaxTasks,      \* bound: tasks that are ever created
    ReclaimBatch   \* kReclaimBatch

VARIABLES
    head,      \* Bucket::head, the reusable tasks
    retired,   \* Bucket::retired
    sequence,  \* Bucket::retire_sequence modulo ReclaimBatch
    link,      \* Task::next
    hazard,    \* Record::protected_node of each thread
    pc,        \* where each thread is
    task,      \* task in Allocate
    next,      \* next in Allocate
    batch,     \* batch in ReclaimRetired
    scan,      \* records IsProtected has still to read
    node,      \* the task PushList adds, or IsProtected asks about
    onto,      \* the list PushList adds it to
    old,       \* old in PushList
    after,     \* where ReclaimRetired returns to
    where,     \* ghost: what each task is part of
    holder     \* ghost: the thread that holds it in hand or in its batch

lists == <<head, retired, sequence, link>>
locals == <<task, next, batch, scan, node, onto, old, after>>
ghosts == <<where, holder>>
vars == <<lists, hazard, pc, locals, ghosts>>

Tasks == 1..MaxTasks
Null == 0
Init ==
    /\ head = Null /\ retired = Null /\ sequence = 0
    /\ link = [n \in Tasks |-> Null]
    /\ hazard = [t \in Threads |-> Null]
    /\ pc = [t \in Threads |-> "idle"]
    /\ task = [t \in Threads |-> Null] /\ next = [t \in Threads |-> Null]
    /\ batch = [t \in Threads |-> Null] /\ scan = [t \in Threads |-> {}]
    /\ node = [t \in Threads |-> Null] /\ onto = [t \in Threads |-> "free"]
    /\ old = [t \in Threads |-> Null] /\ after = [t \in Threads |-> "idle"]
    /\ where = [n \in Tasks |-> "none"] /\ holder = [n \in Tasks |-> Null]

Goes(t, from, to) == pc[t] = from /\ pc' = [pc EXCEPT ![t] = to]

\* Task n becomes part of w; t has it if w is a hand or a batch.
Place(n, w, t) == where' = [where EXCEPT ![n] = w] /\ holder' = [holder EXCEPT ![n] = t]
-----------------------------------------------------------------------------
(* Allocate.                                                               *)

StartAllocate(t) ==
    /\ Goes(t, "idle", "load")
    /\ UNCHANGED <<lists, hazard, locals, ghosts>>

\* The head, the first time and after the reclaim an empty list leads to.
LoadHead(t) ==
    /\ \/ Goes(t, "load", IF head = Null THEN "emptied" ELSE "protect")
       \/ Goes(t, "reload", IF head = Null THEN "create" ELSE "protect")
    /\ task' = [task EXCEPT ![t] = head]
    /\ UNCHANGED <<lists, hazard, next, batch, scan, node, onto, old, after, ghosts>>

Emptied(t) ==
    /\ Goes(t, "emptied", "exchange")
    /\ hazard' = [hazard EXCEPT ![t] = Null]
    /\ after' = [after EXCEPT ![t] = "reload"]
    /\ UNCHANGED <<lists, task, next, batch, scan, node, onto, old, ghosts>>

\* new TaskT{}
Create(t) ==
    /\ Goes(t, "create", "idle")
    /\ \E n \in Tasks : where[n] = "none" /\ Place(n, "user", Null)
    /\ UNCHANGED <<lists, hazard, locals>>

Protect(t) ==
    /\ Goes(t, "protect", "check")
    /\ hazard' = [hazard EXCEPT ![t] = task[t]]
    /\ UNCHANGED <<lists, locals, ghosts>>

CheckHead(t) ==
    /\ Goes(t, "check", IF head = task[t] THEN "readNext" ELSE "load")
    /\ UNCHANGED <<lists, hazard, locals, ghosts>>

ReadNext(t) ==
    /\ Goes(t, "readNext", "swap")
    /\ next' = [next EXCEPT ![t] = link[task[t]]]
    /\ UNCHANGED <<lists, hazard, task, batch, scan, node, onto, old, after, ghosts>>

SwapHead(t) ==
    /\ IF head = task[t]
       THEN /\ Goes(t, "swap", "unprotect")
            /\ head' = next[t]
            /\ Place(task[t], "hand", t)
       ELSE Goes(t, "swap", "load") /\ UNCHANGED <<head, ghosts>>
    /\ UNCHANGED <<retired, sequence, link, hazard, locals>>

Unprotect(t) ==
    /\ Goes(t, "unprotect", "clear")
    /\ hazard' = [hazard EXCEPT ![t] = Null]
    /\ UNCHANGED <<lists, locals, ghosts>>

\* task->next is cleared and the task returned.
HandOut(t) ==
    /\ Goes(t, "clear", "idle")
    /\ link' = [link EXCEPT ![task[t]] = Null]
    /\ Place(task[t], "user", Null)
    /\ UNCHANGED <<head, retired, sequence, hazard, locals>>
-----------------------------------------------------------------------------
(* Who has a task links it into queues of its own, and frees it.           *)

Enqueue ==
    /\ \E n \in Tasks, m \in Tasks \cup {Null} : where[n] = "user" /\ link' = [link EXCEPT ![n] = m]
    /\ UNCHANGED <<head, retired, sequence, hazard, pc, locals, ghosts>>

\* Reset, and the start of PushRetired.
Free(t) ==
    /\ Goes(t, "idle", "pushLoad")
    /\ \E n \in Tasks :
          /\ where[n] = "user"
          /\ link' = [link EXCEPT ![n] = Null]
          /\ node' = [node EXCEPT ![t] = n]
          /\ Place(n, "hand", t)
    /\ onto' = [onto EXCEPT ![t] = "retired"]
    /\ after' = [after EXCEPT ![t] = "count"]
    /\ UNCHANGED <<head, retired, sequence, hazard, task, next, batch, scan, old>>

\* Every kReclaimBatch-th Free reclaims.
Count(t) ==
    /\ sequence' = (sequence + 1) % ReclaimBatch
    /\ Goes(t, "count", IF sequence' = 0 THEN "exchange" ELSE "idle")
    /\ after' = [after EXCEPT ![t] = "idle"]
    /\ UNCHANGED <<head, retired, link, hazard, task, next, batch, scan, node, onto, old, ghosts>>
-----------------------------------------------------------------------------
(* PushList.                                                               *)

Entry(list) == IF list = "free" THEN head ELSE retired

PushLoad(t) ==
    /\ Goes(t, "pushLoad", "pushLink")
    /\ old' = [old EXCEPT ![t] = Entry(onto[t])]
    /\ UNCHANGED <<lists, hazard, task, next, batch, scan, node, onto, after, ghosts>>

PushLink(t) ==
    /\ Goes(t, "pushLink", "pushSwap")
    /\ link' = [link EXCEPT ![node[t]] = old[t]]
    /\ UNCHANGED <<head, retired, sequence, hazard, locals, ghosts>>

\* compare_exchange_weak, which may fail for no reason.  Free counts after its push,
\* ReclaimRetired goes on with its batch.
PushSwap(t) ==
    \/ /\ Entry(onto[t]) = old[t]
       /\ Goes(t, "pushSwap", IF after[t] = "count" THEN "count" ELSE "walk")
       /\ head' = IF onto[t] = "free" THEN node[t] ELSE head
       /\ retired' = IF onto[t] = "free" THEN retired ELSE node[t]
       /\ Place(node[t], onto[t], Null)
       /\ UNCHANGED <<sequence, link, hazard, locals>>
    \/ /\ Goes(t, "pushSwap", "pushLink")
       /\ old' = [old EXCEPT ![t] = Entry(onto[t])]
       /\ UNCHANGED <<lists, hazard, task, next, batch, scan, node, onto, after, ghosts>>
-----------------------------------------------------------------------------
(* ReclaimRetired.                                                         *)

Exchange(t) ==
    /\ Goes(t, "exchange", "walk")
    /\ batch' = [batch EXCEPT ![t] = retired]
    /\ retired' = Null
    /\ where' = [n \in Tasks |-> IF where[n] = "retired" THEN "batch" ELSE where[n]]
    /\ holder' = [n \in Tasks |-> IF where[n] = "retired" THEN t ELSE holder[n]]
    /\ UNCHANGED <<head, sequence, link, hazard, task, next, scan, node, onto, old, after>>

\* The next task of the batch, or the end of it.
Walk(t) ==
    \/ /\ batch[t] # Null
       /\ Goes(t, "walk", "scan")
       /\ node' = [node EXCEPT ![t] = batch[t]]
       /\ batch' = [batch EXCEPT ![t] = link[batch[t]]]
       /\ scan' = [scan EXCEPT ![t] = Threads]
       /\ Place(batch[t], "hand", t)
       /\ UNCHANGED <<lists, hazard, task, next, onto, old, after>>
    \/ /\ batch[t] = Null
       /\ Goes(t, "walk", after[t])
       /\ UNCHANGED <<lists, hazard, locals, ghosts>>

\* IsProtected reads one record, or has read them all.
Scan(t) ==
    /\ \/ \E u \in scan[t] :
             /\ hazard[u] = node[t]
             /\ Goes(t, "scan", "pushLoad")
             /\ onto' = [onto EXCEPT ![t] = "retired"]
             /\ UNCHANGED scan
       \/ \E u \in scan[t] :
             /\ hazard[u] # node[t]
             /\ Goes(t, "scan", "scan")
             /\ scan' = [scan EXCEPT ![t] = @ \ {u}]
             /\ UNCHANGED onto
       \/ /\ scan[t] = {}
          /\ Goes(t, "scan", "pushLoad")
          /\ onto' = [onto EXCEPT ![t] = "free"]
          /\ UNCHANGED scan
    /\ UNCHANGED <<lists, hazard, task, next, batch, node, old, after, ghosts>>
-----------------------------------------------------------------------------
AllocateStep(t) ==
    \/ StartAllocate(t) \/ LoadHead(t) \/ Emptied(t) \/ Create(t) \/ Protect(t) \/ CheckHead(t)
    \/ ReadNext(t) \/ SwapHead(t) \/ Unprotect(t) \/ HandOut(t)

FreeStep(t) ==
    \/ Free(t) \/ Count(t) \/ PushLoad(t) \/ PushLink(t) \/ PushSwap(t)
    \/ Exchange(t) \/ Walk(t) \/ Scan(t)

Next == Enqueue \/ \E t \in Threads : AllocateStep(t) \/ FreeStep(t)

Spec == Init /\ [][Next]_vars
-----------------------------------------------------------------------------
\* The swap in Allocate installs what follows the task now, not what followed it
\* in an earlier life: the task whose next was read cannot have come back.
NoStaleNext == \A t \in Threads : pc[t] = "swap" /\ head = task[t] => next[t] = link[task[t]]

\* A task that Allocate is about to return is on no list, with no user and with no
\* other thread.
HandedOutOnce ==
    \A t \in Threads : pc[t] \in {"unprotect", "clear"} =>
        /\ where[task[t]] = "hand" /\ holder[task[t]] = t
        /\ task[t] # head /\ task[t] # retired
        /\ \A u \in Threads \ {t} :
              /\ pc[u] \in {"unprotect", "clear"} => task[u] # task[t]
              /\ pc[u] \in {"scan", "pushLoad", "pushLink", "pushSwap"} => node[u] # task[t]
=============================================================================
