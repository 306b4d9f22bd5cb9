---------------------------- MODULE ClientShard ----------------------------
(***************************************************************************)
(* One shard of RpcClient: application threads reserve a slot and post     *)
(* tasks through the lock-free inbox of the shard's coroutine runtime, the *)
(* shard thread drives that runtime (DrainInbox, RunReady, Poll), and one  *)
(* thread stops the client.                                                *)
(*                                                                         *)
(* A posted task becomes a routine that runs, may suspend on I/O, and      *)
(* completes.  eventfd is the wakeup counter of IoManager, of which only   *)
(* "zero or not" matters.                                                  *)
(***************************************************************************)
EXTENDS Naturals, FiniteSets, Sequences, SequencesExt

CONSTANTS
    Tasks,         \* tasks submitted by application threads, one thread each
    Nobody,        \* no owner of the shard mutex
    HardCapacity   \* ClientShard::hard_capacity

ASSUME TasksFinite == IsFiniteSet(Tasks)
ASSUME NobodyIsNoTask == Nobody \notin Tasks
ASSUME CapacityPositive == HardCapacity \in Nat \ {0}

VARIABLES
    clientStopping,  \* RpcClient::stopping_
    accepting,       \* ClientShard::accepting
    stopping,        \* ClientShard::stopping
    mutex,           \* owner of ClientShard::mutex
    reservedCalls,   \* ClientShard::reserved_calls
    taskPc,          \* where each task stands
    head,            \* MpscQueue::head_, newest first
    drained,         \* MpscQueue::drained_, oldest first
    eventfd,         \* IoManager's eventfd is readable
    ready,           \* CoroutineScheduler::ready_queue_
    ownerPc,         \* where the shard thread stands
    joining,         \* the shard thread is in Coroutine::Join, not RunUntil
    runBudget,       \* routines RunReady has still to run
    stopPc           \* where RpcClient::Stop stands

submitVars == <<mutex, reservedCalls>>
inboxVars == <<head, drained, eventfd>>
ownerVars == <<ready, ownerPc, joining, runBudget>>
stopVars == <<clientStopping, accepting, stopping, stopPc>>
vars == <<submitVars, inboxVars, ownerVars, stopVars, taskPc>>

TaskPcs == {"new", "picked", "admitted", "reserved", "post", "push", "inbox", "ready",
            "running", "suspended", "completed", "done", "release", "rejected"}
OwnerPcs == {"loop", "drain", "run", "poll", "closing", "exited"}
StopPcs == {"idle", "refuse", "stop", "wake", "join", "stopped"}

\* live_routine_count_: routines spawned and not finished.
Live == {t \in Tasks : taskPc[t] \in {"ready", "running", "suspended", "completed"}}

\* Tasks between a successful reservation and its release.
Reserving == {t \in Tasks : taskPc[t] \in {"reserved", "post", "push", "inbox", "ready",
                                          "running", "suspended", "completed", "release"}}

Init ==
    /\ clientStopping = FALSE /\ accepting = TRUE /\ stopping = FALSE /\ stopPc = "idle"
    /\ mutex = Nobody /\ reservedCalls = 0
    /\ head = <<>> /\ drained = <<>> /\ eventfd = FALSE
    /\ ready = <<>> /\ ownerPc = "loop" /\ joining = FALSE /\ runBudget = 0
    /\ taskPc = [t \in Tasks |-> "new"]

At(t, pc) == taskPc[t] = pc
Goto(t, pc) == taskPc' = [taskPc EXCEPT ![t] = pc]
-----------------------------------------------------------------------------
(* RpcClient::SubmitTask on an application thread.                         *)

\* PickShard; a stopping client completes the task with an exception.
PickShard(t) ==
    /\ At(t, "new")
    /\ Goto(t, IF clientStopping THEN "rejected" ELSE "picked")
    /\ UNCHANGED <<submitVars, inboxVars, ownerVars, stopVars>>

\* TryReserve, first look at accepting.
AdmitCall(t) ==
    /\ At(t, "picked")
    /\ Goto(t, IF accepting THEN "admitted" ELSE "rejected")
    /\ UNCHANGED <<submitVars, inboxVars, ownerVars, stopVars>>

\* Fault: the capacity is off by one.
TryReserveOneMore(t) ==
    /\ At(t, "admitted")
    /\ \/ /\ reservedCalls <= HardCapacity
          /\ reservedCalls' = reservedCalls + 1
          /\ Goto(t, "reserved")
       \/ /\ reservedCalls > HardCapacity
          /\ Goto(t, "rejected")
          /\ UNCHANGED reservedCalls
    /\ UNCHANGED <<mutex, inboxVars, ownerVars, stopVars>>

\* TryReserve, the compare-exchange loop: it takes a slot or finds none free.
TryReserve(t) ==
    /\ At(t, "admitted")
    /\ \/ /\ reservedCalls < HardCapacity
          /\ reservedCalls' = reservedCalls + 1
          /\ Goto(t, "reserved")
       \/ /\ reservedCalls >= HardCapacity
          /\ Goto(t, "rejected")
          /\ UNCHANGED reservedCalls
    /\ UNCHANGED <<mutex, inboxVars, ownerVars, stopVars>>

\* TryReserve, second look at accepting, after the slot is taken.
RecheckAccepting(t) ==
    /\ At(t, "reserved")
    /\ Goto(t, IF accepting THEN "post" ELSE "release")
    /\ UNCHANGED <<submitVars, inboxVars, ownerVars, stopVars>>

\* Fault: Post does not take the shard mutex.
PostUnlocked(t) ==
    /\ At(t, "post")
    /\ Goto(t, IF accepting THEN "push" ELSE "release")
    /\ UNCHANGED <<submitVars, inboxVars, ownerVars, stopVars>>

\* Post takes the shard mutex and looks at accepting once more.
PostLock(t) ==
    /\ At(t, "post") /\ mutex = Nobody
    /\ \/ accepting /\ mutex' = t /\ Goto(t, "push")
       \/ ~accepting /\ Goto(t, "release") /\ UNCHANGED mutex
    /\ UNCHANGED <<reservedCalls, inboxVars, ownerVars, stopVars>>

\* Coroutine::Submit pushes the node (inbox_closed_ is set only by ~Coroutine).
Push(t) ==
    /\ At(t, "push")
    /\ head' = <<t>> \o head
    /\ Goto(t, "inbox")
    /\ UNCHANGED <<submitVars, drained, eventfd, ownerVars, stopVars>>

\* A thread inside Post that has pushed its node and not yet called Wake.
Waking(t) == mutex = t /\ ~At(t, "push")

\* Fault: Submit does not wake the shard thread.
WakeOwnerSilent(t) ==
    /\ Waking(t)
    /\ mutex' = Nobody
    /\ UNCHANGED <<reservedCalls, inboxVars, ownerVars, stopVars, taskPc>>

\* Coroutine::Submit wakes the shard thread; Post returns true.  The routine may
\* have been drained, run and even finished before this.
WakeOwner(t) ==
    /\ Waking(t)
    /\ eventfd' = TRUE
    /\ mutex' = Nobody
    /\ UNCHANGED <<reservedCalls, head, drained, ownerVars, stopVars, taskPc>>

\* Release of a slot whose task was not posted; the task is rejected.
ReleaseUnposted(t) ==
    /\ At(t, "release")
    /\ reservedCalls' = reservedCalls - 1
    /\ Goto(t, "rejected")
    /\ UNCHANGED <<mutex, inboxVars, ownerVars, stopVars>>
-----------------------------------------------------------------------------
(* The shard thread: Run, DriveUntil and the routines.                     *)

\* The shard thread is in its root context, not inside a routine.
NoneRunning == \A t \in Tasks : taskPc[t] \notin {"running", "completed"}

\* The stop condition of RunUntil and of Join.
StopCondition == IF joining THEN Live = {} ELSE stopping

LeaveDrive == IF joining THEN "exited" ELSE "closing"

\* while (!stop())
LoopTest ==
    /\ ownerPc = "loop"
    /\ ownerPc' = IF StopCondition THEN LeaveDrive ELSE "drain"
    /\ UNCHANGED <<ready, joining, runBudget, submitVars, inboxVars, stopVars, taskPc>>

\* What TryPop takes from: the drained list first, else everything in head_, in
\* the order it was pushed.
Pending == IF drained # <<>> THEN drained ELSE Reverse(head)

\* Fault: TakeAllReversed reads head_ without exchanging it for nullptr.
DrainKeepsHead ==
    /\ ownerPc = "drain"
    /\ \/ /\ Pending # <<>>
          /\ drained' = Tail(Pending)
          /\ ready' = Append(ready, Head(Pending))
          /\ Goto(Head(Pending), "ready")
          /\ UNCHANGED <<ownerPc, runBudget>>
       \/ /\ Pending = <<>>
          /\ ownerPc' = "run" /\ runBudget' = Len(ready)
          /\ UNCHANGED <<drained, ready, taskPc>>
    /\ UNCHANGED <<head, joining, eventfd, submitVars, stopVars>>

\* DrainInbox: TryPop and Spawn until the inbox is empty.
DrainOne ==
    /\ ownerPc = "drain"
    /\ \/ /\ Pending # <<>>
          /\ drained' = Tail(Pending)
          /\ head' = IF drained # <<>> THEN head ELSE <<>>
          /\ ready' = Append(ready, Head(Pending))
          /\ Goto(Head(Pending), "ready")
          /\ UNCHANGED <<ownerPc, runBudget>>
       \/ /\ Pending = <<>>
          /\ ownerPc' = "run" /\ runBudget' = Len(ready)
          /\ UNCHANGED <<head, drained, ready, taskPc>>
    /\ UNCHANGED <<joining, eventfd, submitVars, stopVars>>

\* RunReady resumes the routine at the front of the ready queue.
ResumeFront ==
    /\ ownerPc = "run" /\ runBudget > 0
    /\ NoneRunning
    /\ Goto(Head(ready), "running")
    /\ ready' = Tail(ready)
    /\ runBudget' = runBudget - 1
    /\ UNCHANGED <<ownerPc, joining, submitVars, inboxVars, stopVars>>

\* The routine suspends on a socket, a timer or an event.
Suspend(t) ==
    /\ At(t, "running")
    /\ Goto(t, "suspended")
    /\ UNCHANGED <<submitVars, inboxVars, ownerVars, stopVars>>

\* The closure of SubmitTask: CompleteTask, and only then shard->Release().
Complete(t) ==
    /\ At(t, "running")
    /\ Goto(t, "completed")
    /\ UNCHANGED <<submitVars, inboxVars, ownerVars, stopVars>>

ReleaseSlot(t) ==
    /\ At(t, "completed")
    /\ reservedCalls' = reservedCalls - 1
    /\ Goto(t, "done")
    /\ UNCHANGED <<mutex, inboxVars, ownerVars, stopVars>>

\* Fault: the eventfd is emptied before the wait instead of after it.
RunReadyDoneClears ==
    /\ ownerPc = "run" /\ runBudget = 0
    /\ NoneRunning
    /\ ownerPc' = IF StopCondition THEN LeaveDrive ELSE "poll"
    /\ eventfd' = FALSE
    /\ UNCHANGED <<ready, joining, runBudget, submitVars, head, drained, stopVars, taskPc>>

\* RunReady returns; the second test of stop().
RunReadyDone ==
    /\ ownerPc = "run" /\ runBudget = 0
    /\ NoneRunning
    /\ ownerPc' = IF StopCondition THEN LeaveDrive ELSE "poll"
    /\ UNCHANGED <<ready, joining, runBudget, submitVars, inboxVars, stopVars, taskPc>>

\* Poll returns with whatever became ready; it blocks while nothing did, unless
\* a routine is ready already.
Poll ==
    /\ ownerPc = "poll"
    /\ \E woken \in SUBSET {t \in Tasks : At(t, "suspended")} :
          /\ eventfd \/ woken # {} \/ ready # <<>>
          /\ \E order \in SetToSeqs(woken) : ready' = ready \o order
          /\ taskPc' = [t \in Tasks |-> IF t \in woken THEN "ready" ELSE taskPc[t]]
    /\ eventfd' = FALSE
    /\ ownerPc' = "loop"
    /\ UNCHANGED <<joining, runBudget, submitVars, head, drained, stopVars>>

\* Run closes the connections, which resumes routines that wait for a response.
CloseResumes(t) ==
    /\ ownerPc = "closing" /\ NoneRunning
    /\ At(t, "suspended")
    /\ Goto(t, "running")
    /\ UNCHANGED <<submitVars, inboxVars, ownerVars, stopVars>>

\* All connections are closed; Run goes on to Join.
ConnectionsClosed ==
    /\ ownerPc = "closing" /\ NoneRunning
    /\ joining' = TRUE
    /\ ownerPc' = "loop"
    /\ UNCHANGED <<ready, runBudget, submitVars, inboxVars, stopVars, taskPc>>
-----------------------------------------------------------------------------
(* RpcClient::Stop and ClientShard::Stop.                                  *)

\* stopping_.exchange(true), accepting = false, stopping = true: three stores.
StopClient ==
    /\ \/ stopPc = "idle" /\ clientStopping' = TRUE /\ stopPc' = "refuse"
          /\ UNCHANGED <<accepting, stopping>>
       \/ stopPc = "refuse" /\ accepting' = FALSE /\ stopPc' = "stop"
          /\ UNCHANGED <<clientStopping, stopping>>
       \/ stopPc = "stop" /\ stopping' = TRUE /\ stopPc' = "wake"
          /\ UNCHANGED <<clientStopping, accepting>>
    /\ UNCHANGED <<submitVars, inboxVars, ownerVars, taskPc>>

\* Fault: Stop does not wake the shard thread.
StopSilent ==
    /\ stopPc = "wake" /\ mutex = Nobody
    /\ stopPc' = "join"
    /\ UNCHANGED <<submitVars, inboxVars, ownerVars, clientStopping, accepting, stopping, taskPc>>

\* runtime->Wake() under the shard mutex.
StopWake ==
    /\ stopPc = "wake" /\ mutex = Nobody
    /\ eventfd' = TRUE
    /\ stopPc' = "join"
    /\ UNCHANGED <<submitVars, head, drained, ownerVars, clientStopping, accepting, stopping, taskPc>>

\* thread.join()
StopJoin ==
    /\ stopPc = "join" /\ ownerPc = "exited"
    /\ stopPc' = "stopped"
    /\ UNCHANGED <<submitVars, inboxVars, ownerVars, clientStopping, accepting, stopping, taskPc>>
-----------------------------------------------------------------------------
SubmitStep(t) ==
    \/ PickShard(t) \/ AdmitCall(t) \/ TryReserve(t) \/ RecheckAccepting(t)
    \/ PostLock(t) \/ Push(t) \/ WakeOwner(t) \/ ReleaseUnposted(t)

RoutineStep(t) == Suspend(t) \/ Complete(t) \/ ReleaseSlot(t) \/ CloseResumes(t)

OwnerStep ==
    \/ LoopTest \/ DrainOne \/ ResumeFront \/ RunReadyDone \/ Poll \/ ConnectionsClosed

StopStep == StopClient \/ StopWake \/ StopJoin

\* The client is stopped, or nobody has anything to do for the shard.
Quiet ==
    /\ \A t \in Tasks : taskPc[t] \in {"inbox", "done", "rejected"} /\ mutex # t
    /\ stopPc \in {"idle", "stopped"}

Next ==
    \/ \E t \in Tasks : SubmitStep(t) \/ RoutineStep(t)
    \/ OwnerStep \/ StopStep
    \/ Quiet /\ UNCHANGED vars

Spec == Init /\ [][Next]_vars

\* Threads keep running and a routine that runs gives the thread back (it
\* suspends or completes).  Nothing is assumed of when a wait ends, and whether and
\* when the client is stopped is left open.  Weak fairness is enough for the shard
\* mutex: each thread takes it once.
Fairness ==
    /\ \A t \in Tasks : WF_vars(SubmitStep(t)) /\ WF_vars(RoutineStep(t))
    /\ WF_vars(OwnerStep)
    /\ WF_vars(stopPc # "idle" /\ StopStep)

FairSpec == Spec /\ Fairness
-----------------------------------------------------------------------------
FlagsOK ==
    /\ clientStopping \in BOOLEAN /\ accepting \in BOOLEAN /\ stopping \in BOOLEAN
    /\ eventfd \in BOOLEAN /\ joining \in BOOLEAN

DataOK ==
    /\ mutex \in Tasks \cup {Nobody} /\ reservedCalls \in Nat
    /\ taskPc \in [Tasks -> TaskPcs]
    /\ head \in Seq(Tasks) /\ drained \in Seq(Tasks) /\ ready \in Seq(Tasks)
    /\ runBudget \in Nat /\ ownerPc \in OwnerPcs /\ stopPc \in StopPcs

\* Type invariant of the slots, the inbox, the shard thread and Stop.
TypeOK == FlagsOK /\ DataOK

Holds(queue, t) == \E i \in 1..Len(queue) : queue[i] = t
AllAt(queue, pc) == \A i \in 1..Len(queue) : At(queue[i], pc)
NoDup(queue) == \A i, j \in 1..Len(queue) : i # j => queue[i] # queue[j]

\* reserved_calls counts exactly the calls that hold a slot and never exceeds the
\* capacity, whatever races with Stop: the std::terminate of Release (a release
\* without a reservation) is unreachable.
SlotsBalanced == reservedCalls = Cardinality(Reserving) /\ reservedCalls <= HardCapacity

\* "Submission wakes an idle epoll wait" (coroutine.h:100): when the shard thread
\* blocks in Poll with work in the inbox, or with a stop request, the wakeup has
\* been posted or the thread that must post it is about to.
NoLostWakeup ==
    ownerPc = "poll" =>
        /\ head # <<>> => eventfd \/ \E t \in Tasks : Waking(t)
        /\ stopping /\ ~joining => eventfd \/ stopPc = "wake"

\* A task is in the runtime at most once, and only where its state says: the inbox
\* and the ready queue together hold each posted task exactly once, so no push,
\* drain or wakeup duplicates or loses one.
HeldOnce ==
    /\ NoDup(head) /\ NoDup(drained) /\ NoDup(ready)
    /\ \A i \in 1..Len(head), j \in 1..Len(drained) : head[i] # drained[j]
    /\ AllAt(head, "inbox") /\ AllAt(drained, "inbox") /\ AllAt(ready, "ready")
    /\ \A t \in Tasks : At(t, "inbox") => Holds(head, t) \/ Holds(drained, t)
    /\ \A t \in Tasks : At(t, "ready") => Holds(ready, t)
    /\ ownerPc = "run" => runBudget <= Len(ready)

\* The inductive invariant behind the three: a drained or resumed task is one that
\* holds a slot, and from the moment DrainInbox found the inbox empty a non-empty
\* inbox has a wakeup behind it.
ShardInv ==
    /\ SlotsBalanced /\ HeldOnce
    /\ \A t \in Tasks : At(t, "push") => mutex = t
    /\ ownerPc \in {"run", "poll"} /\ head # <<>> => eventfd \/ \E t \in Tasks : Waking(t)
    /\ ownerPc = "poll" /\ stopping /\ ~joining => eventfd \/ stopPc = "wake"

\* Coroutine::Submit "returns false once the runtime has been asked to stop, so
\* callers can report unavailability instead of silently dropping work"
\* (coroutine.h:97): no task that Submit accepted is left when the thread ends.
NothingDropped == ownerPc = "exited" => \A t \in Tasks : ~At(t, "inbox")

\* While the client is not stopped every submitted task is started or rejected:
\* no wakeup is lost, however the pushes interleave with DrainInbox and Poll.
TaskStarts ==
    \A t \in Tasks : At(t, "picked") ~>
        (taskPc[t] \in {"running", "suspended", "completed", "done", "rejected"} \/ stopping)

\* RpcClient::Stop reaches the shard thread even when it is blocked in Poll: the
\* thread leaves RunUntil (how long Join then takes is up to the routines).
StopObserved == (stopPc # "idle") ~> (joining \/ ownerPc = "closing")
=============================================================================
