------------------------------ MODULE CoScope ------------------------------
(***************************************************************************)
(* A CoScope and its Gather: one user thread dispatches batches of tasks   *)
(* and joins them, coroutine threads run and complete the tasks.           *)
(*                                                                         *)
(* mode is the notification mode a Gather takes at construction.  In       *)
(* "ConditionVariable" the counter is decremented under gather.mutex; in   *)
(* "SpinSemaphore" the counter and wait_state are atomics and a semaphore  *)
(* carries the wakeup.                                                     *)
(*                                                                         *)
(* The atomics of the spin path are release stores and acquire loads, and  *)
(* on x86 (the only target: batch_waiter.h uses _mm_pause) a release store *)
(* is a plain mov that a later load may overtake.  armBuffered is that     *)
(* store buffer; read-modify-write instructions drain it.                  *)
(***************************************************************************)
EXTENDS Naturals, FiniteSets

CONSTANTS
    Tasks,      \* the tasks the user may dispatch, each once
    User,       \* the user thread, as an owner of gather.mutex
    NoTask      \* nullptr / nobody

ASSUME TasksAssumption == IsFiniteSet(Tasks)
ASSUME NamesAssumption == User \notin Tasks /\ NoTask \notin Tasks /\ User # NoTask

VARIABLES
    mode,            \* Gather::notify_mode, chosen at construction
    remaining,       \* Gather::remaining
    mutex,           \* owner of Gather::mutex, NoTask when free
    waitState,       \* Gather::wait_state
    armBuffered,     \* the store of Armed is still in the joiner's store buffer
    semaphore,       \* BatchWaiter::semaphore_
    firstException,  \* Gather::first_exception: the task that threw it
    joined,          \* CoScope::joined_
    userPc,          \* where the user thread stands
    current,         \* the task Dispatch is submitting
    taskPc,          \* where each task stands
    threw            \* history: the tasks of the batch that threw

gatherVars == <<mode, remaining, mutex, waitState, armBuffered, semaphore, firstException>>
userVars == <<joined, userPc, current>>
vars == <<gatherVars, userVars, taskPc, threw>>

UserPcs == {"idle", "submit", "inline", "lock", "check", "blocked", "arm", "armed",
            "exchange", "semWait", "semTake", "setIdle", "relock", "rethrow"}
TaskPcs == {"unused", "dispatched", "queued", "throwing", "finish", "unlock", "cas", "post", "done"}

\* Tasks counted in remaining: dispatched, not yet decremented.
Outstanding == {t \in Tasks : taskPc[t] \in {"dispatched", "queued", "throwing", "finish"}}

Init ==
    /\ mode \in {"ConditionVariable", "SpinSemaphore"}
    /\ remaining = 0 /\ mutex = NoTask /\ waitState = "Idle" /\ armBuffered = FALSE
    /\ semaphore = 0 /\ firstException = NoTask
    /\ joined = FALSE /\ userPc = "idle" /\ current = NoTask
    /\ taskPc = [t \in Tasks |-> "unused"]
    /\ threw = {}
-----------------------------------------------------------------------------
(* The user thread: Dispatch, SubmitTask and Join.                         *)

\* CoScope::Dispatch up to the submission; a joined scope starts a new batch.
Dispatch(t) ==
    /\ userPc = "idle"
    /\ taskPc[t] = "unused"
    /\ remaining' = remaining + 1
    /\ firstException' = IF joined THEN NoTask ELSE firstException
    /\ threw' = IF joined THEN {} ELSE threw
    /\ joined' = FALSE
    /\ userPc' = "submit" /\ current' = t
    /\ taskPc' = [taskPc EXCEPT ![t] = "dispatched"]
    /\ UNCHANGED <<mode, mutex, waitState, armBuffered, semaphore>>

\* CoScope::SubmitTask, accepted: the task now belongs to a coroutine thread.
Submit ==
    /\ userPc = "submit"
    /\ taskPc' = [taskPc EXCEPT ![current] = "queued"]
    /\ userPc' = "idle" /\ current' = NoTask
    /\ UNCHANGED <<gatherVars, joined, threw>>

\* CoScope::SubmitTask, rejected: the user thread completes the task itself,
\* with an exception.
Reject ==
    /\ userPc = "submit"
    /\ taskPc' = [taskPc EXCEPT ![current] = "throwing"]
    /\ threw' = threw \cup {current}
    /\ userPc' = "inline"
    /\ UNCHANGED <<gatherVars, joined, current>>

RejectDone ==
    /\ userPc = "inline"
    /\ taskPc[current] = "done"
    /\ userPc' = "idle" /\ current' = NoTask
    /\ UNCHANGED <<gatherVars, joined, taskPc, threw>>

JoinStart ==
    /\ userPc = "idle" /\ ~joined
    /\ joined' = TRUE
    /\ userPc' = "lock"
    /\ UNCHANGED <<gatherVars, current, taskPc, threw>>

\* Take gather_.mutex; the semaphore mode lets go of it at once.
JoinLock ==
    /\ userPc = "lock" /\ mutex = NoTask
    /\ \/ /\ mode = "ConditionVariable"
          /\ mutex' = User /\ userPc' = "check"
       \/ /\ mode = "SpinSemaphore"
          /\ userPc' = "arm" /\ UNCHANGED mutex
    /\ UNCHANGED <<mode, remaining, waitState, armBuffered, semaphore, firstException,
                   joined, current, taskPc, threw>>

\* The predicate of cv.wait, evaluated with the mutex held.
JoinCvCheck ==
    /\ userPc = "check"
    /\ \/ remaining = 0 /\ userPc' = "rethrow" /\ UNCHANGED mutex
       \/ remaining # 0 /\ userPc' = "blocked" /\ mutex' = NoTask
    /\ UNCHANGED <<mode, remaining, waitState, armBuffered, semaphore, firstException,
                   joined, current, taskPc, threw>>

\* Fault: a wakeup is taken for completion, the predicate is not evaluated again.
SpuriousWakeTrusted ==
    /\ userPc = "blocked"
    /\ userPc' = "rethrow"
    /\ UNCHANGED <<gatherVars, joined, current, taskPc, threw>>

\* cv.wait may also return without a notification.
SpuriousWake ==
    /\ userPc = "blocked"
    /\ userPc' = "lock"
    /\ UNCHANGED <<gatherVars, joined, current, taskPc, threw>>

\* wait_state.store(Armed, release)
JoinArm ==
    /\ userPc = "arm"
    /\ armBuffered' = TRUE
    /\ userPc' = "armed"
    /\ UNCHANGED <<mode, remaining, mutex, waitState, semaphore, firstException,
                   joined, current, taskPc, threw>>

\* The store buffer of the joining thread drains.
FlushArm ==
    /\ armBuffered
    /\ waitState' = "Armed" /\ armBuffered' = FALSE
    /\ UNCHANGED <<mode, remaining, mutex, semaphore, firstException, userVars, taskPc, threw>>

\* remaining.load(acquire) != 0
JoinSpinCheck ==
    /\ userPc = "armed"
    /\ userPc' = IF remaining # 0 THEN "semWait" ELSE "exchange"
    /\ UNCHANGED <<gatherVars, joined, current, taskPc, threw>>

\* Fault: the token of a completion that won the race is left behind.
JoinExchangeLeavesToken ==
    /\ userPc = "exchange" /\ ~armBuffered
    /\ waitState' = "Idle"
    /\ userPc' = "relock"
    /\ UNCHANGED <<mode, remaining, mutex, armBuffered, semaphore, firstException,
                   joined, current, taskPc, threw>>

\* wait_state.exchange(Idle)
JoinExchange ==
    /\ userPc = "exchange" /\ ~armBuffered
    /\ waitState' = "Idle"
    /\ userPc' = IF waitState = "Signaled" THEN "semTake" ELSE "relock"
    /\ UNCHANGED <<mode, remaining, mutex, armBuffered, semaphore, firstException,
                   joined, current, taskPc, threw>>

\* BatchWaiter::Wait, by spinning on sem_trywait or by sem_wait.
JoinSemWait ==
    /\ userPc \in {"semWait", "semTake"} /\ ~armBuffered
    /\ semaphore > 0
    /\ semaphore' = semaphore - 1
    /\ userPc' = IF userPc = "semWait" THEN "setIdle" ELSE "relock"
    /\ UNCHANGED <<mode, remaining, mutex, waitState, armBuffered, firstException,
                   joined, current, taskPc, threw>>

JoinSetIdle ==
    /\ userPc = "setIdle"
    /\ waitState' = "Idle"
    /\ userPc' = "relock"
    /\ UNCHANGED <<mode, remaining, mutex, armBuffered, semaphore, firstException,
                   joined, current, taskPc, threw>>

JoinRelock ==
    /\ userPc = "relock" /\ mutex = NoTask
    /\ mutex' = User
    /\ userPc' = "rethrow"
    /\ UNCHANGED <<mode, remaining, waitState, armBuffered, semaphore, firstException,
                   joined, current, taskPc, threw>>

\* Move the first exception out, release the mutex, return (or throw).
JoinReturn ==
    /\ userPc = "rethrow"
    /\ firstException' = NoTask
    /\ mutex' = NoTask
    /\ userPc' = "idle"
    /\ UNCHANGED <<mode, remaining, waitState, armBuffered, semaphore,
                   joined, current, taskPc, threw>>
-----------------------------------------------------------------------------
(* A task: its closure runs on a coroutine thread, then CompleteTask.      *)

\* Fault: the wrapper swallows what the closure throws.
RunTaskSwallows(t) ==
    /\ taskPc[t] = "queued"
    /\ taskPc' = [taskPc EXCEPT ![t] = "finish"]
    /\ threw' \in {threw, threw \cup {t}}
    /\ UNCHANGED <<gatherVars, userVars>>

\* The wrapper of SubmitTask runs the closure and keeps what it throws.
RunTask(t) ==
    /\ taskPc[t] = "queued"
    /\ \/ taskPc' = [taskPc EXCEPT ![t] = "finish"] /\ UNCHANGED threw
       \/ taskPc' = [taskPc EXCEPT ![t] = "throwing"] /\ threw' = threw \cup {t}
    /\ UNCHANGED <<gatherVars, userVars>>

\* CompleteTask keeps only the first exception, under the mutex.
RecordException(t) ==
    /\ taskPc[t] = "throwing" /\ mutex = NoTask
    /\ firstException' = IF firstException = NoTask THEN t ELSE firstException
    /\ taskPc' = [taskPc EXCEPT ![t] = "finish"]
    /\ UNCHANGED <<mode, remaining, mutex, waitState, armBuffered, semaphore, userVars, threw>>

\* Fault: the counter is decremented without the mutex, before the last touch.
DecrementUnlocked(t) ==
    /\ mode = "ConditionVariable"
    /\ taskPc[t] = "finish"
    /\ remaining' = remaining - 1
    /\ userPc' = IF remaining = 1 /\ userPc = "blocked" THEN "lock" ELSE userPc
    /\ taskPc' = [taskPc EXCEPT ![t] = "unlock"]
    /\ UNCHANGED <<mode, mutex, waitState, armBuffered, semaphore, firstException, joined, current, threw>>

\* Fault: the last completion does not notify.
DecrementSilently(t) ==
    /\ mode = "ConditionVariable"
    /\ taskPc[t] = "finish" /\ mutex = NoTask
    /\ mutex' = t
    /\ remaining' = remaining - 1
    /\ taskPc' = [taskPc EXCEPT ![t] = "unlock"]
    /\ UNCHANGED <<mode, waitState, armBuffered, semaphore, firstException, userVars, threw>>

\* CompleteTask, condition variable: lock, decrement, notify_one at zero.
DecrementLocked(t) ==
    /\ mode = "ConditionVariable"
    /\ taskPc[t] = "finish" /\ mutex = NoTask
    /\ mutex' = t
    /\ remaining' = remaining - 1
    /\ userPc' = IF remaining = 1 /\ userPc = "blocked" THEN "lock" ELSE userPc
    /\ taskPc' = [taskPc EXCEPT ![t] = "unlock"]
    /\ UNCHANGED <<mode, waitState, armBuffered, semaphore, firstException, joined, current, threw>>

\* The lock_guard of CompleteTask is destroyed: the last touch of the Gather.
UnlockGather(t) ==
    /\ taskPc[t] = "unlock"
    /\ mutex' = NoTask
    /\ taskPc' = [taskPc EXCEPT ![t] = "done"]
    /\ UNCHANGED <<mode, remaining, waitState, armBuffered, semaphore, firstException, userVars, threw>>

\* CompleteTask, semaphore: remaining.fetch_sub(1)
DecrementAtomic(t) ==
    /\ mode = "SpinSemaphore"
    /\ taskPc[t] = "finish"
    /\ remaining' = remaining - 1
    /\ taskPc' = [taskPc EXCEPT ![t] = IF remaining = 1 THEN "cas" ELSE "done"]
    /\ UNCHANGED <<mode, mutex, waitState, armBuffered, semaphore, firstException, userVars, threw>>

\* wait_state.compare_exchange_strong(Armed, Signaled)
SignalCas(t) ==
    /\ taskPc[t] = "cas"
    /\ \/ /\ waitState = "Armed"
          /\ waitState' = "Signaled"
          /\ taskPc' = [taskPc EXCEPT ![t] = "post"]
       \/ /\ waitState # "Armed"
          /\ taskPc' = [taskPc EXCEPT ![t] = "done"]
          /\ UNCHANGED waitState
    /\ UNCHANGED <<mode, remaining, mutex, armBuffered, semaphore, firstException, userVars, threw>>

\* BatchWaiter::Signal
SignalPost(t) ==
    /\ taskPc[t] = "post"
    /\ semaphore' = semaphore + 1
    /\ taskPc' = [taskPc EXCEPT ![t] = "done"]
    /\ UNCHANGED <<mode, remaining, mutex, waitState, armBuffered, firstException, userVars, threw>>
-----------------------------------------------------------------------------
JoinStep ==
    \/ JoinLock \/ JoinCvCheck \/ JoinArm \/ JoinSpinCheck \/ JoinExchange
    \/ JoinSemWait \/ JoinSetIdle \/ JoinRelock \/ JoinReturn

TaskStep(t) ==
    \/ RunTask(t) \/ RecordException(t) \/ DecrementLocked(t) \/ UnlockGather(t)
    \/ DecrementAtomic(t) \/ SignalCas(t) \/ SignalPost(t)

\* Every task was dispatched and joined: the program may end here.
Finished == userPc = "idle" /\ joined /\ \A t \in Tasks : taskPc[t] = "done"

Next ==
    \/ \E t \in Tasks : Dispatch(t) \/ TaskStep(t)
    \/ Submit \/ Reject \/ RejectDone \/ JoinStart \/ JoinStep
    \/ SpuriousWake \/ FlushArm
    \/ Finished /\ UNCHANGED vars

Spec == Init /\ [][Next]_vars

\* The threads keep running: every coroutine thread runs its tasks to
\* completion, the joining thread runs, and a store buffer drains.  Strong
\* fairness of a task is that of the mutex: a thread waiting for a mutex that is
\* released again and again (by a join woken spuriously) gets it in the end.
Fairness ==
    /\ \A t \in Tasks : SF_vars(TaskStep(t))
    /\ WF_vars(JoinStep) /\ WF_vars(Submit \/ Reject) /\ WF_vars(RejectDone)
    /\ WF_vars(FlushArm)

FairSpec == Spec /\ Fairness
-----------------------------------------------------------------------------
\* Type invariant of the Gather, the user thread and the tasks.
TypeOK ==
    /\ mode \in {"ConditionVariable", "SpinSemaphore"}
    /\ remaining \in Nat /\ semaphore \in Nat
    /\ mutex \in Tasks \cup {User, NoTask}
    /\ waitState \in {"Idle", "Armed", "Signaled"} /\ armBuffered \in BOOLEAN
    /\ firstException \in Tasks \cup {NoTask}
    /\ joined \in BOOLEAN /\ userPc \in UserPcs /\ current \in Tasks \cup {NoTask}
    /\ taskPc \in [Tasks -> TaskPcs] /\ threw \in SUBSET Tasks

\* "Block until all submitted tasks complete" (co_scope.h:65): when Join has
\* returned, no dispatched task still runs or waits to be counted.
JoinWaitsForBatch == userPc = "idle" /\ joined => Outstanding = {}

\* The scope may be destroyed as soon as Join returns (~CoScope): with a condition
\* variable no completer touches the Gather after that.
JoinReleasesGather ==
    mode = "ConditionVariable" /\ userPc = "idle" /\ joined => \A t \in Tasks : taskPc[t] \in {"unused", "done"}

\* "rethrow the first exception" (co_scope.h:65): what Join is about to throw was
\* thrown by a task of this batch, and nothing the batch threw is lost.
ExceptionReported ==
    mode = "ConditionVariable" /\ userPc = "rethrow" =>
        /\ firstException = NoTask => threw = {}
        /\ firstException # NoTask => firstException \in threw

\* "Consume its already-posted token so it cannot leak into the next batch"
\* (co_scope.cpp:59): between two Joins the semaphore is empty and stays empty.
NoTokenLeak ==
    userPc \in {"idle", "submit", "inline", "lock", "arm", "relock", "rethrow"} =>
        semaphore = 0 /\ \A t \in Tasks : taskPc[t] # "post"

\* The inductive invariant behind JoinReleasesGather and ExceptionReported in the
\* condition variable mode: the counter counts the outstanding tasks, the mutex is
\* held exactly where the code holds it, so a joiner that sees zero under the
\* mutex sees nobody inside the Gather; and a thrown exception is either still to
\* be recorded by its task or already kept.
CvInv ==
    /\ mode = "ConditionVariable"
    /\ remaining = Cardinality(Outstanding)
    /\ userPc \in {"idle", "submit", "inline", "lock", "check", "blocked", "rethrow"}
    /\ userPc \in {"submit", "inline"} => current \in Tasks
    /\ userPc = "submit" => taskPc[current] = "dispatched"
    /\ userPc \in {"submit", "inline"} => ~joined
    /\ userPc \in {"lock", "check", "blocked", "rethrow"} => joined
    /\ \A t \in Tasks : taskPc[t] = "throwing" => t \in threw
    /\ mutex = User <=> userPc \in {"check", "rethrow"}
    /\ \A t \in Tasks : mutex = t <=> taskPc[t] = "unlock"
    /\ \A t \in Tasks : taskPc[t] \notin {"cas", "post"}
    /\ userPc = "rethrow" => Outstanding = {}
    /\ JoinReleasesGather
    /\ firstException # NoTask => firstException \in threw
    /\ \/ userPc = "idle" /\ joined
       \/ \A t \in threw : taskPc[t] = "throwing" \/ firstException # NoTask

\* CvInv is an invariant of every Gather built with a condition variable.
CvSafe == mode = "ConditionVariable" => CvInv

\* A Join on a condition variable that has started returns, provided the tasks
\* run: the last completion always wakes it.
CvJoinReturns == (mode = "ConditionVariable" /\ userPc # "idle") ~> (userPc = "idle")

\* "Arm before checking the counter. If completion wins the race, it changes Armed
\* to Signaled and leaves one semaphore token for us" (co_scope.cpp:50): a Join
\* that has started returns in every mode.
JoinReturns == (userPc # "idle") ~> (userPc = "idle")
=============================================================================
