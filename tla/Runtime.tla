------------------------------- MODULE Runtime -------------------------------
(***************************************************************************)
(* The coroutine runtime of one thread: routines that resume each other,   *)
(* the ready queue, the stacks they share, and their waits for             *)
(* descriptors, timers and the flush.  Routines run until they suspend;    *)
(* the code of a routine, and of the thread between two rounds of its      *)
(* loop, is any sequence of the calls below.  A call that throws changes   *)
(* nothing and is left out; time is left out, a timer may be due at any    *)
(* Poll.  A private stack is a shared one that no other routine has.       *)
(***************************************************************************)
EXTENDS Naturals, Sequences, FiniteSets

CONSTANTS
    MaxRoutines,   \* bound: routine objects
    Stacks,        \* shared_stacks_
    Fds            \* descriptors

VARIABLES
    state,        \* state_ of each routine, FINISHED also if there is none
    ready,        \* ready_queue_
    calls,        \* call_stack_ without the root: who resumed whom, the running one first
    live,         \* live_routine_count_
    stackOf,      \* shared_stack_ of each routine
    occupant,     \* SharedStackSlot::occupant
    memory,       \* whose frames, as they are now, the stack holds
    saved,        \* whether stack_snapshot_ holds what the routine needs of its stack
    io,           \* io_wait_: what the operation of the routine waits for
    waiter,       \* FdContext::read and write
    registered,   \* FdContext::registered
    timed,        \* routines whose operation is in the timer wheel
    sleeping,     \* routines that are in the timer wheel themselves
    flush,        \* flush_queue_
    poll          \* where the thread is in Poll

stackVars == <<stackOf, occupant, memory, saved>>
waitVars == <<io, waiter, registered, timed, sleeping>>
vars == <<state, ready, calls, live, stackVars, waitVars, flush, poll>>

Routines == 1..MaxRoutines
Null == 0
Ops == Fds \X {"READ", "WRITE"}
NoOp == <<Null, "NONE">>

Init ==
    /\ state = [r \in Routines |-> "FINISHED"]
    /\ ready = <<>> /\ calls = <<>> /\ live = 0
    /\ stackOf \in [Routines -> Stacks]
    /\ occupant = [s \in Stacks |-> Null] /\ memory = [s \in Stacks |-> Null]
    /\ saved = [r \in Routines |-> FALSE]
    /\ io = [r \in Routines |-> NoOp]
    /\ waiter = [op \in Ops |-> Null]
    /\ registered = [fd \in Fds |-> FALSE]
    /\ timed = {} /\ sleeping = {} /\ flush = {}
    /\ poll = "no"

\* Code of a routine or of the thread runs, not Poll.
User == poll = "no"
\* A routine runs.
Runs == User /\ calls # <<>>
Current == Head(calls)
-----------------------------------------------------------------------------
(* PrepareSharedStack, and the copy that coroutine_context_switch makes: r *)
(* is to run; st are the states by which SaveSharedStack tells whether     *)
(* there is anything to save.                                              *)

OccupantWith(r) == [occupant EXCEPT ![stackOf[r]] = r]

MemoryWith(r) ==
    [memory EXCEPT ![stackOf[r]] = IF occupant[stackOf[r]] = r THEN @ ELSE IF saved[r] THEN r ELSE Null]

SavedWith(r, st) ==
    [q \in Routines |->
        IF q = r THEN FALSE
        ELSE IF q = occupant[stackOf[r]] /\ st[q] \notin {"INIT", "FINISHED"} THEN memory[stackOf[r]] = q
        ELSE saved[q]]

SwitchTo(r, st) ==
    /\ occupant' = OccupantWith(r) /\ memory' = MemoryWith(r) /\ saved' = SavedWith(r, st)
    /\ UNCHANGED stackOf

\* CoroutineScheduler::Resume.
Resumes(r) ==
    /\ SwitchTo(r, state)
    /\ state' = [state EXCEPT ![r] = "RUNNING"]
    /\ calls' = <<r>> \o calls

\* YieldCurrent: whoever resumed the routine goes on.
Suspends(waiting) ==
    /\ state' = [state EXCEPT ![Current] = waiting]
    /\ calls' = Tail(calls)
    /\ IF Tail(calls) = <<>> THEN UNCHANGED stackVars ELSE SwitchTo(Head(Tail(calls)), state')
    /\ UNCHANGED live

\* MakeReady of a routine that waits; EnqueueReady of a new one.
MakeReady(r) ==
    /\ state' = [state EXCEPT ![r] = "READY"]
    /\ ready' = Append(ready, r)
-----------------------------------------------------------------------------
(* Routines.                                                               *)

\* The pool gives a routine again only when nobody else refers to it.
Acquire(r) ==
    /\ User /\ state[r] = "FINISHED" /\ r \notin flush
    /\ saved' = [saved EXCEPT ![r] = TRUE]
    /\ UNCHANGED <<stackOf, occupant, memory>>

CreateCo(r) ==
    /\ Acquire(r)
    /\ state' = [state EXCEPT ![r] = "INIT"]
    /\ UNCHANGED <<ready, calls, live, waitVars, flush, poll>>

Spawn(r) ==
    /\ Acquire(r)
    /\ MakeReady(r)
    /\ live' = live + 1
    /\ UNCHANGED <<calls, waitVars, flush, poll>>

\* Coroutine::Resume, in the middle of the code that calls it; a sleeping routine
\* is taken out of the timer wheel, a queued one is left to RunReady.
Resume(r) ==
    /\ User /\ state[r] \in {"INIT", "WAIT_EVENT", "WAIT_TIMER"}
    /\ Resumes(r)
    /\ live' = IF state[r] = "INIT" THEN live + 1 ELSE live
    /\ sleeping' = sleeping \ {r}
    /\ UNCHANGED <<ready, io, waiter, registered, timed, flush, poll>>

RunReady ==
    /\ User /\ calls = <<>> /\ ready # <<>>
    /\ Resumes(Head(ready))
    /\ ready' = Tail(ready)
    /\ UNCHANGED <<live, waitVars, flush, poll>>

Yield ==
    /\ Runs
    /\ Suspends("WAIT_EVENT")
    /\ UNCHANGED <<ready, waitVars, flush, poll>>

\* FINISHED, and FinishRoutine in the code that resumed it.
Finish ==
    LET back == IF Tail(calls) = <<>> THEN occupant ELSE OccupantWith(Head(Tail(calls)))
    IN  /\ Runs
        /\ state' = [state EXCEPT ![Current] = "FINISHED"]
        /\ calls' = Tail(calls)
        /\ live' = live - 1
        /\ occupant' = [s \in Stacks |-> IF back[s] = Current THEN Null ELSE back[s]]
        /\ IF Tail(calls) = <<>> THEN UNCHANGED <<memory, saved>>
           ELSE memory' = MemoryWith(Head(Tail(calls))) /\ saved' = SavedWith(Head(Tail(calls)), state')
        /\ UNCHANGED <<ready, stackOf, waitVars, flush, poll>>
-----------------------------------------------------------------------------
(* Waits.                                                                  *)

\* Register with UpdateInterest: one waiter for each direction of a descriptor.
Register(op, deadline) ==
    /\ waiter[op] = Null
    /\ waiter' = [waiter EXCEPT ![op] = Current]
    /\ registered' = [registered EXCEPT ![op[1]] = TRUE]
    /\ timed' = IF deadline THEN timed \cup {Current} ELSE timed

Await(op, deadline) ==
    /\ Runs
    /\ Register(op, deadline)
    /\ io' = [io EXCEPT ![Current] = op]
    /\ Suspends("WAIT_IO")
    /\ UNCHANGED <<ready, sleeping, flush, poll>>

YieldFor ==
    /\ Runs /\ Current \notin sleeping
    /\ sleeping' = sleeping \cup {Current}
    /\ Suspends("WAIT_TIMER")
    /\ UNCHANGED <<ready, io, waiter, registered, timed, flush, poll>>

YieldUntilFlush ==
    /\ Runs /\ Current \notin flush
    /\ flush' = flush \cup {Current}
    /\ Suspends("WAIT_EVENT")
    /\ UNCHANGED <<ready, waitVars, poll>>

ScheduleAtFlush(r) ==
    /\ User /\ state[r] = "WAIT_EVENT"
    /\ flush' = flush \cup {r}
    /\ UNCHANGED <<state, ready, calls, live, stackVars, waitVars, poll>>

\* CompleteWait of the operation of r: its timer, its place at the descriptor, the
\* routine's pointer to it; and the routine is ready.
CompleteWait(r) ==
    /\ timed' = timed \ {r}
    /\ waiter' = [op \in Ops |-> IF waiter[op] = r /\ io[r] = op THEN Null ELSE waiter[op]]
    /\ io' = [io EXCEPT ![r] = NoOp]
    /\ MakeReady(r)
    /\ UNCHANGED <<calls, live, stackVars, sleeping, flush>>

CancelWait(r) ==
    /\ User /\ state[r] = "WAIT_IO" /\ io[r] # NoOp
    /\ CompleteWait(r)
    /\ UNCHANGED <<registered, poll>>

Enqueue(queue, r) == IF r = Null THEN queue ELSE Append(queue, r)

\* Before close(fd): both operations are cancelled.
CancelFd(fd) ==
    LET read == waiter[<<fd, "READ">>]
        write == waiter[<<fd, "WRITE">>]
        both == {read, write} \ {Null}
    IN  /\ User
        /\ registered' = [registered EXCEPT ![fd] = FALSE]
        /\ waiter' = [waiter EXCEPT ![<<fd, "READ">>] = Null, ![<<fd, "WRITE">>] = Null]
        /\ timed' = timed \ both
        /\ io' = [r \in Routines |-> IF r \in both THEN NoOp ELSE io[r]]
        /\ state' = [r \in Routines |-> IF r \in both THEN "READY" ELSE state[r]]
        /\ ready' = Enqueue(Enqueue(ready, read), write)
        /\ UNCHANGED <<calls, live, stackVars, sleeping, flush, poll>>
-----------------------------------------------------------------------------
(* Poll: what epoll_wait found, then the flush, then the timers.           *)

StartPoll ==
    /\ User /\ calls = <<>>
    /\ poll' = "io"
    /\ UNCHANGED <<state, ready, calls, live, stackVars, waitVars, flush>>

\* CompleteIo for one direction.  A descriptor that hung up and has no waiter left
\* is taken out of the epoll set.
CompleteIo(op) ==
    /\ poll = "io" /\ registered[op[1]] /\ waiter[op] # Null
    /\ CompleteWait(waiter[op])
    /\ \E hangup \in BOOLEAN :
          registered' = [registered EXCEPT ![op[1]] =
                            ~(hangup /\ \A d \in {"READ", "WRITE"} : waiter'[<<op[1], d>>] = Null)]
    /\ UNCHANGED poll

Detach(fd) ==
    /\ poll = "io" /\ registered[fd]
    /\ waiter[<<fd, "READ">>] = Null /\ waiter[<<fd, "WRITE">>] = Null
    /\ registered' = [registered EXCEPT ![fd] = FALSE]
    /\ UNCHANGED <<state, ready, calls, live, stackVars, io, waiter, timed, sleeping, flush, poll>>

\* The flush is due, or it is not.
FlushOrNot ==
    /\ poll = "io" /\ poll' \in {"flush", "timers"}
    /\ UNCHANGED <<state, ready, calls, live, stackVars, waitVars, flush>>

FlushScheduledEvents(r) ==
    /\ poll = "flush" /\ r \in flush
    /\ flush' = flush \ {r}
    /\ IF state[r] = "WAIT_EVENT" THEN MakeReady(r) ELSE UNCHANGED <<state, ready>>
    /\ UNCHANGED <<calls, live, stackVars, waitVars, poll>>

Flushed ==
    /\ poll = "flush" /\ flush = {} /\ poll' = "timers"
    /\ UNCHANGED <<state, ready, calls, live, stackVars, waitVars, flush>>

CompleteTimeout(r) ==
    /\ poll = "timers" /\ r \in timed
    /\ CompleteWait(r)
    /\ UNCHANGED <<registered, poll>>

CompleteTimer(r) ==
    /\ poll = "timers" /\ r \in sleeping
    /\ sleeping' = sleeping \ {r}
    /\ MakeReady(r)
    /\ UNCHANGED <<calls, live, stackVars, io, waiter, registered, timed, flush, poll>>

EndPoll ==
    /\ poll = "timers" /\ poll' = "no"
    /\ UNCHANGED <<state, ready, calls, live, stackVars, waitVars, flush>>
-----------------------------------------------------------------------------
OfRoutine(r) ==
    \/ CreateCo(r) \/ Spawn(r) \/ Resume(r) \/ ScheduleAtFlush(r) \/ CancelWait(r)
    \/ FlushScheduledEvents(r) \/ CompleteTimeout(r) \/ CompleteTimer(r)

OfFd ==
    \/ \E op \in Ops : CompleteIo(op) \/ \E deadline \in BOOLEAN : Await(op, deadline)
    \/ \E fd \in Fds : CancelFd(fd) \/ Detach(fd)

Next ==
    \/ RunReady \/ Yield \/ Finish \/ YieldFor \/ YieldUntilFlush
    \/ StartPoll \/ FlushOrNot \/ Flushed \/ EndPoll
    \/ OfFd \/ \E r \in Routines : OfRoutine(r)

Spec == Init /\ [][Next]_vars
-----------------------------------------------------------------------------
\* The routine that runs finds its own frames on its stack, as it left them, though
\* the stack was lent to others meanwhile, in any nesting of Resume
\* (coroutine_scheduler.cpp 361-418).
StacksIntact == calls # <<>> => memory[stackOf[Current]] = Current

\* An event, a timeout and a cancellation of one wait make its routine ready once:
\* what waits is not queued, what is queued is queued once and waits for nothing
\* (io_manager.cpp 338-379).
ReadyOnce ==
    /\ \A i, j \in DOMAIN ready : ready[i] = ready[j] => i = j
    /\ \A i \in DOMAIN ready :
          /\ state[ready[i]] = "READY" /\ io[ready[i]] = NoOp
          /\ ready[i] \notin timed \cup sleeping
          /\ \A op \in Ops : waiter[op] # ready[i]

\* A routine that waits can be woken: the descriptor's slot, or the timer wheel, has
\* it, and the descriptor is in the epoll set; and one that is ready is in the queue
\* (io_manager.cpp 239-336, coroutine_scheduler.cpp 265-283).
WaitsAreBacked ==
    \A r \in Routines :
        /\ state[r] = "WAIT_IO" => io[r] \in Ops /\ waiter[io[r]] = r /\ registered[io[r][1]]
        /\ state[r] = "WAIT_TIMER" => r \in sleeping
        /\ state[r] = "READY" => \E i \in DOMAIN ready : ready[i] = r

\* What the runtime ends the process for never happens: a routine that finishes is
\* neither queued nor in a wait, and none is reset while the timer wheel has it
\* (coroutine_pool.cpp 42-46, coroutine_routine.h 53-58).
NeverTerminates ==
    \A r \in Routines : state[r] \in {"RUNNING", "FINISHED"} =>
        /\ \A i \in DOMAIN ready : ready[i] # r
        /\ io[r] = NoOp /\ r \notin timed \cup sleeping
        /\ \A op \in Ops : waiter[op] # r

\* What Join waits for: live_routine_count_ counts the routines that were started or
\* queued and did not finish, however they were started and woken
\* (coroutine_runtime.cpp 103-118, 169, 260-264, 319-325).
LiveIsCounted == live = Cardinality({r \in Routines : state[r] \notin {"INIT", "FINISHED"}})
==============================================================================
