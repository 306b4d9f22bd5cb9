----------------------- MODULE MultiplexedConnection -----------------------
(***************************************************************************)
(* One client connection: caller coroutines wait by request id, a reader   *)
(* coroutine completes them, a writer coroutine sends what they queue, and *)
(* an owner connects, drains and closes it.  All of them run on one thread *)
(* of a coroutine runtime, and Resume is a nested call: the resumed        *)
(* routine runs on top of its resumer and gives the thread back when it    *)
(* suspends or finishes.                                                   *)
(*                                                                         *)
(* stack is that nesting, its first element runs.  program[a] lists what   *)
(* actor a has still to do, the current step first: a step that calls      *)
(* WakeWriter, MaybeFinishDrain or CompleteAllPending puts that in front   *)
(* of its continuation.  A frame counts as one unit of outbound_bytes_.    *)
(***************************************************************************)
EXTENDS Naturals, FiniteSets, Sequences

CONSTANTS
    Callers,       \* coroutines that make calls
    Timed,         \* the callers whose calls have a timeout
    Reader,        \* the reader coroutine
    Writer,        \* the writer coroutine
    Owner,         \* who connects, drains and closes
    MaxCalls,      \* bound: request ids that are given out
    MaxPending,    \* ConnectionLimits::max_pending_calls
    MaxOutbound    \* ConnectionLimits::max_outbound_bytes, in frames

ASSUME CallersFinite == IsFiniteSet(Callers) /\ Timed \subseteq Callers
ASSUME ActorsDistinct ==
    /\ Reader # Writer /\ Reader # Owner /\ Writer # Owner
    /\ {Reader, Writer, Owner} \cap Callers = {}
ASSUME LimitsPositive == MaxCalls \in Nat /\ MaxPending \in Nat \ {0} /\ MaxOutbound \in Nat \ {0}

VARIABLES
    state,       \* state_
    fdOpen,      \* fd_ >= 0
    nextId,      \* next_request_id_
    pending,     \* the ids in pending_calls_
    owner,       \* PendingCall::coroutine
    status,      \* PendingCall::status once completed, "none" before
    sent,        \* PendingCall::sent
    outbound,    \* outbound_
    batch,       \* what is left of write_batch_
    atPeer,      \* requests the peer has received and not answered
    frames,      \* frames the decoder holds for the reader
    stack,       \* the routines resumed on this thread, innermost first
    rstate,      \* Coroutine_Routine::state_
    ioResult,    \* IoWaitOperation::result of the reader and of the writer
    ready,       \* ready_queue_
    turn,        \* routines RunReady has still to run before the next Poll
    program,     \* what each actor has still to do
    todo,        \* request_ids of CompleteAllPending
    target,      \* the call whose coroutine is about to be resumed
    threw,       \* first_exception_ is set
    disrupted    \* history: Close was called, or the stream failed

callVars == <<nextId, pending, owner, status, sent>>
streamVars == <<fdOpen, batch, atPeer, frames>>
runVars == <<stack, rstate, ioResult, ready, turn>>
vars == <<state, outbound, callVars, streamVars, runVars, program, todo, target, threw, disrupted>>

Ids == 1..MaxCalls
Fibers == {Reader, Writer}
Routines == Callers \cup Fibers
Actors == Routines \cup {Owner}

Init ==
    /\ state = "DISCONNECTED" /\ fdOpen = FALSE
    /\ nextId = 1 /\ pending = {} /\ sent = {}
    /\ owner = [i \in Ids |-> Owner] /\ status = [i \in Ids |-> "none"]
    /\ outbound = <<>> /\ batch = <<>> /\ frames = <<>>
    /\ atPeer = {}
    /\ stack = <<>> /\ ready = <<>> /\ turn = 0
    /\ rstate = [r \in Routines |-> "INIT"]
    /\ ioResult = [f \in Fibers |-> "none"]
    /\ program = [a \in Actors |-> CASE a = Owner -> <<"connect">>
                                     [] a = Reader -> <<"read">>
                                     [] a = Writer -> <<"loop">>
                                     [] OTHER -> <<"call">>]
    /\ todo = {} /\ target = 0 /\ threw = FALSE /\ disrupted = FALSE
-----------------------------------------------------------------------------
(* The thread.                                                             *)

Running(a) == stack # <<>> /\ Head(stack) = a
At(a, step) == Running(a) /\ program[a] # <<>> /\ Head(program[a]) = step
Then(a, steps) == program' = [program EXCEPT ![a] = steps]
Rest(a) == Tail(program[a])

\* Coroutine::Resume of r on top of the running routine.
Push(r) ==
    /\ stack' = <<r>> \o stack
    /\ rstate' = [rstate EXCEPT ![r] = "RUNNING"]

\* SuspendCurrent, or the end of the routine: back to the resumer.
Pop(r, how) ==
    /\ stack' = Tail(stack)
    /\ rstate' = [rstate EXCEPT ![r] = how]

\* RunReady resumes the routine at the front of the ready queue.
RunFront ==
    /\ stack = <<>> /\ turn > 0
    /\ Push(Head(ready))
    /\ ready' = Tail(ready)
    /\ turn' = turn - 1
    /\ UNCHANGED <<state, outbound, callVars, streamVars, ioResult, program, todo, target, threw, disrupted>>

\* The orders in which the elements of a set may come.
Orders(S) == {q \in [1..Cardinality(S) -> S] : \A x \in S : \E k \in DOMAIN q : q[k] = x}

\* What Poll, or DrainInbox after it, may make ready: an fd event, then a due
\* timer or a new task.
Awaiting ==
    {f \in Fibers : rstate[f] = "WAIT_IO"}
        \cup {c \in Callers : rstate[c] = "WAIT_TIMER"}
        \cup {c \in Callers : rstate[c] = "INIT" /\ program[Owner] = <<"idle">>}

Wake(woken) ==
    /\ stack = <<>> /\ turn = 0
    /\ woken \subseteq Awaiting
    /\ \E order \in Orders(woken \ Fibers) :
          ready' = ready \o SelectSeq(<<Reader, Writer>>, LAMBDA f : f \in woken) \o order
    /\ turn' = Len(ready')
    /\ rstate' = [r \in Routines |-> IF r \in woken THEN "READY" ELSE rstate[r]]
    /\ ioResult' = [f \in Fibers |-> IF f \in woken THEN "IO_READY" ELSE ioResult[f]]
    /\ UNCHANGED <<state, outbound, callVars, streamVars, stack, program, todo, target, threw, disrupted>>

\* Poll does not return before there is something to run.
Poll == \E woken \in SUBSET Awaiting : (woken # {} \/ ready # <<>>) /\ Wake(woken)
-----------------------------------------------------------------------------
(* Shared steps, run by whichever actor calls them.                        *)

\* WakeWriter
WakeWriter(a) ==
    /\ At(a, "wakeWriter")
    /\ Then(a, Rest(a))
    /\ IF rstate[Writer] = "WAIT_EVENT" THEN Push(Writer) ELSE UNCHANGED <<stack, rstate>>
    /\ UNCHANGED <<state, outbound, callVars, streamVars, ioResult, ready, turn, todo, target, threw, disrupted>>

\* socket_.Close(fd_): CancelFd makes the fibers that wait on the socket ready.
\* What is still in write_batch_ will not be sent any more.
CloseSocket ==
    LET cancelled == {f \in Fibers : fdOpen /\ rstate[f] = "WAIT_IO"}
    IN  /\ fdOpen' = FALSE
        /\ ready' = ready \o SelectSeq(<<Reader, Writer>>, LAMBDA f : f \in cancelled)
        /\ rstate' = [r \in Routines |-> IF r \in cancelled THEN "READY" ELSE rstate[r]]
        /\ ioResult' = [f \in Fibers |-> IF f \in cancelled THEN "CANCELLED" ELSE ioResult[f]]
        /\ outbound' = <<>>
        /\ batch' = <<>> /\ atPeer' = {}
        /\ UNCHANGED <<turn, frames>>

Unfinished == {i \in pending : status[i] = "none"}
\* Fault: a drain that does not look at the pending calls.
DrainedTooSoon == state = "CLOSING" /\ outbound = <<>>

Drained == state = "CLOSING" /\ outbound = <<>> /\ Unfinished = {}

\* MaybeFinishDrain, and the Close it calls: nobody is left to complete.
MaybeFinishDrain(a) ==
    /\ At(a, "maybeFinishDrain")
    /\ IF Drained
       THEN /\ CloseSocket
            /\ state' = "CLOSED"
            /\ Then(a, <<"wakeWriter">> \o Rest(a))
            /\ UNCHANGED stack
       ELSE /\ Then(a, Rest(a))
            /\ UNCHANGED <<state, outbound, streamVars, runVars>>
    /\ UNCHANGED <<callVars, todo, target, threw, disrupted>>

\* FailConnection by a fiber, which then leaves its loop.  The terminal state is
\* published before anybody is resumed.
FailConnection(f) ==
    /\ \/ At(f, "failClosed") \/ At(f, "failProtocol")
    /\ IF state = "CLOSED"
       THEN /\ Then(f, <<"exit">>)
            /\ UNCHANGED <<state, outbound, streamVars, runVars, todo, disrupted>>
       ELSE /\ CloseSocket
            /\ state' = "CLOSED"
            /\ disrupted' = TRUE
            /\ todo' = Unfinished
            /\ Then(f, IF Head(program[f]) = "failClosed"
                       THEN <<"completeAll", "wakeWriter", "exit">>
                       ELSE <<"completeAllBad", "wakeWriter", "exit">>)
            /\ UNCHANGED stack
    /\ UNCHANGED <<callVars, target, threw>>

\* Fault: CompleteAllPending stops after the first call.
CompleteFirstPending(a) ==
    /\ At(a, "completeAll") \/ At(a, "completeAllBad")
    /\ todo' = {}
    /\ \/ /\ todo = {}
          /\ Then(a, Rest(a))
          /\ UNCHANGED <<status, target>>
       \/ \E i \in todo :
             /\ status' = [status EXCEPT ![i] = "CONNECTION_CLOSED"]
             /\ target' = i
             /\ Then(a, <<"maybeFinishDrain", "resume">> \o program[a])
    /\ UNCHANGED <<state, outbound, nextId, pending, owner, sent, streamVars, runVars, threw, disrupted>>

\* CompleteAllPending takes the next id of its list, in the order of the hash map;
\* CompletePending sets the status, tries to finish the drain, resumes the caller.
CompleteAllPending(a) ==
    /\ At(a, "completeAll") \/ At(a, "completeAllBad")
    /\ \/ /\ todo = {}
          /\ Then(a, Rest(a))
          /\ UNCHANGED <<status, todo, target>>
       \/ \E i \in todo :
             /\ todo' = todo \ {i}
             /\ IF i \in Unfinished
                THEN /\ status' = [status EXCEPT ![i] = IF Head(program[a]) = "completeAll"
                                                       THEN "CONNECTION_CLOSED" ELSE "PROTOCOL_ERROR"]
                     /\ target' = i
                     /\ Then(a, <<"maybeFinishDrain", "resume">> \o program[a])
                ELSE UNCHANGED <<status, target, program>>
    /\ UNCHANGED <<state, outbound, nextId, pending, owner, sent, streamVars, runVars, threw, disrupted>>

\* runtime_.Resume(pending.coroutine): a queued routine is left alone, one that
\* waits is taken off its timer and run, one that is running throws.
ResumeCaller(a) ==
    /\ At(a, "resume")
    /\ target' = 0
    /\ LET c == owner[target]
       IN  \/ /\ rstate[c] = "READY"
              /\ Then(a, Rest(a))
              /\ UNCHANGED <<stack, rstate, threw>>
           \/ /\ rstate[c] \in {"WAIT_TIMER", "WAIT_EVENT"}
              /\ Then(a, Rest(a))
              /\ Push(c)
              /\ UNCHANGED threw
           \/ /\ rstate[c] = "RUNNING"
              /\ Then(a, <<>>)
              /\ Pop(a, "FINISHED")
              /\ threw' = TRUE
    /\ UNCHANGED <<state, outbound, callVars, streamVars, ioResult, ready, turn, todo, disrupted>>
-----------------------------------------------------------------------------
(* A caller: Call and CallEncoded.                                         *)

Full == Cardinality(pending) >= MaxPending

\* Call returns before it takes a request id: the connection is not ready, the
\* timeout is zero or there are too many calls.  A coroutine that is turned away
\* ends.
CallRejected(c) ==
    /\ At(c, "call")
    /\ Then(c, <<>>)
    /\ Pop(c, "FINISHED")
    /\ UNCHANGED <<state, outbound, callVars, streamVars, ioResult, ready, turn, todo, target, threw, disrupted>>

\* Call takes an id, and the frame cannot be encoded or does not fit outbound_.
CallNotQueued(c) ==
    /\ At(c, "call") /\ state = "READY" /\ ~Full /\ nextId \in Ids
    /\ nextId' = nextId + 1
    /\ Then(c, <<>>)
    /\ Pop(c, "FINISHED")
    /\ UNCHANGED <<state, outbound, pending, owner, status, sent, streamVars,
                   ioResult, ready, turn, todo, target, threw, disrupted>>

\* The call is queued for the writer; its caller will wait, with or without a
\* timeout.
CallQueued(c) ==
    /\ At(c, "call") /\ state = "READY" /\ ~Full /\ nextId \in Ids
    /\ Len(outbound) < MaxOutbound
    /\ nextId' = nextId + 1
    /\ pending' = pending \cup {nextId}
    /\ owner' = [owner EXCEPT ![nextId] = c]
    /\ outbound' = Append(outbound, [id |-> nextId, control |-> FALSE])
    /\ Then(c, <<"wakeWriter", "yield">>)
    /\ UNCHANGED <<state, status, sent, streamVars, runVars, todo, target, threw, disrupted>>

\* The call a caller has in pending_calls_.
CallOf(c) == CHOOSE i \in pending : owner[i] = c

\* Fault: the timeout is forgotten.
CallWaitsForEver(c) ==
    /\ At(c, "yield")
    /\ Then(c, <<"resumed">>)
    /\ Pop(c, "WAIT_EVENT")
    /\ UNCHANGED <<state, outbound, callVars, streamVars, ioResult, ready, turn, todo, target, threw, disrupted>>

\* Yield or YieldFor
CallWaits(c) ==
    /\ At(c, "yield")
    /\ Then(c, <<"resumed">>)
    /\ Pop(c, IF c \in Timed THEN "WAIT_TIMER" ELSE "WAIT_EVENT")
    /\ UNCHANGED <<state, outbound, callVars, streamVars, ioResult, ready, turn, todo, target, threw, disrupted>>

\* Fault: the caller does not test completed.
CallResumedBlind(c) ==
    /\ At(c, "resumed")
    /\ status' = [status EXCEPT ![CallOf(c)] = "TIMEOUT"]
    /\ Then(c, <<"maybeFinishDrain", "return">>)
    /\ UNCHANGED <<state, outbound, nextId, pending, owner, sent, streamVars, runVars, todo, target, threw, disrupted>>

\* Fault: QueueCancel does not wake the writer.
CallResumedSilent(c) ==
    /\ At(c, "resumed")
    /\ Then(c, <<"maybeFinishDrain", "return">>)
    /\ LET i == CallOf(c)
       IN  /\ status' = [status EXCEPT ![i] = IF @ = "none" THEN "TIMEOUT" ELSE @]
           /\ outbound' = IF i \in sent /\ status[i] = "none" /\ state = "READY" /\ Len(outbound) < MaxOutbound
                          THEN Append(outbound, [id |-> i, control |-> TRUE])
                          ELSE outbound
    /\ UNCHANGED <<state, nextId, pending, owner, sent, streamVars, runVars, todo, target, threw, disrupted>>

\* Resumed by its timer, unless a completion came first.  QueueCancel only while
\* the connection is ready and the frame fits.
CallResumed(c) ==
    /\ At(c, "resumed")
    /\ LET i == CallOf(c)
       IN  \/ /\ status[i] # "none"
              /\ Then(c, <<"return">>)
              /\ UNCHANGED <<status, outbound>>
           \/ /\ status[i] = "none"
              /\ status' = [status EXCEPT ![i] = "TIMEOUT"]
              /\ IF i \in sent /\ state = "READY" /\ Len(outbound) < MaxOutbound
                 THEN /\ outbound' = Append(outbound, [id |-> i, control |-> TRUE])
                      /\ Then(c, <<"wakeWriter", "maybeFinishDrain", "return">>)
                 ELSE /\ Then(c, <<"maybeFinishDrain", "return">>)
                      /\ UNCHANGED outbound
    /\ UNCHANGED <<state, nextId, pending, owner, sent, streamVars, runVars, todo, target, threw, disrupted>>

\* The pending call is erased and released to the pool, its result returned.  The
\* coroutine then makes another call at once, or ends.
CallReturns(c) ==
    /\ At(c, "return")
    /\ LET i == CallOf(c)
       IN  /\ pending' = pending \ {i}
           /\ owner' = [owner EXCEPT ![i] = Owner]
           /\ status' = [status EXCEPT ![i] = "none"]
           /\ sent' = sent \ {i}
    /\ \/ Then(c, <<"call">>) /\ UNCHANGED <<stack, rstate>>
       \/ Then(c, <<>>) /\ Pop(c, "FINISHED")
    /\ UNCHANGED <<state, outbound, nextId, streamVars, ioResult, ready, turn,
                   todo, target, threw, disrupted>>
-----------------------------------------------------------------------------
(* WriterLoop.                                                             *)

Alive == state \in {"READY", "CLOSING"}

\* A queued request is still wanted: its call is pending and not completed.
Wanted(frame) == frame.control \/ frame.id \in Unfinished

WriterIdles ==
    /\ At(Writer, "loop") /\ Alive /\ outbound = <<>>
    /\ Pop(Writer, "WAIT_EVENT")
    /\ UNCHANGED <<state, outbound, callVars, streamVars, ioResult, ready, turn, program, todo, target, threw, disrupted>>

\* Move frames from outbound_ to write_batch_, leaving out what nobody waits for
\* any more; a batch that is not empty may be full before outbound_ is empty.
WriterBatches ==
    /\ At(Writer, "loop") /\ Alive
    /\ \E n \in 1..Len(outbound) :
          LET taken == SelectSeq(SubSeq(outbound, 1, n), Wanted)
          IN  /\ n < Len(outbound) => taken # <<>>
              /\ batch' = taken
              /\ sent' = sent \cup {taken[k].id : k \in {m \in DOMAIN taken : ~taken[m].control}}
              /\ outbound' = SubSeq(outbound, n + 1, Len(outbound))
              /\ Then(Writer, IF taken = <<>> THEN <<"loop">> ELSE <<"write">>)
    /\ UNCHANGED <<state, nextId, pending, owner, status, fdOpen, atPeer, frames,
                   runVars, todo, target, threw, disrupted>>

\* WriteAll: a prefix goes out; then all is written, or the socket would block, or
\* the write fails.  A cancelled wait or a closed socket fails it as well.
WriterWrites ==
    /\ At(Writer, "write")
    /\ \/ /\ fdOpen /\ ioResult[Writer] # "CANCELLED"
          /\ \E n \in 0..Len(batch) :
                /\ atPeer' = atPeer \cup {batch[k].id : k \in {m \in 1..n : ~batch[m].control}}
                /\ batch' = SubSeq(batch, n + 1, Len(batch))
                /\ \/ /\ n = Len(batch)
                      /\ Then(Writer, <<"maybeFinishDrain", "loop">>)
                      /\ UNCHANGED <<stack, rstate>>
                   \/ /\ n < Len(batch)
                      /\ Pop(Writer, "WAIT_IO")
                      /\ UNCHANGED program
                   \/ /\ n < Len(batch)
                      /\ Then(Writer, <<"failClosed">>)
                      /\ UNCHANGED <<stack, rstate>>
       \/ /\ ~fdOpen \/ ioResult[Writer] = "CANCELLED"
          /\ Then(Writer, <<"failClosed">>)
          /\ UNCHANGED <<atPeer, batch, stack, rstate>>
    /\ UNCHANGED <<state, outbound, callVars, fdOpen, frames, ioResult, ready, turn,
                   todo, target, threw, disrupted>>

FiberEnds(f) ==
    /\ \/ At(f, "exit")
       \/ f = Writer /\ At(f, "loop") /\ ~Alive
    /\ Then(f, <<>>)
    /\ Pop(f, "FINISHED")
    /\ UNCHANGED <<state, outbound, callVars, streamVars, ioResult, ready, turn, todo, target, threw, disrupted>>
-----------------------------------------------------------------------------
(* ReaderLoop.                                                             *)

\* Read would block, returns bytes, or reports the end of the stream.  The peer
\* answers what it received; a frame of another kind, or one the decoder refuses,
\* is id 0.  A piece of a frame adds nothing and the loop reads on.
ReaderReads ==
    /\ At(Reader, "read")
    /\ \/ /\ fdOpen /\ ioResult[Reader] # "CANCELLED"
          /\ \/ /\ Pop(Reader, "WAIT_IO")
                /\ UNCHANGED <<frames, atPeer, program>>
             \/ /\ \E answers \in SUBSET atPeer :
                     /\ atPeer' = atPeer \ answers
                     /\ \E order \in Orders(answers), bad \in {<<>>, <<0>>} : frames' = order \o bad
                /\ frames' # <<>>
                /\ Then(Reader, <<"decode">>)
                /\ UNCHANGED <<stack, rstate>>
             \/ /\ Then(Reader, <<"failClosed">>)
                /\ UNCHANGED <<frames, atPeer, stack, rstate>>
       \/ /\ ~fdOpen \/ ioResult[Reader] = "CANCELLED"
          /\ Then(Reader, <<"failClosed">>)
          /\ UNCHANGED <<frames, atPeer, stack, rstate>>
    /\ UNCHANGED <<state, outbound, callVars, fdOpen, batch, ioResult, ready, turn,
                   todo, target, threw, disrupted>>

\* The next frame: a response completes its call or is late, anything else fails
\* the connection.  Without one the loop tests the state.
ReaderDecodes ==
    /\ At(Reader, "decode")
    /\ \/ /\ frames = <<>>
          /\ Then(Reader, IF state = "CLOSED" THEN <<"exit">> ELSE <<"read">>)
          /\ UNCHANGED <<frames, status, target>>
       \/ /\ frames # <<>>
          /\ frames' = Tail(frames)
          /\ LET i == Head(frames)
             IN  \/ /\ i \in Unfinished
                    /\ status' = [status EXCEPT ![i] = "OK"]
                    /\ target' = i
                    /\ Then(Reader, <<"maybeFinishDrain", "resume", "decode">>)
                 \/ /\ i # 0 /\ i \notin Unfinished
                    /\ UNCHANGED <<status, target, program>>
                 \/ /\ i = 0
                    /\ Then(Reader, <<"failProtocol">>)
                    /\ UNCHANGED <<status, target>>
    /\ UNCHANGED <<state, outbound, nextId, pending, owner, sent, fdOpen, batch, atPeer,
                   runVars, todo, threw, disrupted>>
-----------------------------------------------------------------------------
(* The owner: Connect, BeginDrain, Close.                                  *)

\* Connect: the socket waits, then StartFibers; a failure leaves it disconnected.
\* Nobody else has the connection until Connect returns true.
Connect ==
    /\ stack = <<>> /\ program[Owner] = <<"connect">>
    /\ \/ /\ state = "DISCONNECTED"
          /\ state' = "CONNECTING" /\ fdOpen' = TRUE
          /\ UNCHANGED <<program, stack>>
       \/ /\ state = "CONNECTING"
          /\ state' = "READY"
          /\ Then(Owner, <<"startReader", "startWriter">>)
          /\ stack' = <<Owner>>
          /\ UNCHANGED fdOpen
       \/ /\ state = "CONNECTING"
          /\ state' = "DISCONNECTED" /\ fdOpen' = FALSE
          /\ UNCHANGED <<program, stack>>
    /\ UNCHANGED <<outbound, callVars, batch, atPeer, frames, rstate, ioResult, ready, turn,
                   todo, target, threw, disrupted>>

StartFibers ==
    /\ \/ At(Owner, "startReader") /\ Push(Reader) /\ Then(Owner, Rest(Owner))
       \/ At(Owner, "startWriter") /\ Push(Writer) /\ Then(Owner, <<"leave">>)
    /\ UNCHANGED <<state, outbound, callVars, streamVars, ioResult, ready, turn, todo, target, threw, disrupted>>

BeginDrain ==
    /\ stack = <<>> /\ program[Owner] = <<"idle">>
    /\ state = "READY"
    /\ state' = "CLOSING"
    /\ stack' = <<Owner>>
    /\ Then(Owner, <<"wakeWriter", "maybeFinishDrain", "leave">>)
    /\ UNCHANGED <<outbound, callVars, streamVars, rstate, ioResult, ready, turn, todo, target, threw, disrupted>>

\* Close: CLOSING while the pending calls are completed, CLOSED after that.
Close ==
    /\ stack = <<>> /\ program[Owner] = <<"idle">>
    /\ Alive
    /\ CloseSocket
    /\ state' = "CLOSING"
    /\ disrupted' = TRUE
    /\ todo' = Unfinished
    /\ stack' = <<Owner>>
    /\ Then(Owner, <<"completeAll", "setClosed", "wakeWriter", "leave">>)
    /\ UNCHANGED <<callVars, target, threw>>

\* Fault: Close does not wake the writer.
CloseEndsSilent ==
    /\ At(Owner, "setClosed")
    /\ state' = "CLOSED"
    /\ Then(Owner, <<"leave">>)
    /\ UNCHANGED <<outbound, callVars, streamVars, runVars, todo, target, threw, disrupted>>

CloseEnds ==
    /\ At(Owner, "setClosed")
    /\ state' = "CLOSED"
    /\ Then(Owner, Rest(Owner))
    /\ UNCHANGED <<outbound, callVars, streamVars, runVars, todo, target, threw, disrupted>>

OwnerLeaves ==
    /\ At(Owner, "leave")
    /\ Then(Owner, <<"idle">>)
    /\ stack' = <<>>
    /\ UNCHANGED <<state, outbound, callVars, streamVars, rstate, ioResult, ready, turn, todo, target, threw, disrupted>>
-----------------------------------------------------------------------------
CallerStep(c) ==
    \/ CallRejected(c) \/ CallNotQueued(c) \/ CallQueued(c) \/ CallWaits(c)
    \/ CallResumed(c) \/ CallReturns(c)

SharedStep(a) ==
    \/ WakeWriter(a) \/ MaybeFinishDrain(a) \/ CompleteAllPending(a) \/ ResumeCaller(a)

FiberStep ==
    \/ WriterIdles \/ WriterBatches \/ WriterWrites \/ ReaderReads \/ ReaderDecodes
    \/ \E f \in Fibers : FailConnection(f) \/ FiberEnds(f)

\* What the thread does without waiting for anybody.
ThreadStep ==
    \/ \E c \in Callers : CallerStep(c)
    \/ \E a \in Actors : SharedStep(a)
    \/ FiberStep \/ StartFibers \/ CloseEnds \/ OwnerLeaves
    \/ RunFront

Next == ThreadStep \/ Poll \/ Connect \/ BeginDrain \/ Close

Spec == Init /\ [][Next]_vars

\* The thread runs on while it has something to do, and a timer that is due is
\* taken by the next Poll.  No event of the peer and no step of the owner is
\* promised.
Fairness ==
    /\ WF_vars(ThreadStep) /\ WF_vars(ready # <<>> /\ Poll)
    /\ \A c \in Callers : SF_vars(rstate[c] = "WAIT_TIMER" /\ \E woken \in SUBSET Awaiting : c \in woken /\ Wake(woken))

FairSpec == Spec /\ Fairness
-----------------------------------------------------------------------------
RoutineStates == {"INIT", "READY", "RUNNING", "WAIT_EVENT", "WAIT_TIMER", "WAIT_IO", "FINISHED"}
Statuses == {"none", "OK", "TIMEOUT", "CONNECTION_CLOSED", "PROTOCOL_ERROR"}

\* Type invariant of the connection and the runtime it uses; the limits of
\* ConnectionLimits hold, and exactly the routines on the stack are RUNNING.
TypeOK ==
    /\ state \in {"DISCONNECTED", "CONNECTING", "READY", "CLOSING", "CLOSED"} /\ fdOpen \in BOOLEAN
    /\ nextId \in 1..(MaxCalls + 1) /\ pending \subseteq Ids /\ Cardinality(pending) <= MaxPending
    /\ owner \in [Ids -> Callers \cup {Owner}] /\ sent \subseteq pending
    /\ status \in [Ids -> Statuses]
    /\ Len(outbound) <= MaxOutbound
    /\ \A i \in DOMAIN outbound : outbound[i] \in [id : Ids, control : BOOLEAN]
    /\ atPeer \subseteq Ids
    /\ rstate \in [Routines -> RoutineStates]
    /\ \A r \in Routines : rstate[r] = "RUNNING" <=> \E k \in DOMAIN stack : stack[k] = r
    /\ todo \subseteq Ids /\ target \in 0..MaxCalls /\ threw \in BOOLEAN /\ disrupted \in BOOLEAN

\* The state of the connection and of each call as its users see them.
Gate == CASE state \in {"DISCONNECTED", "CONNECTING"} -> "shut"
          [] state = "READY" -> "open"
          [] state = "CLOSING" -> "leaving"
          [] OTHER -> "closed"

Life(i) ==
    IF i \in pending THEN IF status[i] = "none" THEN "waiting" ELSE status[i]
    ELSE IF i < nextId THEN "gone" ELSE "new"

Contract == INSTANCE CallContract WITH gate <- Gate, life <- [i \in Ids |-> Life(i)]

\* The connection keeps the contract with its callers.  Of a response, a timeout and
\* a failure that race for a call the first decides (CompletePending and CallEncoded
\* test completed), no call fails while the connection is ready, and "publish the
\* terminal state before waking any of them so they cannot re-enter this connection"
\* (multiplexed_connection.cpp:439): none is taken once it is left.
KeepsContract == Contract!ContractSpec

\* A queued frame never waits for a writer that waits to be told of it: between
\* two routines the writer is idle only when outbound_, which keeps to its limit,
\* is empty.
WriterNotStranded ==
    /\ TypeOK
    /\ stack = <<>> /\ outbound # <<>> => rstate[Writer] # "WAIT_EVENT"

\* "continues to drain already accepted responses" (multiplexed_connection.h:73):
\* a drain fails no call; only a failed stream or an explicit Close does.
DrainKeepsCalls ==
    ~disrupted =>
        /\ \A i \in Ids : status[i] \in {"none", "OK", "TIMEOUT"}
        /\ state = "CLOSED" => Unfinished = {}

\* The fibers hold the connection alive: when it is closed and the thread is back
\* in its loop, both have ended or are about to.
FibersLeave ==
    stack = <<>> /\ state = "CLOSED" => \A f \in Fibers : rstate[f] \in {"READY", "FINISHED"}

\* CompleteAllPending leaves nobody behind: on a closed connection every pending
\* call has its status and its coroutine is queued to pick it up.  The exception
\* is a writer resumed by a caller inside Call whose write fails at once: it finds
\* that caller running, throws and dies before it has woken the others.
NobodyStranded ==
    stack = <<>> /\ state = "CLOSED" /\ ~threw =>
        \A i \in pending : status[i] # "none" /\ rstate[owner[i]] = "READY"

\* A call with a timeout returns, even when the connection fails half way or the
\* writer died.
TimedCallReturns == \A i \in Ids : (i \in pending /\ owner[i] \in Timed) ~> (i \notin pending)
=============================================================================
