---------------------------- MODULE ServerDrain ----------------------------
(***************************************************************************)
(* How an RpcServer drains and stops.  BeginDrain stops the acceptor, arms *)
(* a timer and has every network shard drain its connections; each request *)
(* and each connection that ends asks MaybeFinishDrain whether it was the  *)
(* last.  StopNow, from there or from the timer, closes what is left,      *)
(* stops the CPU pool and the I/O worker, and FinalizeWorkerShutdown joins *)
(* the threads of the other shards.  Keys and responses are in             *)
(* ServerRequests; the requests here have none.                            *)
(*                                                                         *)
(* Each shard is one thread; Main is shard 0, which runs on the runtime of *)
(* the user.  work[s] is what the handler that shard s is in has still to  *)
(* do, the next step first; inbox[s] holds the closures posted to it.      *)
(***************************************************************************)
EXTENDS Naturals, FiniteSets, Sequences, SequencesExt

CONSTANTS
    Requests,            \* the request frames of the peers
    Conns,               \* the connections of the peers
    Shards,              \* network shards
    Main,                \* the first of them, that accepts connections
    ShardOf,             \* the shard SelectNetworkShard gives a connection to
    ConnOf,              \* the connection a request comes on
    ModeOf,              \* its execution mode
    Workers,             \* worker_threads
    MaxQueue,            \* max_worker_queue
    MaxConnections,      \* max_connections
    MaxInflight          \* max_inflight_requests

ASSUME DrainSets ==
    /\ IsFiniteSet(Requests) /\ IsFiniteSet(Conns) /\ IsFiniteSet(Shards)
    /\ Main \in Shards /\ ShardOf \in [Conns -> Shards] /\ ConnOf \in [Requests -> Conns]
    /\ ModeOf \in [Requests -> {"CPU_POOL", "IO_COROUTINE", "NETWORK_INLINE"}]
ASSUME DrainLimits ==
    /\ Workers \in Nat \ {0} /\ MaxQueue \in Nat \ {0}
    /\ MaxConnections \in Nat \ {0} /\ MaxInflight \in Nat \ {0}

VARIABLES
    accepting,      \* accepting_
    stopped,        \* stopped_
    timer,          \* drain_waiter_: "off" or "armed"
    forced,         \* history: the stop did not wait for the requests
    inflight,       \* inflight_count_
    active,         \* active_connections_
    conn,           \* "new", "accepted", "open" or "closed"
    phase,          \* where each request stands
    cpuQueue,       \* tasks_ of the CPU pool
    cpuUp,          \* it is not stopping_
    ioQueue,        \* tasks submitted to the I/O worker and not started
    ioState,        \* "up", "stopping" or "exited"
    running,        \* requests whose handler runs
    shardState,     \* "run", "stopping" (stop_requested_) or "exited"
    work,           \* what each shard is doing
    inbox           \* what is posted to each shard

drainVars == <<accepting, stopped, timer, forced>>
countVars == <<inflight, active>>
poolVars == <<cpuQueue, cpuUp, ioQueue, ioState, running>>
shardVars == <<shardState, work, inbox>>
vars == <<drainVars, countVars, conn, phase, poolVars, shardVars>>

Init ==
    /\ accepting = TRUE /\ stopped = FALSE /\ timer = "off" /\ forced = FALSE
    /\ inflight = 0 /\ active = 0
    /\ conn = [c \in Conns |-> "new"] /\ phase = [r \in Requests |-> "new"]
    /\ cpuQueue = <<>> /\ cpuUp = TRUE /\ ioQueue = <<>> /\ ioState = "up" /\ running = {}
    /\ shardState = [s \in Shards |-> "run"]
    /\ work = [s \in Shards |-> <<>>] /\ inbox = [s \in Shards |-> <<>>]
-----------------------------------------------------------------------------
(* A shard and what it has to do.                                          *)

Call(op, arg) == [op |-> op, arg |-> arg]

Idle(s) == work[s] = <<>> /\ shardState[s] # "exited"
Doing(s, op) == work[s] # <<>> /\ Head(work[s]).op = op
Arg(s) == Head(work[s]).arg
\* The current step is done; calls come next, then the rest of the handler.
Continue(s, calls) == work' = [work EXCEPT ![s] = calls \o Tail(@)]
Begin(s, calls) == work' = [work EXCEPT ![s] = calls]

\* NetworkShard::Post, refused once stop_requested_ is set.
Post(s, call) == inbox' = IF shardState[s] = "run" THEN [inbox EXCEPT ![s] = Append(@, call)] ELSE inbox

\* The same closure posted to every shard but the first.
PostOthers(op) ==
    inbox' = [s \in Shards |-> IF s # Main /\ shardState[s] = "run" THEN Append(inbox[s], Call(op, s)) ELSE inbox[s]]

OpenOn(s) == {c \in Conns : conn[c] = "open" /\ ShardOf[c] = s}
\* Requests in requests_ of connection c.
RequestsOn(c) == {r \in Requests : ConnOf[r] = c /\ phase[r] = "added"}
\* One call for each member of a set, in an order nobody knows.
Each(op, set) == {[i \in DOMAIN order |-> Call(op, order[i])] : order \in SetToSeqs(set)}

\* The owner thread takes the next closure of its inbox.
TakePosted(s) ==
    /\ Idle(s) /\ inbox[s] # <<>>
    /\ Begin(s, <<Head(inbox[s])>>)
    /\ inbox' = [inbox EXCEPT ![s] = Tail(@)]
    /\ UNCHANGED <<drainVars, countVars, conn, phase, poolVars, shardState>>
-----------------------------------------------------------------------------
(* Connections.                                                            *)

\* AcceptLoop gives an accepted socket to its shard.
Accept(c) ==
    /\ Idle(Main) /\ accepting /\ conn[c] = "new"
    /\ conn' = [conn EXCEPT ![c] = "accepted"]
    /\ \/ ShardOf[c] = Main /\ Begin(Main, <<Call("attach", c)>>) /\ UNCHANGED inbox
       \/ ShardOf[c] # Main /\ Post(ShardOf[c], Call("attach", c)) /\ UNCHANGED work
    /\ UNCHANGED <<drainVars, countVars, phase, poolVars, shardState>>

\* AttachConnection looks at stopped_ and then takes a slot, while Main may stop; a
\* refused socket is closed by AcceptLoop.
AttachConnection(s) ==
    /\ \/ /\ Doing(s, "attach") /\ ~stopped
          /\ Continue(s, <<Call("takeSlot", Arg(s))>>)
          /\ UNCHANGED <<active, conn>>
       \/ /\ Doing(s, "takeSlot") /\ active < MaxConnections
          /\ active' = active + 1
          /\ conn' = [conn EXCEPT ![Arg(s)] = "open"]
          /\ Continue(s, <<>>)
       \/ /\ (Doing(s, "attach") /\ stopped) \/ (Doing(s, "takeSlot") /\ active >= MaxConnections)
          /\ conn' = [conn EXCEPT ![Arg(s)] = "closed"]
          /\ Continue(s, <<>>)
          /\ UNCHANGED active
    /\ UNCHANGED <<drainVars, inflight, phase, poolVars, shardState, inbox>>

\* The reader or the writer closes the connection: the peer has gone, the stream
\* is broken, or the last response of a drained connection is written.
ConnectionCloses(c) ==
    /\ Idle(ShardOf[c]) /\ conn[c] = "open"
    /\ Begin(ShardOf[c], <<Call("close", c)>>)
    /\ UNCHANGED <<drainVars, countVars, conn, phase, poolVars, shardState, inbox>>

\* Fault: OnConnectionClosed does not call MaybeFinishDrain.
CloseQuietly(s) ==
    /\ Doing(s, "close")
    /\ conn' = [conn EXCEPT ![Arg(s)] = "closed"]
    /\ active' = active - 1
    /\ phase' = [r \in Requests |-> IF r \in RequestsOn(Arg(s)) THEN "counted" ELSE phase[r]]
    /\ \E calls \in Each("abandon", RequestsOn(Arg(s))) : Continue(s, calls)
    /\ UNCHANGED <<drainVars, inflight, poolVars, shardState, inbox>>

\* Fault: the requests are detached and nobody abandons them.
DetachOnly(s) ==
    /\ Doing(s, "close")
    /\ conn' = [conn EXCEPT ![Arg(s)] = "closed"]
    /\ active' = active - 1
    /\ phase' = [r \in Requests |-> IF r \in RequestsOn(Arg(s)) THEN "counted" ELSE phase[r]]
    /\ Continue(s, <<Call("maybeFinishDrain", Main)>>)
    /\ UNCHANGED <<drainVars, inflight, poolVars, shardState, inbox>>

\* Close and OnConnectionClosed: the connection is counted out, then its requests
\* are abandoned, then the drain may be over.
Close(s) ==
    /\ Doing(s, "close")
    /\ \/ /\ conn[Arg(s)] # "open"
          /\ Continue(s, <<>>)
          /\ UNCHANGED <<active, conn, phase>>
       \/ /\ conn[Arg(s)] = "open"
          /\ conn' = [conn EXCEPT ![Arg(s)] = "closed"]
          /\ active' = active - 1
          /\ phase' = [r \in Requests |-> IF r \in RequestsOn(Arg(s)) THEN "counted" ELSE phase[r]]
          /\ \E calls \in Each("abandon", RequestsOn(Arg(s))) :
                Continue(s, calls \o <<Call("maybeFinishDrain", Main)>>)
    /\ UNCHANGED <<drainVars, inflight, poolVars, shardState, inbox>>

\* CloseAllConnections
CloseAllConnections(s) ==
    /\ Doing(s, "closeAll")
    /\ \E calls \in Each("close", OpenOn(s)) : Continue(s, calls)
    /\ UNCHANGED <<drainVars, countVars, conn, phase, poolVars, shardState, inbox>>

\* BeginDrainConnections: a connection without requests whose responses are
\* written is closed at once, the others when they get there.
BeginDrainConnections(s) ==
    /\ Doing(s, "drainAll")
    /\ \E closing \in SUBSET {c \in OpenOn(s) : RequestsOn(c) = {}} :
          \E calls \in Each("close", closing) : Continue(s, calls)
    /\ UNCHANGED <<drainVars, countVars, conn, phase, poolVars, shardState, inbox>>
-----------------------------------------------------------------------------
(* Requests.                                                               *)

\* OnFrame up to the accepting test.  A frame that cannot be parsed and a deadline
\* that has passed are refused in the same way.
Receive(r) ==
    LET s == ShardOf[ConnOf[r]]
    IN  /\ Idle(s) /\ conn[ConnOf[r]] = "open" /\ phase[r] = "new"
        /\ \/ /\ accepting
              /\ phase' = [phase EXCEPT ![r] = "handling"]
              /\ Begin(s, <<Call("admit", r)>>)
           \/ /\ phase' = [phase EXCEPT ![r] = "refused"]
              /\ UNCHANGED work
        /\ UNCHANGED <<drainVars, countVars, conn, poolVars, shardState, inbox>>

AcquireInflight(s) ==
    /\ Doing(s, "admit")
    /\ \/ /\ inflight < MaxInflight
          /\ inflight' = inflight + 1
          /\ phase' = [phase EXCEPT ![Arg(s)] = "counted"]
          /\ Continue(s, <<Call(IF ModeOf[Arg(s)] = "NETWORK_INLINE" THEN "inline" ELSE "add", Arg(s))>>)
       \/ /\ inflight >= MaxInflight
          /\ phase' = [phase EXCEPT ![Arg(s)] = "refused"]
          /\ Continue(s, <<>>)
          /\ UNCHANGED inflight
    /\ UNCHANGED <<drainVars, active, conn, poolVars, shardState, inbox>>

\* The inline view handler; its response is queued without Finish, and queueing a
\* response may close the connection.
RunInlineView(s) ==
    /\ Doing(s, "inline")
    /\ inflight' = inflight - 1
    /\ phase' = [phase EXCEPT ![Arg(s)] = "completed"]
    /\ \E calls \in {<<>>, <<Call("close", ConnOf[Arg(s)])>>} :
          Continue(s, calls \o <<Call("maybeFinishDrain", Main)>>)
    /\ UNCHANGED <<drainVars, active, conn, poolVars, shardState, inbox>>

\* AddRequest, its limit left to ServerRequests, and the submission: a pool that is
\* full or stopping refuses.
Dispatch(s) ==
    /\ Doing(s, "add")
    /\ phase' = [phase EXCEPT ![Arg(s)] = "added"]
    /\ LET r == Arg(s)
           toCpu == cpuUp /\ Len(cpuQueue) < MaxQueue
           toIo == ioState = "up" /\ Len(ioQueue) + Cardinality({q \in running : ModeOf[q] = "IO_COROUTINE"}) < MaxQueue
       IN  \/ /\ ModeOf[r] = "CPU_POOL" /\ toCpu
              /\ cpuQueue' = Append(cpuQueue, r)
              /\ Continue(s, <<>>)
              /\ UNCHANGED ioQueue
           \/ /\ ModeOf[r] = "IO_COROUTINE" /\ toIo
              /\ ioQueue' = Append(ioQueue, r)
              /\ Continue(s, <<>>)
              /\ UNCHANGED cpuQueue
           \/ /\ IF ModeOf[r] = "CPU_POOL" THEN ~toCpu ELSE ~toIo
              /\ Continue(s, <<Call("finish", r)>>)
              /\ UNCHANGED <<cpuQueue, ioQueue>>
    /\ UNCHANGED <<drainVars, countVars, conn, cpuUp, ioState, running, shardState, inbox>>

\* BoundedExecutor::Run
CpuWorkerTakes ==
    /\ cpuQueue # <<>> /\ Cardinality({q \in running : ModeOf[q] = "CPU_POOL"}) < Workers
    /\ running' = running \cup {Head(cpuQueue)}
    /\ cpuQueue' = Tail(cpuQueue)
    /\ UNCHANGED <<drainVars, countVars, conn, phase, cpuUp, ioQueue, ioState, shardVars>>

\* The routine of the I/O worker; a worker that is stopping drops the task.
IoWorkerTakes ==
    /\ ioQueue # <<>> /\ ioState # "exited"
    /\ running' = IF ioState = "up" THEN running \cup {Head(ioQueue)} ELSE running
    /\ ioQueue' = Tail(ioQueue)
    /\ UNCHANGED <<drainVars, countVars, conn, phase, cpuQueue, cpuUp, ioState, shardVars>>

\* The handler is done; its completion is posted to the shard of the connection.
HandlerReturns(r) ==
    /\ r \in running
    /\ running' = running \ {r}
    /\ Post(ShardOf[ConnOf[r]], Call("finish", r))
    /\ UNCHANGED <<drainVars, countVars, conn, phase, cpuQueue, cpuUp, ioQueue, ioState, shardState, work>>

\* Fault: Finish does not look at completed.
FinishAgain(s) ==
    /\ Doing(s, "finish")
    /\ phase' = [phase EXCEPT ![Arg(s)] = "completed"]
    /\ inflight' = inflight - 1
    /\ Continue(s, <<Call("maybeFinishDrain", Main)>>)
    /\ UNCHANGED <<drainVars, active, conn, poolVars, shardState, inbox>>

\* Finish, of OnWorkerCompletion and of Cancel: once per request.  Queueing the
\* response may close the connection.
Finish(s) ==
    /\ Doing(s, "finish")
    /\ \/ /\ phase[Arg(s)] = "completed"
          /\ Continue(s, <<>>)
          /\ UNCHANGED <<inflight, phase>>
       \/ /\ phase[Arg(s)] # "completed"
          /\ phase' = [phase EXCEPT ![Arg(s)] = "completed"]
          /\ inflight' = inflight - 1
          /\ \E calls \in {<<>>, <<Call("close", ConnOf[Arg(s)])>>} :
                Continue(s, calls \o <<Call("maybeFinishDrain", Main)>>)
    /\ UNCHANGED <<drainVars, active, conn, poolVars, shardState, inbox>>

\* A cancel frame; the task of the request, queued or running, goes on.
Cancel(r) ==
    /\ Idle(ShardOf[ConnOf[r]]) /\ phase[r] = "added"
    /\ Begin(ShardOf[ConnOf[r]], <<Call("finish", r)>>)
    /\ UNCHANGED <<drainVars, countVars, conn, phase, poolVars, shardState, inbox>>

Abandon(s) ==
    /\ Doing(s, "abandon")
    /\ \/ /\ phase[Arg(s)] = "completed"
          /\ UNCHANGED <<inflight, phase>>
       \/ /\ phase[Arg(s)] # "completed"
          /\ phase' = [phase EXCEPT ![Arg(s)] = "completed"]
          /\ inflight' = inflight - 1
    /\ Continue(s, <<>>)
    /\ UNCHANGED <<drainVars, active, conn, poolVars, shardState, inbox>>
-----------------------------------------------------------------------------
(* Drain and stop.                                                         *)

\* BeginDrain by the user, between two handlers of Main; a timeout of zero stops
\* at once.
BeginDrain ==
    /\ Idle(Main) /\ accepting /\ ~stopped
    /\ accepting' = FALSE
    /\ \/ /\ forced' = TRUE
          /\ Begin(Main, <<Call("stopNow", Main)>>)
          /\ UNCHANGED timer
       \/ /\ timer' = "armed"
          /\ Begin(Main, <<Call("drainAll", Main), Call("drainOthers", Main), Call("maybeFinishDrain", Main)>>)
          /\ UNCHANGED forced
    /\ UNCHANGED <<stopped, countVars, conn, phase, poolVars, shardState, inbox>>

\* The drain deadline passes: FinishDrainTimeout.
DrainTimeout ==
    /\ Idle(Main) /\ timer = "armed"
    /\ timer' = "off" /\ forced' = TRUE
    /\ Begin(Main, <<Call("stopNow", Main)>>)
    /\ UNCHANGED <<accepting, stopped, countVars, conn, phase, poolVars, shardState, inbox>>

\* Fault: the open connections are not looked at.
InflightOnly(s) ==
    /\ Doing(s, "maybeFinishDrain")
    /\ \/ /\ s = Main
          /\ Continue(s, IF ~accepting /\ ~stopped /\ inflight = 0 THEN <<Call("stopNow", Main)>> ELSE <<>>)
          /\ UNCHANGED inbox
       \/ /\ s # Main
          /\ Continue(s, <<>>)
          /\ Post(Main, Call("maybeFinishDrain", Main))
    /\ UNCHANGED <<drainVars, countVars, conn, phase, poolVars, shardState>>

\* MaybeFinishDrain reads inflight_count_ and then active_connections_; a shard that
\* is not Main has Main look again.
MaybeFinishDrain(s) ==
    /\ \/ /\ Doing(s, "maybeFinishDrain")
          /\ Continue(s, IF ~accepting /\ ~stopped /\ inflight = 0 THEN <<Call("checkActive", Main)>> ELSE <<>>)
          /\ UNCHANGED inbox
       \/ /\ Doing(s, "checkActive") /\ s = Main
          /\ Continue(s, IF active = 0 THEN <<Call("stopNow", Main)>> ELSE <<>>)
          /\ UNCHANGED inbox
       \/ /\ Doing(s, "checkActive") /\ s # Main
          /\ Continue(s, <<>>)
          /\ IF active = 0 THEN Post(Main, Call("maybeFinishDrain", Main)) ELSE UNCHANGED inbox
    /\ UNCHANGED <<drainVars, countVars, conn, phase, poolVars, shardState>>

\* StopNow on Main: close its connections, have the others closed, stop the CPU
\* pool and wait for it, ask the I/O worker to stop.
StopNow ==
    /\ Doing(Main, "stopNow")
    /\ \/ /\ stopped
          /\ Continue(Main, <<>>)
          /\ UNCHANGED <<accepting, stopped, timer>>
       \/ /\ ~stopped
          /\ stopped' = TRUE /\ accepting' = FALSE /\ timer' = "off"
          /\ Continue(Main, <<Call("closeAll", Main), Call("closeOthers", Main), Call("cpuStop", Main),
                              Call("cpuJoin", Main), Call("ioStop", Main)>>)
    /\ UNCHANGED <<forced, countVars, conn, phase, poolVars, shardState, inbox>>

\* BeginDrain and StopNow turn to the other shards.
TellOthers ==
    /\ \/ Doing(Main, "drainOthers") /\ PostOthers("drainAll")
       \/ Doing(Main, "closeOthers") /\ PostOthers("closeAll")
    /\ Continue(Main, <<>>)
    /\ UNCHANGED <<drainVars, countVars, conn, phase, poolVars, shardState>>

\* BoundedExecutor::Stop drops the queue; join waits for the handlers that run.
CpuStop ==
    /\ \/ Doing(Main, "cpuStop") /\ cpuUp' = FALSE /\ cpuQueue' = <<>>
       \/ /\ Doing(Main, "cpuJoin") /\ \A r \in running : ModeOf[r] # "CPU_POOL"
          /\ UNCHANGED <<cpuUp, cpuQueue>>
    /\ Continue(Main, <<>>)
    /\ UNCHANGED <<drainVars, countVars, conn, phase, ioQueue, ioState, running, shardState, inbox>>

\* IoCoroutineExecutor::RequestStop
IoStop ==
    /\ Doing(Main, "ioStop")
    /\ ioState' = "stopping"
    /\ Continue(Main, <<>>)
    /\ UNCHANGED <<drainVars, countVars, conn, phase, cpuQueue, cpuUp, ioQueue, running, shardState, inbox>>

\* Fault: the callback of RequestStop is lost.
ExitsSilently ==
    /\ ioState = "stopping" /\ ioQueue = <<>> /\ \A r \in running : ModeOf[r] # "IO_COROUTINE"
    /\ ioState' = "exited"
    /\ UNCHANGED <<drainVars, countVars, conn, phase, cpuQueue, cpuUp, ioQueue, running, shardVars>>

\* The I/O worker has no routine left; its callback is submitted to Main.
IoWorkerExits ==
    /\ ioState = "stopping" /\ ioQueue = <<>> /\ \A r \in running : ModeOf[r] # "IO_COROUTINE"
    /\ ioState' = "exited"
    /\ Post(Main, Call("finalize", Main))
    /\ UNCHANGED <<drainVars, countVars, conn, phase, cpuQueue, cpuUp, ioQueue, running, shardState, work>>

\* FinalizeWorkerShutdown: stop the other shards, wait for their threads, end the
\* barrier routine that kept Main alive.
FinalizeWorkerShutdown ==
    /\ \/ /\ Doing(Main, "finalize")
          /\ PostOthers("requestStop")
          /\ Continue(Main, <<Call("joinShards", Main)>>)
          /\ UNCHANGED shardState
       \/ /\ Doing(Main, "joinShards") /\ \A s \in Shards \ {Main} : shardState[s] = "exited"
          /\ shardState' = [shardState EXCEPT ![Main] = "exited"]
          /\ Continue(Main, <<>>)
          /\ UNCHANGED inbox
    /\ UNCHANGED <<drainVars, countVars, conn, phase, poolVars>>

\* The closure of RequestStop: CloseAllConnections, then stop_requested_.
RequestStop(s) ==
    /\ \/ /\ Doing(s, "requestStop")
          /\ Continue(s, <<Call("closeAll", s), Call("setStop", s)>>)
          /\ UNCHANGED shardState
       \/ /\ Doing(s, "setStop")
          /\ shardState' = [shardState EXCEPT ![s] = "stopping"]
          /\ Continue(s, <<>>)
    /\ UNCHANGED <<drainVars, countVars, conn, phase, poolVars, inbox>>

\* NetworkShard::Run returns when no routine is left; what is still in the inbox is
\* lost.
ShardExits(s) ==
    /\ s # Main /\ Idle(s) /\ shardState[s] = "stopping" /\ OpenOn(s) = {}
    /\ shardState' = [shardState EXCEPT ![s] = "exited"]
    /\ inbox' = [inbox EXCEPT ![s] = <<>>]
    /\ UNCHANGED <<drainVars, countVars, conn, phase, poolVars, work>>
-----------------------------------------------------------------------------
ShardStep(s) ==
    \/ TakePosted(s) \/ AttachConnection(s) \/ Close(s) \/ CloseAllConnections(s) \/ BeginDrainConnections(s)
    \/ AcquireInflight(s) \/ RunInlineView(s) \/ Dispatch(s) \/ Finish(s) \/ Abandon(s)
    \/ MaybeFinishDrain(s) \/ RequestStop(s) \/ ShardExits(s)

StopStep == StopNow \/ TellOthers \/ CpuStop \/ IoStop \/ FinalizeWorkerShutdown \/ DrainTimeout

WorkerStep == CpuWorkerTakes \/ IoWorkerTakes \/ IoWorkerExits \/ \E r \in Requests : HandlerReturns(r)

ServerStep == (\E s \in Shards : ShardStep(s)) \/ StopStep \/ WorkerStep

\* What the peers do.
PeerStep ==
    \/ \E c \in Conns : Accept(c) \/ ConnectionCloses(c)
    \/ \E r \in Requests : Receive(r) \/ Cancel(r)

ShutDown == \A s \in Shards : shardState[s] = "exited"

Next == ServerStep \/ PeerStep \/ BeginDrain \/ (ShutDown /\ UNCHANGED vars)

\* Some thread of the server that can take a step takes one, handlers return and the
\* drain timer expires.  Nothing is promised of the peers, nor that a drain begins.
Fairness == WF_vars(ServerStep)

Spec == Init /\ [][Next]_vars /\ Fairness
-----------------------------------------------------------------------------
(* Properties.                                                             *)

Operations ==
    {"attach", "takeSlot", "close", "closeAll", "drainAll", "admit", "inline", "add", "finish", "abandon", "drainOthers",
     "maybeFinishDrain", "checkActive", "stopNow", "closeOthers", "cpuStop", "cpuJoin", "ioStop",
     "finalize", "joinShards", "requestStop", "setStop"}
Calls == [op : Operations, arg : Requests \cup Conns \cup Shards]

\* Type invariant of the counters, connections, requests, pools and shards.
TypeOK ==
    /\ accepting \in BOOLEAN /\ stopped \in BOOLEAN /\ forced \in BOOLEAN /\ timer \in {"off", "armed"}
    /\ inflight \in 0..MaxInflight /\ active \in 0..MaxConnections
    /\ conn \in [Conns -> {"new", "accepted", "open", "closed"}]
    /\ phase \in [Requests -> {"new", "handling", "refused", "counted", "added", "completed"}]
    /\ cpuQueue \in Seq(Requests) /\ ioQueue \in Seq(Requests) /\ running \subseteq Requests
    /\ cpuUp \in BOOLEAN /\ ioState \in {"up", "stopping", "exited"}
    /\ shardState \in [Shards -> {"run", "stopping", "exited"}]
    /\ work \in [Shards -> Seq(Calls)] /\ inbox \in [Shards -> Seq(Calls)]

Counted == {r \in Requests : phase[r] \in {"counted", "added"}}

\* inflight_count_ and active_connections_, on which MaybeFinishDrain relies, are the
\* requests admitted and not completed and the open connections, on every path.
CountersBalanced ==
    /\ TypeOK
    /\ inflight = Cardinality(Counted)
    /\ active = Cardinality({c \in Conns : conn[c] = "open"})

\* MaybeFinishDrain is never missed: while a drain is on and nothing is left to wait
\* for, some shard has yet to look, although the counters are read one by one and
\* change on several threads.
LastOneFinishes ==
    ~accepting /\ ~stopped /\ inflight = 0 /\ active = 0 =>
        \E s \in Shards : \E call \in ToSet(work[s]) \cup ToSet(inbox[s]) :
            call.op \in {"maybeFinishDrain", "checkActive", "stopNow"}

\* A drain that ends before its deadline cuts nothing off: when StopNow was called by
\* MaybeFinishDrain, the requests still counted lost their connection before.
DrainedIsQuiet == stopped /\ ~forced => \A r \in Counted : conn[ConnOf[r]] = "closed"

\* When the server has shut down no admitted request, accepted socket or handler is
\* left over, though pools dropped tasks and shards refused completions.
NothingLeftOver ==
    ShutDown => /\ inflight = 0 /\ active = 0 /\ running = {}
                /\ \A c \in Conns : conn[c] # "open"

\* A drain that has begun ends with every thread joined.
DrainEnds == ~accepting ~> ShutDown
=============================================================================
