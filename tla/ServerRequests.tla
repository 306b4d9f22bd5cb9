-------------------------- MODULE ServerRequests --------------------------
(***************************************************************************)
(* The life of a request in a running RpcServer.  The network shard that   *)
(* owns its connection counts it in, looks its idempotency key up and runs *)
(* it inline or submits it to a worker pool; the completion is posted back *)
(* to that shard, which finishes every request that waits for the key, or  *)
(* has it finished by the shard that owns it.  Cancel frames and closing   *)
(* connections race with this.  Drain and stop are in ServerDrain: while   *)
(* the server accepts, MaybeFinishDrain does nothing.                      *)
(*                                                                         *)
(* Each shard is one thread.  work[s] is what the handler that shard s is  *)
(* in has still to do, the next step first: a step that calls Finish or    *)
(* Close puts the call in front of the rest.  inbox[s] holds the closures  *)
(* posted to shard s.  Outbound bytes are in ServerConnection: here a      *)
(* response that is queued may make its connection close.                  *)
(***************************************************************************)
EXTENDS Naturals, FiniteSets, Sequences, Functions

CONSTANTS
    Requests,            \* the request frames of the peers
    Conns,               \* the connections they come on
    Shards,              \* network shards
    Keys,                \* idempotency keys, with caller scope, service and method
    NoKey,               \* a request without one
    ShardOf,             \* the shard that owns a connection
    Contents,            \* what each request may be: connection, key, body and mode
    Timed,               \* the requests with a deadline
    InlineViewHandler,   \* whether options_.inline_view_handler is set
    MaxInflight,         \* max_inflight_requests
    MaxPerConnection,    \* max_inflight_per_connection
    Workers,             \* threads of the CPU pool
    MaxQueue,            \* tasks it keeps waiting
    MaxEntries           \* max_idempotency_entries

Statuses == {"INTERNAL", "CANCELLED", "DEADLINE_EXCEEDED", "RESOURCE_EXHAUSTED", "ALREADY_EXISTS"}

ASSUME RequestSets ==
    /\ IsFiniteSet(Requests) /\ IsFiniteSet(Conns) /\ IsFiniteSet(Keys)
    /\ NoKey \notin Keys /\ Timed \subseteq Requests
    /\ InlineViewHandler \in BOOLEAN /\ ShardOf \in [Conns -> Shards]
ASSUME ContentsTyped ==
    \A r \in Requests : \A x \in Contents[r] :
        /\ x.conn \in Conns /\ x.key \in Keys \cup {NoKey} /\ x.body \notin Statuses \cup {"none"}
        /\ x.mode \in {"CPU_POOL", "NETWORK_INLINE"}
ASSUME OptionsPositive ==
    /\ MaxInflight \in Nat \ {0} /\ MaxPerConnection \in Nat \ {0}
    /\ Workers \in Nat \ {0} /\ MaxQueue \in Nat \ {0} /\ MaxEntries \in Nat \ {0}

VARIABLES
    content,        \* what each request is; it does not change
    inflight,       \* inflight_count_
    open,           \* the connections that are not closed
    requests,       \* the requests in requests_ of their connection
    phase,          \* where each request stands; "completed" is RequestState::completed
    cancelled,      \* the requests whose context is cancelled
    answer,         \* the response given to each request
    record,         \* idempotency_
    completedKeys,  \* completed_idempotency_keys_
    queue,          \* requests submitted to the worker pool and not started
    running,        \* requests whose handler runs on a worker
    work,           \* what each shard is doing
    inbox,          \* what is posted to each shard
    orphaned        \* history: keys whose record was dropped before its worker was done

requestVars == <<content, requests, phase, cancelled, answer>>
cacheVars == <<record, completedKeys, orphaned>>
shardVars == <<work, inbox>>
vars == <<requestVars, inflight, open, cacheVars, queue, running, shardVars>>

ConnOf(r) == content[r].conn
KeyOf(r) == content[r].key
BodyOf(r) == content[r].body
ModeOf(r) == content[r].mode
Owner(r) == ShardOf[ConnOf(r)]

NoRecord == [state |-> "none", body |-> "none", response |-> "none", waiters |-> <<>>]

Init ==
    /\ content \in {x \in [Requests -> UNION {Contents[r] : r \in Requests}] :
                        \A r \in Requests : x[r] \in Contents[r]}
    /\ inflight = 0 /\ open = Conns /\ requests = {} /\ cancelled = {}
    /\ phase = [r \in Requests |-> "new"] /\ answer = [r \in Requests |-> "none"]
    /\ record = [k \in Keys |-> NoRecord] /\ completedKeys = <<>> /\ orphaned = {}
    /\ queue = <<>> /\ running = {}
    /\ work = [s \in Shards |-> <<>>] /\ inbox = [s \in Shards |-> <<>>]
-----------------------------------------------------------------------------
(* A shard and what it has to do.                                          *)

Call(op, arg) == [op |-> op, arg |-> arg, response |-> "none", cache |-> FALSE]
Reply(op, r, response, cache) == [op |-> op, arg |-> r, response |-> response, cache |-> cache]

Idle(s) == work[s] = <<>>
Doing(s, op) == work[s] # <<>> /\ Head(work[s]).op = op
Item(s) == Head(work[s])
\* The current step is done; calls come next, then the rest of the handler.
Continue(s, calls) == work' = [work EXCEPT ![s] = calls \o Tail(@)]
Begin(s, calls) == work' = [work EXCEPT ![s] = calls]

\* NetworkShard::Post
Post(s, item) == inbox' = [inbox EXCEPT ![s] = Append(@, item)]

\* The owner thread takes the next closure of its inbox.
TakePosted(s) ==
    /\ Idle(s) /\ inbox[s] # <<>>
    /\ Begin(s, <<Head(inbox[s])>>)
    /\ inbox' = [inbox EXCEPT ![s] = Tail(@)]
    /\ UNCHANGED <<requestVars, inflight, open, cacheVars, queue, running>>

\* The reader or the writer closes the connection: the peer has gone or the
\* stream is broken.
ConnectionCloses(c) ==
    /\ Idle(ShardOf[c]) /\ c \in open
    /\ Begin(ShardOf[c], <<Call("close", c)>>)
    /\ UNCHANGED <<requestVars, inflight, open, cacheVars, queue, running, inbox>>

\* Close and OnConnectionClosed: the requests are detached and abandoned.
Close(s) ==
    /\ Doing(s, "close")
    /\ LET c == Item(s).arg
           detached == {r \in requests : ConnOf(r) = c}
       IN  /\ open' = open \ {c}
           /\ requests' = requests \ detached
           /\ \E order \in Bijection(1..Cardinality(detached), detached) :
                 Continue(s, [i \in DOMAIN order |-> Call("abandon", order[i])])
    /\ UNCHANGED <<content, phase, cancelled, answer, inflight, cacheVars, queue, running, inbox>>
-----------------------------------------------------------------------------
(* A request frame on the thread of its shard: OnFrame.                    *)

\* Without a key, an inline request runs in OnFrame and never enters requests_.
InlineView(r) == ModeOf(r) = "NETWORK_INLINE" /\ KeyOf(r) = NoKey /\ InlineViewHandler

\* OnFrame as far as AcquireInflight.  A frame that cannot be parsed, or whose
\* deadline has passed, is refused like one too many.  The peers number their
\* requests, so a request arrives once.
AcquireInflight(r) ==
    LET s == Owner(r)
    IN  /\ Idle(s) /\ ConnOf(r) \in open /\ phase[r] = "new"
        /\ \/ /\ inflight < MaxInflight
              /\ inflight' = inflight + 1
              /\ phase' = [phase EXCEPT ![r] = "counted"]
              /\ Begin(s, <<Call(IF InlineView(r) THEN "inline" ELSE "add", r)>>)
           \/ /\ phase' = [phase EXCEPT ![r] = "refused"]
              /\ UNCHANGED <<inflight, work>>
        /\ UNCHANGED <<content, requests, cancelled, answer, open, cacheVars, queue, running, inbox>>

Late(r) == IF r \in Timed THEN {"DEADLINE_EXCEEDED"} ELSE {}

\* The inline view handler; its response is queued without Finish.
RunInlineView(s) ==
    /\ Doing(s, "inline")
    /\ LET r == Item(s).arg
       IN  /\ inflight' = inflight - 1
           /\ phase' = [phase EXCEPT ![r] = "completed"]
           /\ \E response \in {BodyOf(r), "INTERNAL"} \cup Late(r) :
                 answer' = [answer EXCEPT ![r] = response]
           /\ Continue(s, <<>>)
    /\ UNCHANGED <<content, requests, cancelled, open, cacheVars, queue, running, inbox>>

\* AddRequest
AddRequest(s) ==
    /\ Doing(s, "add")
    /\ LET r == Item(s).arg
           full == Cardinality({q \in requests : ConnOf(q) = ConnOf(r)}) >= MaxPerConnection
       IN  \/ /\ ~full
              /\ requests' = requests \cup {r}
              /\ Continue(s, <<Call(IF KeyOf(r) = NoKey THEN "dispatch" ELSE "lookup", r)>>)
              /\ UNCHANGED <<inflight, phase>>
           \/ /\ full
              /\ inflight' = inflight - 1
              /\ phase' = [phase EXCEPT ![r] = "refused"]
              /\ Continue(s, <<>>)
              /\ UNCHANGED requests
    /\ UNCHANGED <<content, cancelled, answer, open, cacheVars, queue, running, inbox>>
-----------------------------------------------------------------------------
(* The idempotency cache, under idempotency_mutex_.                        *)

Recorded(rec) == {k \in Keys : rec[k].state # "none"}
Done(rec) == {k \in Keys : rec[k].state = "done"}

\* Fault: the keys go and the records stay.
NothingEvicted(rec, keys, n) == {}

\* PruneIdempotencyCache takes keys off the front of the queue, dropping the records
\* of the completed ones, until the cache is below its limit or no key is left.
Evicted(rec, keys, n) == Done(rec) \cap {keys[i] : i \in 1..n}
PruneLength(rec, keys) ==
    CHOOSE n \in 0..Len(keys) :
        /\ n = Len(keys) \/ Cardinality(Recorded(rec) \ Evicted(rec, keys, n)) < MaxEntries
        /\ \A m \in 0..(n - 1) : Cardinality(Recorded(rec) \ Evicted(rec, keys, m)) >= MaxEntries
PrunedRecords(rec, keys) ==
    LET evicted == Evicted(rec, keys, PruneLength(rec, keys))
    IN  [k \in Keys |-> IF k \in evicted THEN NoRecord ELSE rec[k]]
PrunedKeys(rec, keys) == SubSeq(keys, PruneLength(rec, keys) + 1, Len(keys))

NewRecord(r) == [NoRecord EXCEPT !.state = "pending", !.body = BodyOf(r), !.waiters = <<r>>]

\* Fault: only the key is compared.
AnyBody(r) == TRUE

SameBody(r) == record[KeyOf(r)].body = BodyOf(r)

\* Fault: a request that joins a pending record is dispatched as well.
JoinAndDispatch(s) ==
    /\ Doing(s, "lookup")
    /\ LET r == Item(s).arg
           k == KeyOf(r)
       IN  /\ record' = [record EXCEPT ![k] = IF @.state = "pending" THEN [@ EXCEPT !.waiters = Append(@, r)]
                                              ELSE NewRecord(r)]
           /\ Continue(s, <<Call("dispatch", r)>>)
    /\ UNCHANGED <<requestVars, inflight, open, completedKeys, orphaned, queue, running, inbox>>

\* The cache section of OnFrame: join a pending request, answer from the cache,
\* refuse a key that is reused for another body, or enter a new record.
LookUpKey(s) ==
    /\ Doing(s, "lookup")
    /\ LET r == Item(s).arg
           k == KeyOf(r)
           pruned == PrunedRecords(record, completedKeys)
           full == Cardinality(Recorded(pruned)) >= MaxEntries
       IN  \/ /\ record[k].state # "none" /\ ~SameBody(r)
              /\ Continue(s, <<Reply("finish", r, "ALREADY_EXISTS", FALSE)>>)
              /\ UNCHANGED <<record, completedKeys>>
           \/ /\ record[k].state = "pending" /\ SameBody(r)
              /\ record' = [record EXCEPT ![k].waiters = Append(@, r)]
              /\ Continue(s, <<>>)
              /\ UNCHANGED completedKeys
           \/ /\ record[k].state = "done" /\ SameBody(r)
              /\ Continue(s, <<Reply("finish", r, record[k].response, FALSE)>>)
              /\ UNCHANGED <<record, completedKeys>>
           \/ /\ record[k].state = "none"
              /\ record' = IF full THEN pruned ELSE [pruned EXCEPT ![k] = NewRecord(r)]
              /\ completedKeys' = PrunedKeys(record, completedKeys)
              /\ Continue(s, <<IF full THEN Reply("finish", r, "RESOURCE_EXHAUSTED", FALSE) ELSE Call("dispatch", r)>>)
    /\ UNCHANGED <<requestVars, inflight, open, orphaned, queue, running, inbox>>

\* FinishIdempotent: the record is completed or dropped; everybody who waited for
\* it is to be finished.
FinishIdempotent(s) ==
    /\ Doing(s, "finishKey")
    /\ LET i == Item(s)
           k == KeyOf(i.arg)
           waiters == record[k].waiters
           done == [record EXCEPT ![k] = [@ EXCEPT !.state = "done", !.response = i.response, !.waiters = <<>>]]
           keys == Append(completedKeys, k)
       IN  \/ /\ record[k].state = "none"
              /\ Continue(s, <<>>)
              /\ UNCHANGED <<record, completedKeys>>
           \/ /\ record[k].state # "none"
              /\ Continue(s, [n \in DOMAIN waiters |-> Reply("finish", waiters[n], i.response, FALSE)])
              /\ record' = IF i.cache THEN PrunedRecords(done, keys) ELSE [record EXCEPT ![k] = NoRecord]
              /\ completedKeys' = IF i.cache THEN PrunedKeys(done, keys) ELSE completedKeys
    /\ UNCHANGED <<requestVars, inflight, open, orphaned, queue, running, inbox>>

\* The waiters but r, which is among them once at most.
Without(waiters, r) ==
    LET i == CHOOSE n \in DOMAIN waiters : waiters[n] = r
    IN  IF r \in Range(waiters) THEN SubSeq(waiters, 1, i - 1) \o SubSeq(waiters, i + 1, Len(waiters)) ELSE waiters

\* Fault: the record goes with the first request that stops waiting.
DropRecord(r) ==
    IF KeyOf(r) # NoKey /\ record[KeyOf(r)].state = "pending"
    THEN record' = [record EXCEPT ![KeyOf(r)] = NoRecord] /\ orphaned' = orphaned \cup {KeyOf(r)}
    ELSE UNCHANGED <<record, orphaned>>

\* A request that is cancelled or abandoned waits no longer; the record goes with
\* its last waiter, although its handler may still run.
StopWaiting(r) ==
    LET k == KeyOf(r)
        left == Without(record[k].waiters, r)
    IN  IF k # NoKey /\ record[k].state = "pending"
        THEN /\ record' = [record EXCEPT ![k] = IF left = <<>> THEN NoRecord ELSE [@ EXCEPT !.waiters = left]]
             /\ orphaned' = IF left = <<>> THEN orphaned \cup {k} ELSE orphaned
        ELSE UNCHANGED <<record, orphaned>>
-----------------------------------------------------------------------------
(* The handler, inline or on a worker.                                     *)

\* What a completion does: Finish, or FinishIdempotent for a request with a key.
OnWorkerCompletion(r, response, cache) ==
    Reply(IF KeyOf(r) = NoKey THEN "finish" ELSE "finishKey", r, response, cache)

\* A handler that returns has computed the response to its own body; one that
\* throws is INTERNAL and is not cached.
Outcomes(r) == {OnWorkerCompletion(r, BodyOf(r), TRUE), OnWorkerCompletion(r, "INTERNAL", FALSE)}

\* Fault: a request that the pool refuses is finished, and its record stays.
RefusedLeavesRecord(s) ==
    /\ Doing(s, "dispatch")
    /\ LET r == Item(s).arg
       IN  \/ /\ Len(queue) < MaxQueue
              /\ queue' = Append(queue, r)
              /\ Continue(s, <<>>)
           \/ /\ Len(queue) >= MaxQueue
              /\ Continue(s, <<Reply("finish", r, "RESOURCE_EXHAUSTED", FALSE)>>)
              /\ UNCHANGED queue
    /\ UNCHANGED <<requestVars, inflight, open, cacheVars, running, inbox>>

\* The end of OnFrame: run the handler here, or submit it to the pool, which
\* refuses it when its queue is full.
Dispatch(s) ==
    /\ Doing(s, "dispatch")
    /\ LET r == Item(s).arg
       IN  \/ /\ ModeOf(r) = "NETWORK_INLINE"
              /\ \E outcome \in Outcomes(r) : Continue(s, <<outcome>>)
              /\ UNCHANGED queue
           \/ /\ ModeOf(r) = "CPU_POOL" /\ Len(queue) < MaxQueue
              /\ queue' = Append(queue, r)
              /\ Continue(s, <<>>)
           \/ /\ ModeOf(r) = "CPU_POOL" /\ Len(queue) >= MaxQueue
              /\ Continue(s, <<OnWorkerCompletion(r, "RESOURCE_EXHAUSTED", FALSE)>>)
              /\ UNCHANGED queue
    /\ UNCHANGED <<requestVars, inflight, open, cacheVars, running, inbox>>

\* A worker takes the next task and runs its handler, unless it is cancelled already.
WorkerTakes ==
    /\ queue # <<>> /\ Cardinality(running) < Workers
    /\ LET r == Head(queue)
       IN  \/ /\ r \notin cancelled
              /\ running' = running \cup {r}
              /\ UNCHANGED inbox
           \/ /\ r \in cancelled
              /\ Post(Owner(r), OnWorkerCompletion(r, "CANCELLED", FALSE))
              /\ UNCHANGED running
    /\ queue' = Tail(queue)
    /\ UNCHANGED <<requestVars, inflight, open, cacheVars, work>>

\* The handler is done; its completion is posted to the shard of the connection.
HandlerReturns(r) ==
    /\ r \in running
    /\ running' = running \ {r}
    /\ \E outcome \in Outcomes(r) : Post(Owner(r), outcome)
    /\ UNCHANGED <<requestVars, inflight, open, cacheVars, queue, work>>
-----------------------------------------------------------------------------
(* The end of a request.                                                   *)

\* Fault: Finish does not look at completed.
FinishAgain(s) ==
    /\ Doing(s, "finish") /\ Owner(Item(s).arg) = s
    /\ LET r == Item(s).arg
       IN  /\ phase' = [phase EXCEPT ![r] = "completed"]
           /\ inflight' = inflight - 1
           /\ requests' = requests \ {r}
           /\ answer' = [answer EXCEPT ![r] = Item(s).response]
    /\ Continue(s, <<>>)
    /\ UNCHANGED <<content, cancelled, open, cacheVars, queue, running, inbox>>

\* Finish: once per request.  Queueing the response may close the connection, when
\* it does not fit or cannot be written.
Finish(s) ==
    /\ Doing(s, "finish") /\ Owner(Item(s).arg) = s
    /\ LET r == Item(s).arg
       IN  \/ /\ phase[r] = "completed"
              /\ Continue(s, <<>>)
              /\ UNCHANGED <<inflight, requests, phase, cancelled, answer>>
           \/ /\ phase[r] # "completed"
              /\ phase' = [phase EXCEPT ![r] = "completed"]
              /\ inflight' = inflight - 1
              /\ requests' = requests \ {r}
              /\ \/ /\ answer' = [answer EXCEPT ![r] = Item(s).response]
                    /\ UNCHANGED cancelled
                 \/ /\ r \in Timed
                    /\ answer' = [answer EXCEPT ![r] = "DEADLINE_EXCEEDED"]
                    /\ cancelled' = cancelled \cup {r}
              /\ \/ Continue(s, <<>>)
                 \/ ConnOf(r) \in open /\ Continue(s, <<Call("close", ConnOf(r))>>)
    /\ UNCHANGED <<content, open, cacheVars, queue, running, inbox>>

\* FinishOnOwner for a request of another shard.
FinishOnOwner(s) ==
    /\ Doing(s, "finish") /\ Owner(Item(s).arg) # s
    /\ Post(Owner(Item(s).arg), Item(s))
    /\ Continue(s, <<>>)
    /\ UNCHANGED <<requestVars, inflight, open, cacheVars, queue, running>>

\* A cancel frame for r.
Cancel(r) ==
    LET s == Owner(r)
    IN  /\ Idle(s) /\ r \in requests
        /\ cancelled' = cancelled \cup {r}
        /\ StopWaiting(r)
        /\ Begin(s, <<Reply("finish", r, "CANCELLED", FALSE)>>)
        /\ UNCHANGED <<content, requests, phase, answer, inflight, open, completedKeys, queue, running, inbox>>

\* Abandon as far as the inflight count, and its cache section.
Abandon(s) ==
    /\ Doing(s, "abandon")
    /\ LET r == Item(s).arg
       IN  \/ /\ phase[r] = "completed"
              /\ Continue(s, <<>>)
              /\ UNCHANGED <<phase, cancelled, inflight>>
           \/ /\ phase[r] # "completed"
              /\ phase' = [phase EXCEPT ![r] = "completed"]
              /\ cancelled' = cancelled \cup {r}
              /\ inflight' = inflight - 1
              /\ Continue(s, <<Call("stopWaiting", r)>>)
    /\ UNCHANGED <<content, requests, answer, open, cacheVars, queue, running, inbox>>

AbandonKey(s) ==
    /\ Doing(s, "stopWaiting")
    /\ StopWaiting(Item(s).arg)
    /\ Continue(s, <<>>)
    /\ UNCHANGED <<requestVars, inflight, open, completedKeys, queue, running, inbox>>
-----------------------------------------------------------------------------
ShardStep(s) ==
    \/ TakePosted(s) \/ Close(s) \/ RunInlineView(s) \/ AddRequest(s) \/ LookUpKey(s) \/ Dispatch(s)
    \/ FinishIdempotent(s) \/ Finish(s) \/ FinishOnOwner(s) \/ Abandon(s) \/ AbandonKey(s)

WorkerStep == WorkerTakes \/ \E r \in Requests : HandlerReturns(r)

Next ==
    \/ \E s \in Shards : ShardStep(s)
    \/ \E c \in Conns : ConnectionCloses(c)
    \/ \E r \in Requests : AcquireInflight(r) \/ Cancel(r)
    \/ WorkerStep

\* Threads run and handlers return.  The requests are finitely many, so it is enough
\* that some shard, and some worker, that has something to do does it.
Fairness == WF_vars(\E s \in Shards : ShardStep(s)) /\ WF_vars(WorkerStep)

Spec == Init /\ [][Next]_vars /\ Fairness
-----------------------------------------------------------------------------
(* Properties.                                                             *)

Bodies == {BodyOf(r) : r \in Requests}
Calls ==
    [op : {"inline", "add", "lookup", "dispatch", "finish", "finishKey", "abandon", "stopWaiting"},
     arg : Requests, response : Bodies \cup Statuses \cup {"none"}, cache : BOOLEAN]
    \cup [op : {"close"}, arg : Conns, response : {"none"}, cache : {FALSE}]

Records ==
    [state : {"none", "pending", "done"}, body : Bodies \cup {"none"}, response : Bodies \cup {"none"},
     waiters : Seq(Requests)]

\* Type invariant of the request state of RpcServer and its shards.
TypeOK ==
    /\ \A r \in Requests : content[r] \in Contents[r]
    /\ inflight \in 0..MaxInflight /\ open \subseteq Conns
    /\ requests \subseteq Requests /\ cancelled \subseteq Requests /\ running \subseteq Requests
    /\ phase \in [Requests -> {"new", "counted", "refused", "completed"}]
    /\ answer \in [Requests -> Bodies \cup Statuses \cup {"none"}]
    /\ record \in [Keys -> Records]
    /\ completedKeys \in Seq(Keys) /\ queue \in Seq(Requests) /\ orphaned \subseteq Keys
    /\ work \in [Shards -> Seq(Calls)] /\ inbox \in [Shards -> Seq(Calls)]

\* inflight_count_ is the number of requests admitted and not completed, whichever of
\* Finish, Abandon, AddRequest and the inline path ends them, and in whatever order
\* a completion, a cancel frame and a closing connection reach them.
InflightBalanced == TypeOK /\ inflight = Cardinality({r \in Requests : phase[r] = "counted"})

\* The calls that shards are making or have been sent, and the tasks of a key that
\* OnFrame has yet to submit, a worker has, or FinishIdempotent has yet to see.
Calling(s) == Range(work[s]) \cup Range(inbox[s])
TasksOf(k) ==
    {r \in Requests :
        /\ KeyOf(r) = k
        /\ \/ r \in Range(queue) \cup running
           \/ \E s \in Shards : \E i \in Calling(s) : i.arg = r /\ i.op \in {"dispatch", "finishKey"}}

\* Whoever joins a pending record waits for a task that is still to complete: a
\* cancel, a close or a late completion never leaves a record nobody will complete.
RecordHasTask == \A k \in Keys : record[k].state = "pending" => TasksOf(k) # {}

\* Requests with the same key are merged: a second task of a key exists only after
\* Cancel or Abandon dropped the record of the first.
SingleFlight == \A k \in Keys \ orphaned : Cardinality(TasksOf(k)) <= 1

\* A handler's response goes only to requests with the body it was computed for, unless
\* the key lost its record to Cancel or Abandon; and CANCELLED only to a request that
\* was cancelled itself or shares its key with one that was.
AnswerExplained ==
    \A r \in Requests :
        /\ answer[r] \in Bodies /\ KeyOf(r) \notin orphaned => answer[r] = BodyOf(r)
        /\ answer[r] = "CANCELLED" =>
              \E q \in cancelled : q = r \/ (KeyOf(q) = KeyOf(r) /\ KeyOf(r) # NoKey)

\* The cache never exceeds max_idempotency_entries, and every completed record can be
\* evicted: its key is still in completed_idempotency_keys_.
CacheBounded ==
    /\ Cardinality(Recorded(record)) <= MaxEntries
    /\ Done(record) \subseteq Range(completedKeys)

\* A request is answered once, and one that is completed or refused stays so.
AnsweredOnce ==
    [][\A r \in Requests :
        /\ answer[r] # "none" => answer'[r] = answer[r]
        /\ phase[r] \in {"completed", "refused"} => phase'[r] = phase[r] /\ answer'[r] = answer[r]]_vars

\* An admitted request comes to an end, waiters merged across shards included.
EveryRequestEnds == \A r \in Requests : []<>(phase[r] # "counted")
=============================================================================
