-------------------------- MODULE ServerConnection --------------------------
(***************************************************************************)
(* One connection of the server, on the thread of its network shard.  The  *)
(* reader coroutine feeds the decoder and hands every frame to OnFrame;    *)
(* answers are queued, and the writer coroutine sends them in batches; the *)
(* shard's closures finish requests, begin the drain and close everything. *)
(*                                                                         *)
(* Queueing an answer resumes the writer in the middle of its caller, and  *)
(* the writer may close the connection there, so the running coroutines    *)
(* form a stack whose last element runs, and each keeps the list of steps  *)
(* it still has to take.  The request's own life (deadline, cancellation,  *)
(* counters) is in ServerRequests, the shards' drain in ServerDrain.       *)
(***************************************************************************)
EXTENDS FrameDecoder, FiniteSets, SequencesExt

CONSTANTS
    Frames,          \* the streams the peer may send
    AnswerSize,      \* AnswerSize[i]: the encoded answer to frame i
    MaxInflight,     \* max_inflight_per_connection
    MaxOutbound,     \* max_outbound_bytes_per_connection
    BatchBytes       \* kWriteBatchBytes

VARIABLES
    closed, draining,   \* closed_, draining_
    requests,           \* the keys of requests_
    detached,           \* requests taken by DetachRequests
    outbound,           \* outbound_: answers, each the number of its frame
    outboundBytes,      \* outbound_bytes_
    batch,              \* the answers of write_batch_ that are not completely sent
    part,               \* bytes sent of the first of them
    io,                 \* the state of the reader's and the writer's routine
    ready,              \* the shard's ready queue
    stack,              \* who runs; the last one has the thread
    program,            \* the steps each still has to take
    reply,              \* the answer each is queueing
    received,           \* bytes of the stream the kernel has for us
    peer,               \* "open", "finished" its sending side, or "gone"
    wire,               \* answers completely given to the kernel
    queued, accepted,   \* history: answers queued, requests accepted
    drained             \* history: MaybeCloseAfterDrain closed the connection

connVars == <<closed, draining, requests, detached, outbound, outboundBytes, batch, part, io, ready,
              stack, program, reply, received, peer, wire, queued, accepted, drained>>
vars == <<decoderVars, connVars>>

Fibers == {"reader", "writer"}
Actors == Fibers \cup {"task"}

StreamLength == FoldLeft(LAMBDA n, f : n + HeaderSize + Payload(f), 0, frames)
Bytes(answers) == FoldLeft(LAMBDA n, a : n + AnswerSize[a], 0, answers)

\* Start: the reader runs first, then the writer.
Init ==
    /\ frames \in Frames
    /\ DecoderInit
    /\ closed = FALSE /\ draining = FALSE /\ requests = {} /\ detached = {}
    /\ outbound = <<>> /\ outboundBytes = 0 /\ batch = <<>> /\ part = 0
    /\ io = [f \in Fibers |-> IF f = "reader" THEN "RUNNING" ELSE "INIT"]
    /\ ready = <<>>
    /\ stack = <<"task", "reader">>
    /\ program = [a \in Actors |-> CASE a = "reader" -> <<"receive">>
                                     [] a = "writer" -> <<"send">>
                                     [] OTHER -> <<"startWriter">>]
    /\ reply = [a \in Actors |-> 0]
    /\ received = 0 /\ peer = "open"
    /\ wire = <<>> /\ queued = <<>> /\ accepted = {} /\ drained = FALSE
-----------------------------------------------------------------------------
Running == Last(stack)
At(a, step) == stack # <<>> /\ Running = a /\ program[a] # <<>> /\ program[a][1] = step
Then(a, steps) == program' = [program EXCEPT ![a] = steps \o Tail(@)]
Idle == stack = <<>>

\* What Resume does to a routine that is not finished.
Resumes(f) == io' = [io EXCEPT ![f] = "RUNNING"] /\ stack' = Append(stack, f)

StartWriter ==
    /\ At("task", "startWriter")
    /\ Then("task", <<>>)
    /\ Resumes("writer")
    /\ UNCHANGED <<decoderVars, closed, draining, requests, detached, outbound, outboundBytes, batch, part, ready,
                   reply, received, peer, wire, queued, accepted, drained>>

\* A closure of the shard is done.
TaskEnds ==
    /\ stack # <<>> /\ Running = "task" /\ program["task"] = <<>>
    /\ stack' = Front(stack)
    /\ UNCHANGED <<decoderVars, closed, draining, requests, detached, outbound, outboundBytes, batch, part, io, ready,
                   program, reply, received, peer, wire, queued, accepted, drained>>

\* Close, called by actor a, which ends with it if `leaves'.  AsyncSocket::Close wakes
\* the fibers that wait for the descriptor with CANCELLED; a writer that waits for
\* work is resumed there and then, sees closed_ and ends; OnConnectionClosed
\* detaches and abandons the requests.
Woken == SelectSeq(<<"reader", "writer">>, LAMBDA f : io[f] = "WAIT_IO")

Close(a, leaves, byDrain) ==
    LET Cancelled(f) == CASE io[f] = "WAIT_IO" -> "CANCELLED"
                          [] io[f] = "WAIT_EVENT" -> "FINISHED"
                          [] OTHER -> io[f]
        IoThen(f) == IF leaves /\ f = a THEN "FINISHED" ELSE IF closed THEN io[f] ELSE Cancelled(f)
    IN  /\ closed' = TRUE
        /\ requests' = {} /\ detached' = detached \cup requests
        /\ outbound' = <<>> /\ outboundBytes' = 0
        /\ io' = [f \in Fibers |-> IoThen(f)]
        /\ ready' = IF closed THEN ready ELSE ready \o Woken
        /\ drained' = IF closed THEN drained ELSE byDrain

ClosesDrained(a) ==
    /\ Close(a, FALSE, TRUE)
    /\ Then(a, <<>>)
    /\ UNCHANGED <<draining, batch, part, stack, reply, received, peer, wire, queued, accepted>>

\* Fault: the drain ignores requests that are still with their handler.
DrainIgnoresRequests == draining /\ outbound = <<>>

MayCloseAfterDrain == draining /\ requests = {} /\ outbound = <<>>

MaybeCloseAfterDrain(a) ==
    /\ At(a, "maybeClose")
    /\ \/ MayCloseAfterDrain /\ ClosesDrained(a)
       \/ ~MayCloseAfterDrain /\ Then(a, <<>>)
          /\ UNCHANGED <<closed, draining, requests, detached, outbound, outboundBytes, batch, part, io, ready, stack,
                         reply, received, peer, wire, queued, accepted, drained>>
    /\ UNCHANGED decoderVars

\* QueueFrame and QueueEncoded; an answer that cannot be encoded is one that
\* does not fit.
Fits(answer) == AnswerSize[answer] <= MaxOutbound /\ outboundBytes <= MaxOutbound - AnswerSize[answer]

\* Fault: the writer is resumed only when answers had piled up before.
WakesWriterLate == io["writer"] = "WAIT_EVENT" /\ outbound # <<>>

WakesWriter == io["writer"] = "WAIT_EVENT"

QueueFrame(a) ==
    /\ At(a, "queue")
    /\ \/ closed /\ Then(a, <<>>)
          /\ UNCHANGED <<closed, requests, detached, outbound, outboundBytes, io, ready, stack, queued, drained>>
       \/ ~closed /\ ~Fits(reply[a]) /\ Close(a, FALSE, FALSE) /\ Then(a, <<>>)
          /\ UNCHANGED <<stack, queued>>
       \/ /\ ~closed /\ Fits(reply[a]) /\ Then(a, <<>>)
          /\ outbound' = Append(outbound, reply[a])
          /\ outboundBytes' = outboundBytes + AnswerSize[reply[a]]
          /\ queued' = Append(queued, reply[a])
          /\ IF WakesWriter THEN Resumes("writer") ELSE UNCHANGED <<io, stack>>
          /\ UNCHANGED <<closed, requests, detached, ready, drained>>
    /\ reply' = [reply EXCEPT ![a] = 0]
    /\ UNCHANGED <<decoderVars, draining, batch, part, received, peer, wire, accepted>>
-----------------------------------------------------------------------------
(* ReaderLoop                                                              *)

Unread == received - (base + size)

\* The loops' exits call Close and end the coroutine.
ClosesAndLeaves(f) ==
    /\ Close(f, TRUE, FALSE)
    /\ stack' = Front(stack)
    /\ program' = [program EXCEPT ![f] = <<>>]
    /\ UNCHANGED <<draining, batch, part, reply, received, peer, wire, queued, accepted>>

ReaderStep(steps) ==
    /\ Then("reader", steps)
    /\ UNCHANGED <<closed, draining, requests, detached, outbound, outboundBytes, batch, part, io, ready, stack,
                   reply, received, peer, wire, queued, accepted, drained>>

ReaderPrepares ==
    /\ At("reader", "receive")
    /\ \/ closed /\ ClosesAndLeaves("reader") /\ UNCHANGED decoderVars
       \/ ~closed /\ PrepareWritable(ReadSize) /\ ReaderStep(<<"read">>)
       \/ ~closed /\ PrepareRefused(ReadSize) /\ ClosesAndLeaves("reader")

\* AsyncSocket::Read on the connection's descriptor, which is invalid once closed.
ReaderReads ==
    /\ At("reader", "read")
    /\ \/ /\ ~closed /\ peer # "gone" /\ Unread > 0
          /\ CommitWritable(MinOf(ReadSize, Unread))
          /\ ReaderStep(<<"decode">>)
       \/ /\ ~closed /\ peer = "open" /\ Unread = 0
          /\ io' = [io EXCEPT !["reader"] = "WAIT_IO"]
          /\ stack' = Front(stack)
          /\ UNCHANGED <<decoderVars, closed, draining, requests, detached, outbound, outboundBytes, batch, part, ready,
                         program, reply, received, peer, wire, queued, accepted, drained>>
       \/ /\ closed \/ peer = "gone" \/ (peer = "finished" /\ Unread = 0)
          /\ CommitWritable(0)
          /\ ClosesAndLeaves("reader")

ReaderDecodes ==
    /\ At("reader", "decode")
    /\ \/ DecodeHeader /\ UNCHANGED connVars
       \/ TakeFrame /\ ReaderStep(<<"frame">>)
       \/ Starved /\ ReaderStep(<<"receive">>) /\ UNCHANGED decoderVars
       \/ dstate = "FAILED" /\ ClosesAndLeaves("reader") /\ UNCHANGED decoderVars
-----------------------------------------------------------------------------
(* OnFrame                                                                 *)

\* Answered on the spot: the server accepts no requests, the metadata, the deadline
\* or a limit refuses it, or the inline handler answers it.
AnswerAtOnce(i) ==
    /\ reply' = [reply EXCEPT !["reader"] = i]
    /\ Then("reader", <<"queue", "framed">>)
    /\ UNCHANGED <<requests, accepted>>

\* AddRequest succeeds; the server accepts until it drains.
Accept(i) ==
    /\ ~draining /\ Cardinality(requests) < MaxInflight
    /\ requests' = requests \cup {i}
    /\ accepted' = accepted \cup {i}
    /\ Then("reader", <<"framed">>)
    /\ UNCHANGED reply

\* A CANCEL frame: of a request that is not there, or CompleteRequest of r.
CancelFrame ==
    \/ /\ Then("reader", <<"framed">>)
       /\ UNCHANGED <<requests, reply, accepted>>
    \/ \E r \in requests :
          /\ requests' = requests \ {r}
          /\ reply' = [reply EXCEPT !["reader"] = r]
          /\ Then("reader", <<"queue", "maybeClose", "framed">>)
          /\ UNCHANGED accepted

OnFrame ==
    /\ At("reader", "frame")
    /\ \/ /\ AnswerAtOnce(next - 1) \/ Accept(next - 1) \/ CancelFrame
          /\ UNCHANGED <<closed, draining, detached, outbound, outboundBytes, batch, part, io, ready, stack,
                         received, peer, wire, queued, drained>>
       \/ /\ Close("reader", FALSE, FALSE) /\ Then("reader", <<"framed">>)
          /\ UNCHANGED <<draining, batch, part, stack, reply, received, peer, wire, queued, accepted>>
    /\ UNCHANGED decoderVars

ReaderGoesOn ==
    /\ At("reader", "framed")
    /\ \/ closed /\ ClosesAndLeaves("reader")
       \/ ~closed /\ ReaderStep(<<"decode">>)
    /\ UNCHANGED decoderVars
-----------------------------------------------------------------------------
(* WriterLoop                                                              *)

\* The answers one batch takes: the first, and as many more as fit.
BatchLength ==
    CHOOSE k \in 1..Len(outbound) :
        /\ \A j \in 2..k : Bytes(SubSeq(outbound, 1, j)) <= BatchBytes
        /\ k < Len(outbound) => Bytes(SubSeq(outbound, 1, k + 1)) > BatchBytes

\* Fault: the batch is taken from the newest answers.
FillFromBack(k) == SubSeq(outbound, Len(outbound) - k + 1, Len(outbound))

Taken(k) == SubSeq(outbound, 1, k)

WriterTakesBatch ==
    /\ At("writer", "send")
    /\ \/ /\ closed
          /\ io' = [io EXCEPT !["writer"] = "FINISHED"]
          /\ stack' = Front(stack)
          /\ program' = [program EXCEPT !["writer"] = <<>>]
          /\ UNCHANGED <<outbound, outboundBytes, batch>>
       \/ /\ ~closed /\ outbound = <<>>
          /\ io' = [io EXCEPT !["writer"] = "WAIT_EVENT"]
          /\ stack' = Front(stack)
          /\ UNCHANGED <<program, outbound, outboundBytes, batch>>
       \/ /\ ~closed /\ outbound # <<>>
          /\ batch' = Taken(BatchLength)
          /\ outbound' = SubSeq(outbound, BatchLength + 1, Len(outbound))
          /\ outboundBytes' = outboundBytes - Bytes(batch')
          /\ Then("writer", <<"write", "maybeClose", "send">>)
          /\ UNCHANGED <<io, stack>>
    /\ UNCHANGED <<decoderVars, closed, draining, requests, detached, part, ready, reply, received, peer, wire,
                   queued, accepted, drained>>

\* What is left of the batch when n bytes more than `part' have been sent.
SentAfter(n) ==
    CHOOSE k \in 0..Len(batch) :
        /\ Bytes(SubSeq(batch, 1, k)) <= part + n
        /\ k < Len(batch) => Bytes(SubSeq(batch, 1, k + 1)) > part + n

Advance(n) ==
    /\ wire' = wire \o SubSeq(batch, 1, SentAfter(n))
    /\ batch' = SubSeq(batch, SentAfter(n) + 1, Len(batch))
    /\ part' = part + n - Bytes(SubSeq(batch, 1, SentAfter(n)))

Remaining == Bytes(batch) - part

\* WriteAll: the kernel takes everything, or a part and the writer waits, or fails.
WriterCompletes ==
    /\ At("writer", "write") /\ ~closed /\ peer # "gone"
    /\ Advance(Remaining)
    /\ Then("writer", <<>>)
    /\ UNCHANGED <<decoderVars, closed, draining, requests, detached, outbound, outboundBytes, io, ready, stack,
                   reply, received, peer, queued, accepted, drained>>

WriterBlocks ==
    /\ At("writer", "write") /\ ~closed /\ peer # "gone"
    /\ \E n \in 0..(Remaining - 1) : Advance(n)
    /\ io' = [io EXCEPT !["writer"] = "WAIT_IO"]
    /\ stack' = Front(stack)
    /\ UNCHANGED <<decoderVars, closed, draining, requests, detached, outbound, outboundBytes, ready, program,
                   reply, received, peer, queued, accepted, drained>>

WriterFails ==
    /\ At("writer", "write") /\ (closed \/ peer = "gone")
    /\ ClosesAndLeaves("writer")
    /\ UNCHANGED decoderVars
-----------------------------------------------------------------------------
(* The shard's closures, its event loop, and the peer                      *)

Task(steps) ==
    /\ Idle
    /\ stack' = <<"task">>
    /\ program' = [program EXCEPT !["task"] = steps]
    /\ UNCHANGED <<decoderVars, closed, outbound, outboundBytes, batch, part, io, ready, received, peer,
                   wire, queued, accepted, drained>>

\* The closure of a request that finished; the connection may have been closed, and
\* the request detached, between the finish and the closure.
CompleteRequest(r) ==
    /\ Task(<<"queue", "maybeClose">>)
    /\ requests' = requests \ {r} /\ detached' = detached \ {r}
    /\ reply' = [reply EXCEPT !["task"] = r]
    /\ UNCHANGED draining

BeginDrain ==
    /\ ~closed /\ ~draining
    /\ Task(<<"maybeClose">>)
    /\ draining' = TRUE
    /\ UNCHANGED <<requests, detached, reply>>

CloseAllConnections ==
    /\ Idle /\ ~closed
    /\ Close("task", FALSE, FALSE)
    /\ UNCHANGED <<decoderVars, draining, batch, part, stack, program, reply, received, peer, wire,
                   queued, accepted>>

\* RunReady resumes the routine at the front; Poll makes one ready.
RunReady ==
    /\ Idle /\ ready # <<>>
    /\ ready' = Tail(ready)
    /\ Resumes(Head(ready))
    /\ UNCHANGED <<decoderVars, closed, draining, requests, detached, outbound, outboundBytes, batch, part, program,
                   reply, received, peer, wire, queued, accepted, drained>>

Readiness(f) == f = "reader" => Unread > 0 \/ peer # "open"

Poll(f) ==
    /\ Idle /\ io[f] = "WAIT_IO" /\ Readiness(f)
    /\ io' = [io EXCEPT ![f] = "IO_READY"]
    /\ ready' = Append(ready, f)
    /\ UNCHANGED <<decoderVars, closed, draining, requests, detached, outbound, outboundBytes, batch, part, stack, program,
                   reply, received, peer, wire, queued, accepted, drained>>

\* The peer's steps only matter to the next system call or the next poll.
PeerMatters == Idle \/ At("reader", "read") \/ At("writer", "write")

PeerSends ==
    /\ PeerMatters /\ peer = "open" /\ \E n \in (received + 1)..StreamLength : received' = n
    /\ UNCHANGED <<decoderVars, closed, draining, requests, detached, outbound, outboundBytes, batch, part, io, ready,
                   stack, program, reply, peer, wire, queued, accepted, drained>>

PeerLeaves ==
    /\ PeerMatters
    /\ \/ peer = "open" /\ peer' = "finished"
       \/ peer # "gone" /\ peer' = "gone"
    /\ UNCHANGED <<decoderVars, closed, draining, requests, detached, outbound, outboundBytes, batch, part, io, ready,
                   stack, program, reply, received, wire, queued, accepted, drained>>

\* Nothing is left to run.
Ended == closed /\ Idle /\ \A f \in Fibers : io[f] = "FINISHED"

Thread ==
    \/ StartWriter \/ TaskEnds
    \/ ReaderPrepares \/ ReaderReads \/ ReaderDecodes \/ OnFrame \/ ReaderGoesOn
    \/ WriterTakesBatch \/ WriterCompletes \/ WriterBlocks \/ WriterFails
    \/ \E a \in Actors : QueueFrame(a) \/ MaybeCloseAfterDrain(a)

Next ==
    \/ Thread
    \/ \E r \in requests \cup detached : CompleteRequest(r)
    \/ BeginDrain \/ CloseAllConnections
    \/ RunReady \/ \E f \in Fibers : Poll(f)
    \/ PeerSends \/ PeerLeaves
    \/ Ended /\ UNCHANGED vars

\* The shard's thread runs, its loop polls, handlers return, and a peer that stays
\* reads its answers: a batch that could be completed again and again is completed.
Spec ==
    /\ Init /\ [][Next]_vars
    /\ WF_vars(Thread) /\ WF_vars(RunReady)
    /\ \A f \in Fibers : WF_vars(Poll(f))
    /\ WF_vars(\E r \in requests \cup detached : CompleteRequest(r))
    /\ SF_vars(WriterCompletes)
-----------------------------------------------------------------------------
\* While the connection is open every answer queued is on the wire, in the batch or
\* in the queue, once and in the order of QueueFrame, and outbound_bytes_ counts the
\* queue exactly, within its limit (rpc_server.cpp 790-806, 911-939).
NoAnswerLost ==
    /\ ~closed => /\ wire \o batch \o outbound = queued
                  /\ outboundBytes = Bytes(outbound) /\ outboundBytes <= MaxOutbound
    /\ IsPrefix(wire, queued)

\* A connection the drain closes has answered every request it accepted, and all
\* its answers were sent but for those of the batch the writer was suspended on:
\* MaybeCloseAfterDrain does not look at write_batch_ (rpc_server.cpp 941-947).
DrainAnswersAll ==
    drained =>
        /\ accepted \subseteq ToSet(queued)
        /\ wire \o batch = queued

\* Once the connection drains or the peer stops sending, it closes and both of its
\* coroutines end: no writer sleeps on a queue that is not empty or on a connection
\* that is closed (rpc_server.cpp 837-939).
ConnectionEnds == (draining \/ peer # "open") ~> Ended
=============================================================================
