------------------------- MODULE ClientShardProofs -------------------------
(***************************************************************************)
(* Proofs about ClientShard for any finite set of tasks and any capacity:  *)
(* the slot accounting, the queues and the wakeup protocol are safe.       *)
(***************************************************************************)
EXTENDS ClientShard, FiniteSetTheorems, TLAPS

USE TasksFinite, NobodyIsNoTask, CapacityPositive

\* The calls that hold a slot are finitely many.
LEMMA ReservingFinite == IsFiniteSet(Reserving) /\ Cardinality(Reserving) \in Nat
<1>1. Reserving \subseteq Tasks BY DEF Reserving
<1> QED BY <1>1, FS_Subset, FS_CardinalityType

\* A reservation adds the task to the slot holders, a release removes it.
LEMMA SlotTaken ==
    ASSUME NEW t \in Tasks, t \notin Reserving, Reserving' = Reserving \cup {t}
    PROVE  Cardinality(Reserving') = Cardinality(Reserving) + 1
BY ReservingFinite, FS_AddElement

\* A release takes the task out of the slot holders.
LEMMA SlotFreed ==
    ASSUME NEW t \in Tasks, t \in Reserving, Reserving' = Reserving \ {t}
    PROVE  Cardinality(Reserving') = Cardinality(Reserving) - 1
BY ReservingFinite, FS_RemoveElement

\* Taking the front of a queue: TryPop and RunReady.
LEMMA TailFacts ==
    ASSUME NEW q \in Seq(Tasks), q # <<>>
    PROVE  /\ Head(q) \in Tasks /\ Tail(q) \in Seq(Tasks) /\ Len(Tail(q)) = Len(q) - 1
           /\ 1 \in 1..Len(q) /\ Head(q) = q[1]
           /\ \A i \in 1..Len(Tail(q)) : i + 1 \in 1..Len(q) /\ Tail(q)[i] = q[i + 1]
OBVIOUS

\* Adding to the end of a queue: Spawn.
LEMMA AppendFacts ==
    ASSUME NEW q \in Seq(Tasks), NEW t \in Tasks
    PROVE  /\ Append(q, t) \in Seq(Tasks) /\ Len(Append(q, t)) = Len(q) + 1
           /\ Append(q, t)[Len(q) + 1] = t
           /\ \A i \in 1..Len(q) : Append(q, t)[i] = q[i]
OBVIOUS

\* Adding to the front of the list: MpscQueue::Push.
LEMMA PushFacts ==
    ASSUME NEW q \in Seq(Tasks), NEW t \in Tasks
    PROVE  /\ <<t>> \o q \in Seq(Tasks) /\ Len(<<t>> \o q) = Len(q) + 1
           /\ (<<t>> \o q)[1] = t
           /\ \A i \in 1..Len(q) : (<<t>> \o q)[i + 1] = q[i]
OBVIOUS

\* Adding several routines to a queue: Poll.
LEMMA ConcatFacts ==
    ASSUME NEW p \in Seq(Tasks), NEW q \in Seq(Tasks)
    PROVE  /\ p \o q \in Seq(Tasks) /\ Len(p \o q) = Len(p) + Len(q)
           /\ \A i \in 1..Len(p) : (p \o q)[i] = p[i]
           /\ \A i \in 1..Len(q) : (p \o q)[Len(p) + i] = q[i]
OBVIOUS

\* Reversing the inbox list keeps its elements.
LEMMA ReverseFacts ==
    ASSUME NEW q \in Seq(Tasks)
    PROVE  /\ Reverse(q) \in Seq(Tasks) /\ Len(Reverse(q)) = Len(q)
           /\ \A i \in 1..Len(q) : Reverse(q)[i] = q[Len(q) - i + 1]
BY DEF Reverse

\* The routines Poll wakes enter the ready queue once each, in some order.
LEMMA OrderFacts ==
    ASSUME NEW S \in SUBSET Tasks, NEW order \in SetToSeqs(S)
    PROVE  /\ order \in Seq(Tasks)
           /\ \A i \in 1..Len(order) : order[i] \in S
           /\ NoDup(order)
           /\ \A t \in S : Holds(order, t)
<1>1. IsFiniteSet(S) /\ Cardinality(S) \in Nat BY FS_Subset, FS_CardinalityType
<1>2. order \in [1..Cardinality(S) -> S] BY DEF SetToSeqs
<1>3. order \in Seq(S) /\ Len(order) = Cardinality(S) BY <1>1, <1>2
<1>4. \A i, j \in 1..Cardinality(S) : i # j => order[i] # order[j] BY DEF SetToSeqs
<1>5. order \in Injection(1..Cardinality(S), S) BY <1>2, <1>4 DEF Injection, IsInjective
<1>6. Cardinality(1..Cardinality(S)) = Cardinality(S) BY <1>1, FS_Interval
<1>7. order \in Surjection(1..Cardinality(S), S) BY <1>1, <1>5, <1>6, FS_Injection
<1>8. \A t \in S : Holds(order, t) BY <1>3, <1>7 DEF Surjection, Holds
<1> QED BY <1>2, <1>3, <1>4, <1>8 DEF NoDup
-----------------------------------------------------------------------------
(* The types.                                                              *)

\* Every step keeps the types of the flags.
LEMMA FlagsStep == FlagsOK /\ [Next]_vars => FlagsOK'
<1> SUFFICES ASSUME FlagsOK, [Next]_vars PROVE FlagsOK' OBVIOUS
<1> USE DEF FlagsOK
<1>1. ASSUME NEW t \in Tasks, SubmitStep(t) PROVE FlagsOK'
  BY <1>1, Zenon DEF SubmitStep, PickShard, AdmitCall, TryReserve, RecheckAccepting, PostLock,
     Push, WakeOwner, ReleaseUnposted, stopVars, inboxVars, ownerVars
<1>2. ASSUME NEW t \in Tasks, RoutineStep(t) PROVE FlagsOK'
  BY <1>2, Zenon DEF RoutineStep, Suspend, Complete, ReleaseSlot, CloseResumes,
     stopVars, inboxVars, ownerVars
<1>3. ASSUME OwnerStep PROVE FlagsOK'
  BY <1>3, Zenon DEF OwnerStep, LoopTest, DrainOne, ResumeFront, RunReadyDone, Poll,
     ConnectionsClosed, stopVars, inboxVars
<1>4. ASSUME StopStep PROVE FlagsOK'
  BY <1>4, Zenon DEF StopStep, StopClient, StopWake, StopJoin, inboxVars, ownerVars
<1>5. CASE UNCHANGED vars
  BY <1>5, Zenon DEF vars, stopVars, inboxVars, ownerVars
<1> QED BY <1>1, <1>2, <1>3, <1>4, <1>5 DEF Next

\* DrainInbox hands out distinct tasks of the inbox, and misses none.
LEMMA PendingFacts ==
    ASSUME DataOK, HeldOnce
    PROVE  /\ Pending \in Seq(Tasks) /\ NoDup(Pending) /\ AllAt(Pending, "inbox")
           /\ drained = <<>> => \A t \in Tasks : Holds(head, t) => Holds(Pending, t)
<1>1. CASE drained # <<>>
  BY <1>1 DEF Pending, DataOK, HeldOnce
<1>2. CASE drained = <<>>
  <2> DEFINE n == Len(head)
  <2>1. Pending = Reverse(head) /\ n \in Nat /\ head \in Seq(Tasks) BY <1>2 DEF Pending, DataOK
  <2>2. Pending \in Seq(Tasks) /\ Len(Pending) = n
        /\ \A i \in 1..n : Pending[i] = head[n - i + 1]
    BY <2>1, ReverseFacts
  <2>3. NoDup(Pending) /\ AllAt(Pending, "inbox")
    <3>1. NoDup(head) /\ AllAt(head, "inbox") BY DEF HeldOnce
    <3>2. \A i \in 1..n : n - i + 1 \in 1..n BY <2>1
    <3>3. AllAt(Pending, "inbox") BY <2>2, <3>1, <3>2 DEF AllAt, At
    <3>4. ASSUME NEW i \in 1..n, NEW j \in 1..n, i # j PROVE Pending[i] # Pending[j]
      <4>1. n - i + 1 # n - j + 1 BY <2>1, <3>4
      <4> QED BY <2>2, <3>1, <3>2, <4>1 DEF NoDup
    <3> QED BY <2>2, <3>3, <3>4 DEF NoDup
  <2>4. \A t \in Tasks : Holds(head, t) => Holds(Pending, t)
    <3> SUFFICES ASSUME NEW t \in Tasks, NEW i \in 1..n, head[i] = t PROVE Holds(Pending, t)
      BY DEF Holds
    <3>1. n - i + 1 \in 1..n /\ Pending[n - i + 1] = head[n - (n - i + 1) + 1] BY <2>1, <2>2
    <3>2. n - (n - i + 1) + 1 = i BY <2>1
    <3> QED BY <2>2, <3>1, <3>2 DEF Holds
  <2> QED BY <2>2, <2>3, <2>4
<1> QED BY <1>1, <1>2

\* A task that holds a slot keeps the counter above zero.
LEMMA SlotHeld ==
    ASSUME SlotsBalanced, NEW t \in Tasks, t \in Reserving
    PROVE  reservedCalls \in Nat \ {0} /\ reservedCalls - 1 \in Nat
<1>1. Cardinality(Reserving) # 0 BY ReservingFinite, FS_EmptySet
<1> QED BY <1>1, ReservingFinite DEF SlotsBalanced

\* Every step keeps the types of the rest; a release needs a slot holder, and a
\* drain or a resume a task of a queue.
LEMMA DataStep == DataOK /\ SlotsBalanced /\ HeldOnce /\ [Next]_vars => DataOK'
<1> SUFFICES ASSUME DataOK, SlotsBalanced, HeldOnce, [Next]_vars PROVE DataOK' OBVIOUS
<1> USE DEF DataOK, At, Goto, TaskPcs, OwnerPcs, StopPcs
<1>1. ASSUME NEW t \in Tasks, SubmitStep(t) PROVE DataOK'
  <2> USE DEF stopVars, submitVars, inboxVars, ownerVars
  <2>1. CASE PickShard(t) \/ AdmitCall(t) \/ RecheckAccepting(t)
    BY <2>1 DEF PickShard, AdmitCall, RecheckAccepting
  <2>2. CASE TryReserve(t) BY <2>2 DEF TryReserve
  <2>3. CASE PostLock(t) BY <2>3 DEF PostLock
  <2>4. CASE Push(t) BY <2>4 DEF Push
  <2>5. CASE WakeOwner(t) BY <2>5 DEF WakeOwner
  <2>6. CASE ReleaseUnposted(t)
    <3>1. t \in Reserving BY <2>6 DEF ReleaseUnposted, Reserving
    <3> QED BY <2>6, <3>1, SlotHeld DEF ReleaseUnposted
  <2> QED BY <1>1, <2>1, <2>2, <2>3, <2>4, <2>5, <2>6 DEF SubmitStep
<1>2. ASSUME NEW t \in Tasks, RoutineStep(t) PROVE DataOK'
  <2> USE DEF stopVars, submitVars, inboxVars, ownerVars
  <2>1. CASE Suspend(t) \/ Complete(t) \/ CloseResumes(t)
    BY <2>1 DEF Suspend, Complete, CloseResumes
  <2>2. CASE ReleaseSlot(t)
    <3>1. t \in Reserving BY <2>2 DEF ReleaseSlot, Reserving
    <3> QED BY <2>2, <3>1, SlotHeld DEF ReleaseSlot
  <2> QED BY <1>2, <2>1, <2>2 DEF RoutineStep
<1>3. ASSUME OwnerStep PROVE DataOK'
  <2> USE DEF stopVars, submitVars, inboxVars
  <2>1. CASE LoopTest BY <2>1 DEF LoopTest, LeaveDrive
  <2>2. CASE DrainOne
    <3>1. Pending \in Seq(Tasks) BY PendingFacts
    <3>2. CASE Pending # <<>>
      <4>0. head' \in Seq(Tasks) BY <2>2, <3>2 DEF DrainOne
      <4>1. Head(Pending) \in Tasks /\ Tail(Pending) \in Seq(Tasks) BY <3>1, <3>2
      <4>2. taskPc' \in [Tasks -> TaskPcs] BY <2>2, <3>2, <4>1 DEF DrainOne
      <4>3. ready' \in Seq(Tasks) /\ drained' \in Seq(Tasks)
        <5>1. ready' = Append(ready, Head(Pending)) /\ drained' = Tail(Pending)
          BY <2>2, <3>2 DEF DrainOne
        <5> QED BY <4>1, <5>1, AppendFacts
      <4>4. UNCHANGED <<mutex, reservedCalls, runBudget, ownerPc, stopPc>>
        BY <2>2, <3>2 DEF DrainOne
      <4> QED BY <4>0, <4>2, <4>3, <4>4
    <3>3. CASE Pending = <<>> BY <2>2, <3>3 DEF DrainOne
    <3> QED BY <3>2, <3>3
  <2>3. CASE ResumeFront
    <3>1. ready # <<>> BY <2>3 DEF ResumeFront, HeldOnce
    <3>2. Head(ready) \in Tasks /\ Tail(ready) \in Seq(Tasks) BY <3>1
    <3> QED BY <2>3, <3>2 DEF ResumeFront
  <2>4. CASE RunReadyDone BY <2>4 DEF RunReadyDone, LeaveDrive
  <2>5. CASE Poll
    <3>1. PICK woken \in SUBSET {t \in Tasks : At(t, "suspended")} :
            /\ \E order \in SetToSeqs(woken) : ready' = ready \o order
            /\ taskPc' = [t \in Tasks |-> IF t \in woken THEN "ready" ELSE taskPc[t]]
      BY <2>5 DEF Poll
    <3>2. PICK order \in SetToSeqs(woken) : ready' = ready \o order BY <3>1
    <3>3. order \in Seq(Tasks) BY <3>2, OrderFacts
    <3> QED BY <2>5, <3>1, <3>2, <3>3 DEF Poll
  <2>6. CASE ConnectionsClosed BY <2>6 DEF ConnectionsClosed
  <2> QED BY <1>3, <2>1, <2>2, <2>3, <2>4, <2>5, <2>6 DEF OwnerStep
<1>4. ASSUME StopStep PROVE DataOK'
  BY <1>4 DEF StopStep, StopClient, StopWake, StopJoin, submitVars, inboxVars, ownerVars
<1>5. CASE UNCHANGED vars
  BY <1>5 DEF vars, stopVars, submitVars, inboxVars, ownerVars
<1> QED BY <1>1, <1>2, <1>3, <1>4, <1>5 DEF Next
-----------------------------------------------------------------------------
(* The slots: only a reservation and a release change who holds one.       *)

\* Every step keeps reserved_calls equal to the number of slot holders.
LEMMA SlotStep == DataOK /\ SlotsBalanced /\ HeldOnce /\ [Next]_vars => SlotsBalanced'
<1> SUFFICES ASSUME DataOK, SlotsBalanced, HeldOnce, [Next]_vars PROVE SlotsBalanced' OBVIOUS
<1> USE DEF At, Goto
<1>0. taskPc \in [Tasks -> TaskPcs] /\ reservedCalls \in Nat BY DEF DataOK
<1>frame. ASSUME Reserving' = Reserving, reservedCalls' = reservedCalls PROVE SlotsBalanced'
  BY <1>frame DEF SlotsBalanced
<1>1. ASSUME NEW t \in Tasks, SubmitStep(t) PROVE SlotsBalanced'
  <2> USE DEF stopVars, submitVars, inboxVars, ownerVars
  <2>1. CASE PickShard(t) \/ AdmitCall(t) \/ RecheckAccepting(t) \/ PostLock(t) \/ Push(t)
    BY <1>0, <1>frame, <2>1 DEF PickShard, AdmitCall, RecheckAccepting, PostLock, Push, Reserving
  <2>2. CASE TryReserve(t)
    <3>1. CASE reservedCalls < HardCapacity
      <4>1. taskPc[t] = "admitted" /\ taskPc' = [taskPc EXCEPT ![t] = "reserved"]
            /\ reservedCalls' = reservedCalls + 1
        BY <1>0, <2>2, <3>1 DEF TryReserve
      <4>2. t \notin Reserving /\ Reserving' = Reserving \cup {t} BY <1>0, <4>1 DEF Reserving
      <4>3. Cardinality(Reserving') = Cardinality(Reserving) + 1 BY <4>2, SlotTaken
      <4> QED BY <1>0, <3>1, <4>1, <4>3 DEF SlotsBalanced
    <3>2. CASE reservedCalls >= HardCapacity
      BY <1>0, <1>frame, <2>2, <3>2 DEF TryReserve, Reserving
    <3> QED BY <1>0, <3>1, <3>2
  <2>3. CASE WakeOwner(t) BY <1>frame, <2>3 DEF WakeOwner, Reserving
  <2>4. CASE ReleaseUnposted(t)
    <3>1. taskPc[t] = "release" /\ taskPc' = [taskPc EXCEPT ![t] = "rejected"]
          /\ reservedCalls' = reservedCalls - 1
      BY <2>4 DEF ReleaseUnposted
    <3>2. t \in Reserving /\ Reserving' = Reserving \ {t} BY <1>0, <3>1 DEF Reserving
    <3>3. Cardinality(Reserving') = Cardinality(Reserving) - 1 BY <3>2, SlotFreed
    <3> QED BY <1>0, <3>1, <3>3 DEF SlotsBalanced
  <2> QED BY <1>1, <2>1, <2>2, <2>3, <2>4 DEF SubmitStep
<1>2. ASSUME NEW t \in Tasks, RoutineStep(t) PROVE SlotsBalanced'
  <2> USE DEF stopVars, submitVars, inboxVars, ownerVars
  <2>1. CASE Suspend(t) \/ Complete(t) \/ CloseResumes(t)
    BY <1>0, <1>frame, <2>1 DEF Suspend, Complete, CloseResumes, Reserving
  <2>2. CASE ReleaseSlot(t)
    <3>1. taskPc[t] = "completed" /\ taskPc' = [taskPc EXCEPT ![t] = "done"]
          /\ reservedCalls' = reservedCalls - 1
      BY <2>2 DEF ReleaseSlot
    <3>2. t \in Reserving /\ Reserving' = Reserving \ {t} BY <1>0, <3>1 DEF Reserving
    <3>3. Cardinality(Reserving') = Cardinality(Reserving) - 1 BY <3>2, SlotFreed
    <3> QED BY <1>0, <3>1, <3>3 DEF SlotsBalanced
  <2> QED BY <1>2, <2>1, <2>2 DEF RoutineStep
<1>3. ASSUME OwnerStep PROVE SlotsBalanced'
  <2>0. reservedCalls' = reservedCalls
    BY <1>3 DEF OwnerStep, LoopTest, DrainOne, ResumeFront, RunReadyDone, Poll, ConnectionsClosed,
       submitVars
  <2>1. CASE LoopTest \/ RunReadyDone \/ ConnectionsClosed
    BY <1>frame, <2>0, <2>1 DEF LoopTest, RunReadyDone, ConnectionsClosed, Reserving
  <2>2. CASE DrainOne
    <3>1. CASE Pending # <<>>
      <4>1. Head(Pending) \in Tasks /\ taskPc[Head(Pending)] = "inbox"
        BY <3>1, PendingFacts, TailFacts DEF AllAt
      <4>2. taskPc' = [taskPc EXCEPT ![Head(Pending)] = "ready"] BY <2>2, <3>1 DEF DrainOne
      <4> QED BY <1>0, <1>frame, <2>0, <4>1, <4>2 DEF Reserving
    <3>2. CASE Pending = <<>> BY <1>frame, <2>0, <2>2, <3>2 DEF DrainOne, Reserving
    <3> QED BY <3>1, <3>2
  <2>3. CASE ResumeFront
    <3>1. ready \in Seq(Tasks) /\ ready # <<>> BY <2>3 DEF ResumeFront, HeldOnce, DataOK
    <3>2. Head(ready) \in Tasks /\ taskPc[Head(ready)] = "ready"
      BY <3>1, TailFacts DEF HeldOnce, AllAt
    <3>3. taskPc' = [taskPc EXCEPT ![Head(ready)] = "running"] BY <2>3 DEF ResumeFront
    <3> QED BY <1>0, <1>frame, <2>0, <3>2, <3>3 DEF Reserving
  <2>4. CASE Poll
    <3>1. PICK woken \in SUBSET {t \in Tasks : At(t, "suspended")} :
            taskPc' = [t \in Tasks |-> IF t \in woken THEN "ready" ELSE taskPc[t]]
      BY <2>4 DEF Poll
    <3> QED BY <1>0, <1>frame, <2>0, <3>1 DEF Reserving
  <2> QED BY <1>3, <2>1, <2>2, <2>3, <2>4 DEF OwnerStep
<1>4. ASSUME StopStep PROVE SlotsBalanced'
  BY <1>4, <1>frame DEF StopStep, StopClient, StopWake, StopJoin, submitVars, Reserving
<1>5. CASE UNCHANGED vars
  BY <1>5, <1>frame DEF vars, submitVars, Reserving
<1> QED BY <1>1, <1>2, <1>3, <1>4, <1>5 DEF Next
-----------------------------------------------------------------------------
(* The queues.                                                             *)

\* A step that moves no task into or out of the inbox or the ready queue.
LEMMA QueueFrame ==
    ASSUME HeldOnce, UNCHANGED <<head, drained, ready>>,
           \A t \in Tasks : At(t, "inbox") <=> At(t, "inbox")',
           \A t \in Tasks : At(t, "ready") <=> At(t, "ready")',
           head \in Seq(Tasks), drained \in Seq(Tasks), ready \in Seq(Tasks),
           ownerPc' = "run" => runBudget' <= Len(ready)
    PROVE  HeldOnce'
<1>1. AllAt(head, "inbox")' /\ AllAt(drained, "inbox")' /\ AllAt(ready, "ready")'
  BY DEF HeldOnce, AllAt
<1>2. (NoDup(head) /\ NoDup(drained) /\ NoDup(ready))' BY DEF HeldOnce, NoDup
<1>3. \A i \in 1..Len(head'), j \in 1..Len(drained') : head'[i] # drained'[j] BY DEF HeldOnce
<1>4. \A t \in Tasks : At(t, "inbox")' => (Holds(head, t) \/ Holds(drained, t))'
  BY DEF HeldOnce, Holds
<1>5. \A t \in Tasks : At(t, "ready")' => Holds(ready, t)' BY DEF HeldOnce, Holds
<1> QED BY <1>1, <1>2, <1>3, <1>4, <1>5 DEF HeldOnce

\* MpscQueue::Push adds a task that no queue held.
LEMMA PushQueues ==
    ASSUME DataOK, HeldOnce, NEW t \in Tasks, Push(t)
    PROVE  HeldOnce'
<1>0. /\ head \in Seq(Tasks) /\ drained \in Seq(Tasks) /\ ready \in Seq(Tasks)
      /\ taskPc \in [Tasks -> TaskPcs]
      /\ taskPc[t] = "push" /\ taskPc' = [taskPc EXCEPT ![t] = "inbox"]
      /\ head' = <<t>> \o head /\ drained' = drained /\ ready' = ready
      /\ ownerPc' = ownerPc /\ runBudget' = runBudget
  BY DEF DataOK, Push, At, Goto, ownerVars
<1>1. /\ \A i \in 1..Len(head) : head[i] \in Tasks /\ taskPc[head[i]] = "inbox"
      /\ \A i \in 1..Len(drained) : drained[i] \in Tasks /\ taskPc[drained[i]] = "inbox"
      /\ \A i \in 1..Len(ready) : ready[i] \in Tasks /\ taskPc[ready[i]] = "ready"
  BY <1>0 DEF HeldOnce, AllAt, At
<1>2. /\ head' \in Seq(Tasks) /\ Len(head') = Len(head) + 1 /\ head'[1] = t
      /\ \A i \in 1..Len(head) : head'[i + 1] = head[i]
  BY <1>0, PushFacts
<1>3. \A k \in 1..Len(head') : k = 1 \/ (k - 1 \in 1..Len(head) /\ head'[k] = head[k - 1])
  <2> SUFFICES ASSUME NEW k \in 1..Len(head'), k # 1
               PROVE  k - 1 \in 1..Len(head) /\ head'[k] = head[k - 1]
    OBVIOUS
  <2>1. Len(head) \in Nat BY <1>0
  <2>2. k - 1 \in 1..Len(head) /\ (k - 1) + 1 = k BY <1>2, <2>1
  <2> QED BY <1>2, <2>2
<1>4. AllAt(head, "inbox")' /\ AllAt(drained, "inbox")' /\ AllAt(ready, "ready")'
  BY <1>0, <1>1, <1>2, <1>3 DEF AllAt, At
<1>5. (NoDup(head) /\ NoDup(drained) /\ NoDup(ready))'
  <2>1. NoDup(head) /\ NoDup(drained) /\ NoDup(ready) BY DEF HeldOnce
  <2>2. ASSUME NEW i \in 1..Len(head'), NEW j \in 1..Len(head'), i # j PROVE head'[i] # head'[j]
    <3>1. CASE i = 1 /\ j # 1 BY <1>0, <1>1, <1>2, <1>3, <3>1
    <3>2. CASE j = 1 /\ i # 1 BY <1>0, <1>1, <1>2, <1>3, <3>2
    <3>3. CASE i # 1 /\ j # 1
      <4>1. i - 1 # j - 1 BY <1>2, <2>2
      <4> QED BY <1>3, <2>1, <3>3, <4>1 DEF NoDup
    <3> QED BY <2>2, <3>1, <3>2, <3>3
  <2>3. NoDup(head)' BY <2>2 DEF NoDup
  <2>4. NoDup(drained)' /\ NoDup(ready)' BY <1>0, <2>1 DEF NoDup
  <2> QED BY <2>3, <2>4
<1>6. \A i \in 1..Len(head'), j \in 1..Len(drained') : head'[i] # drained'[j]
  <2>1. \A i \in 1..Len(head), j \in 1..Len(drained) : head[i] # drained[j] BY DEF HeldOnce
  <2>2. ASSUME NEW i \in 1..Len(head'), NEW j \in 1..Len(drained) PROVE head'[i] # drained[j]
    <3>1. CASE i = 1 BY <1>0, <1>1, <1>2, <3>1
    <3>2. CASE i # 1 BY <1>3, <2>1, <3>2
    <3> QED BY <3>1, <3>2
  <2> QED BY <1>0, <2>2
<1>7. \A u \in Tasks : At(u, "inbox")' => (Holds(head, u) \/ Holds(drained, u))'
  <2> SUFFICES ASSUME NEW u \in Tasks, taskPc'[u] = "inbox"
               PROVE  (\E i \in 1..Len(head') : head'[i] = u) \/ Holds(drained, u)'
    BY DEF At, Holds
  <2>1. CASE u = t
    <3>1. 1 \in 1..Len(head') BY <1>0, <1>2
    <3> QED BY <1>2, <2>1, <3>1
  <2>2. CASE u # t
    <3>1. Holds(head, u) \/ Holds(drained, u) BY <1>0, <2>2 DEF HeldOnce, At
    <3>2. CASE Holds(drained, u) BY <1>0, <3>2 DEF Holds
    <3>3. CASE Holds(head, u)
      <4>1. PICK i \in 1..Len(head) : head[i] = u BY <3>3 DEF Holds
      <4>2. i + 1 \in 1..Len(head') BY <1>0, <1>2
      <4> QED BY <1>2, <4>1, <4>2
    <3> QED BY <3>1, <3>2, <3>3
  <2> QED BY <2>1, <2>2
<1>8. \A u \in Tasks : At(u, "ready")' => Holds(ready, u)' BY <1>0 DEF HeldOnce, At, Holds
<1>9. ownerPc' = "run" => runBudget' <= Len(ready') BY <1>0 DEF HeldOnce
<1> QED BY <1>4, <1>5, <1>6, <1>7, <1>8, <1>9 DEF HeldOnce

\* DrainInbox moves one task from the inbox to the ready queue, and when it finds
\* the inbox empty gives RunReady its budget.
LEMMA DrainQueues ==
    ASSUME DataOK, HeldOnce, DrainOne, Pending # <<>>
    PROVE  HeldOnce'
<1> DEFINE t == Head(Pending)
<1>0. /\ head \in Seq(Tasks) /\ drained \in Seq(Tasks) /\ ready \in Seq(Tasks)
      /\ taskPc \in [Tasks -> TaskPcs]
      /\ taskPc' = [taskPc EXCEPT ![t] = "ready"]
      /\ drained' = Tail(Pending) /\ ready' = Append(ready, t)
      /\ head' = IF drained # <<>> THEN head ELSE <<>>
      /\ ownerPc' # "run"
  BY DEF DataOK, DrainOne, At, Goto
<1>1. /\ \A i \in 1..Len(head) : head[i] \in Tasks /\ taskPc[head[i]] = "inbox"
      /\ \A i \in 1..Len(ready) : ready[i] \in Tasks /\ taskPc[ready[i]] = "ready"
  BY <1>0 DEF HeldOnce, AllAt, At
<1>2. /\ Pending \in Seq(Tasks)
      /\ \A i \in 1..Len(Pending) : Pending[i] \in Tasks /\ taskPc[Pending[i]] = "inbox"
      /\ \A i, j \in 1..Len(Pending) : i # j => Pending[i] # Pending[j]
  BY PendingFacts DEF AllAt, NoDup, At
<1>3. /\ t \in Tasks /\ drained' \in Seq(Tasks) /\ Len(drained') = Len(Pending) - 1
      /\ 1 \in 1..Len(Pending) /\ t = Pending[1]
      /\ \A i \in 1..Len(drained') : i + 1 \in 1..Len(Pending) /\ drained'[i] = Pending[i + 1]
  BY <1>0, <1>2, TailFacts
<1>4. /\ ready' \in Seq(Tasks) /\ Len(ready') = Len(ready) + 1 /\ ready'[Len(ready) + 1] = t
      /\ \A i \in 1..Len(ready) : ready'[i] = ready[i]
  BY <1>0, <1>3, AppendFacts
<1>5. taskPc[t] = "inbox" /\ taskPc'[t] = "ready"
      /\ \A u \in Tasks : u # t => taskPc'[u] = taskPc[u]
  BY <1>0, <1>2, <1>3
<1>6. \A i \in 1..Len(drained') : drained'[i] \in Tasks /\ drained'[i] # t
                                 /\ taskPc[drained'[i]] = "inbox"
  <2> SUFFICES ASSUME NEW i \in 1..Len(drained')
               PROVE  drained'[i] \in Tasks /\ drained'[i] # t /\ taskPc[drained'[i]] = "inbox"
    OBVIOUS
  <2>1. i + 1 # 1 BY <1>3
  <2> QED BY <1>2, <1>3, <2>1
<1>7. \A i \in 1..Len(head') : /\ drained # <<>> /\ head' = head /\ i \in 1..Len(head)
                              /\ head[i] # t
  <2>1. CASE drained = <<>> BY <1>0, <2>1
  <2>2. CASE drained # <<>>
    <3>1. Pending = drained /\ head' = head BY <1>0, <2>2 DEF Pending
    <3>2. \A i \in 1..Len(head), j \in 1..Len(drained) : head[i] # drained[j] BY DEF HeldOnce
    <3> QED BY <1>3, <2>2, <3>1, <3>2
  <2> QED BY <2>1, <2>2
<1>8. AllAt(head, "inbox")' /\ AllAt(drained, "inbox")'
  BY <1>1, <1>5, <1>6, <1>7 DEF AllAt, At
<1>9. AllAt(ready, "ready")'
  <2> SUFFICES ASSUME NEW i \in 1..Len(ready') PROVE taskPc'[ready'[i]] = "ready" BY DEF AllAt, At
  <2>1. CASE i = Len(ready) + 1 BY <1>4, <1>5, <2>1
  <2>2. CASE i # Len(ready) + 1
    <3>1. i \in 1..Len(ready) BY <1>0, <1>4, <2>2
    <3> QED BY <1>1, <1>4, <1>5, <3>1
  <2> QED BY <2>1, <2>2
<1>10. NoDup(head)' BY <1>7 DEF NoDup, HeldOnce
<1>11. NoDup(drained)'
  <2> SUFFICES ASSUME NEW i \in 1..Len(drained'), NEW j \in 1..Len(drained'), i # j
               PROVE  drained'[i] # drained'[j]
    BY DEF NoDup
  <2>1. i + 1 # j + 1 BY <1>3
  <2> QED BY <1>2, <1>3, <2>1
<1>12. NoDup(ready)'
  <2> SUFFICES ASSUME NEW i \in 1..Len(ready'), NEW j \in 1..Len(ready'), i # j
               PROVE  ready'[i] # ready'[j]
    BY DEF NoDup
  <2>0. \A k \in 1..Len(ready') : k = Len(ready) + 1 \/ k \in 1..Len(ready) BY <1>0, <1>4
  <2>1. CASE i \in 1..Len(ready) /\ j \in 1..Len(ready) BY <1>4, <2>1 DEF HeldOnce, NoDup
  <2>2. CASE i = Len(ready) + 1 /\ j \in 1..Len(ready) BY <1>1, <1>4, <1>5, <2>2
  <2>3. CASE j = Len(ready) + 1 /\ i \in 1..Len(ready) BY <1>1, <1>4, <1>5, <2>3
  <2> QED BY <2>0, <2>1, <2>2, <2>3
<1>13. \A i \in 1..Len(head'), j \in 1..Len(drained') : head'[i] # drained'[j]
  <2> SUFFICES ASSUME NEW i \in 1..Len(head'), NEW j \in 1..Len(drained')
               PROVE  head'[i] # drained'[j]
    OBVIOUS
  <2>1. drained # <<>> /\ head' = head /\ i \in 1..Len(head) BY <1>7
  <2>2. Pending = drained /\ j + 1 \in 1..Len(drained) /\ drained'[j] = drained[j + 1]
    BY <1>3, <2>1 DEF Pending
  <2> QED BY <2>1, <2>2 DEF HeldOnce
<1>14. \A u \in Tasks : At(u, "inbox")' => (Holds(head, u) \/ Holds(drained, u))'
  <2> SUFFICES ASSUME NEW u \in Tasks, taskPc'[u] = "inbox"
               PROVE  Holds(head, u)' \/ \E i \in 1..Len(drained') : drained'[i] = u
    BY DEF At, Holds
  <2>1. u # t /\ taskPc[u] = "inbox" BY <1>5
  <2>2. Holds(head, u) \/ Holds(drained, u) BY <2>1 DEF HeldOnce, At
  <2>3. Holds(Pending, u) \/ (drained # <<>> /\ Holds(head, u))
    <3>1. CASE drained # <<>> BY <2>2, <3>1 DEF Pending
    <3>2. CASE drained = <<>>
      <4>1. Holds(head, u) BY <2>2, <3>2 DEF Holds
      <4> QED BY <3>2, <4>1, PendingFacts
    <3> QED BY <3>1, <3>2
  <2>4. CASE drained # <<>> /\ Holds(head, u) BY <1>0, <2>4 DEF Holds
  <2>5. CASE Holds(Pending, u)
    <3>1. PICK k \in 1..Len(Pending) : Pending[k] = u BY <2>5 DEF Holds
    <3>2. k # 1 BY <1>3, <2>1, <3>1
    <3>3. k - 1 \in 1..Len(drained') /\ (k - 1) + 1 = k BY <1>2, <1>3, <3>2
    <3>4. drained'[k - 1] = u BY <1>3, <3>1, <3>3
    <3> QED BY <3>3, <3>4
  <2> QED BY <2>3, <2>4, <2>5
<1>15. \A u \in Tasks : At(u, "ready")' => Holds(ready, u)'
  <2> SUFFICES ASSUME NEW u \in Tasks, taskPc'[u] = "ready"
               PROVE  \E i \in 1..Len(ready') : ready'[i] = u
    BY DEF At, Holds
  <2>1. CASE u = t
    <3>1. Len(ready) + 1 \in 1..Len(ready') BY <1>0, <1>4
    <3> QED BY <1>4, <2>1, <3>1
  <2>2. CASE u # t
    <3>1. PICK i \in 1..Len(ready) : ready[i] = u BY <1>5, <2>2 DEF HeldOnce, At, Holds
    <3>2. i \in 1..Len(ready') BY <1>0, <1>4
    <3> QED BY <1>4, <3>1, <3>2
  <2> QED BY <2>1, <2>2
<1> QED BY <1>0, <1>8, <1>9, <1>10, <1>11, <1>12, <1>13, <1>14, <1>15 DEF HeldOnce

\* RunReady takes the front of the ready queue, within its budget.
LEMMA ResumeQueues ==
    ASSUME DataOK, HeldOnce, ResumeFront
    PROVE  HeldOnce'
<1> DEFINE t == Head(ready)
<1>0. /\ head \in Seq(Tasks) /\ drained \in Seq(Tasks) /\ ready \in Seq(Tasks)
      /\ taskPc \in [Tasks -> TaskPcs] /\ runBudget \in Nat
      /\ taskPc' = [taskPc EXCEPT ![t] = "running"]
      /\ head' = head /\ drained' = drained /\ ready' = Tail(ready)
      /\ runBudget' = runBudget - 1 /\ runBudget > 0 /\ runBudget <= Len(ready)
  BY DEF DataOK, ResumeFront, HeldOnce, At, Goto, inboxVars
<1>1. ready # <<>> BY <1>0
<1>2. /\ t \in Tasks /\ ready' \in Seq(Tasks) /\ Len(ready') = Len(ready) - 1
      /\ 1 \in 1..Len(ready) /\ t = ready[1]
      /\ \A i \in 1..Len(ready') : i + 1 \in 1..Len(ready) /\ ready'[i] = ready[i + 1]
  BY <1>0, <1>1, TailFacts
<1>3. /\ \A i \in 1..Len(ready) : ready[i] \in Tasks /\ taskPc[ready[i]] = "ready"
      /\ \A i, j \in 1..Len(ready) : i # j => ready[i] # ready[j]
  BY <1>0 DEF HeldOnce, AllAt, NoDup, At
<1>4. taskPc[t] = "ready" /\ taskPc'[t] = "running"
      /\ \A u \in Tasks : u # t => taskPc'[u] = taskPc[u]
  BY <1>0, <1>2, <1>3
<1>5. \A i \in 1..Len(ready') : ready'[i] \in Tasks /\ ready'[i] # t /\ taskPc[ready'[i]] = "ready"
  <2> SUFFICES ASSUME NEW i \in 1..Len(ready')
               PROVE  ready'[i] \in Tasks /\ ready'[i] # t /\ taskPc[ready'[i]] = "ready"
    OBVIOUS
  <2>1. i + 1 # 1 BY <1>2
  <2> QED BY <1>2, <1>3, <2>1
<1>6. AllAt(ready, "ready")' BY <1>4, <1>5 DEF AllAt, At
<1>7. NoDup(ready)'
  <2> SUFFICES ASSUME NEW i \in 1..Len(ready'), NEW j \in 1..Len(ready'), i # j
               PROVE  ready'[i] # ready'[j]
    BY DEF NoDup
  <2>1. i + 1 # j + 1 BY <1>2
  <2> QED BY <1>2, <1>3, <2>1
<1>8. AllAt(head, "inbox")' /\ AllAt(drained, "inbox")'
  <2>1. /\ \A i \in 1..Len(head) : head[i] \in Tasks /\ taskPc[head[i]] = "inbox"
        /\ \A i \in 1..Len(drained) : drained[i] \in Tasks /\ taskPc[drained[i]] = "inbox"
    BY <1>0 DEF HeldOnce, AllAt, At
  <2> QED BY <1>0, <1>4, <2>1 DEF AllAt, At
<1>9. NoDup(head)' /\ NoDup(drained)' BY <1>0 DEF HeldOnce, NoDup
<1>10. \A i \in 1..Len(head'), j \in 1..Len(drained') : head'[i] # drained'[j]
  BY <1>0 DEF HeldOnce
<1>11. \A u \in Tasks : At(u, "inbox")' => (Holds(head, u) \/ Holds(drained, u))'
  BY <1>0, <1>4 DEF HeldOnce, At, Holds
<1>12. \A u \in Tasks : At(u, "ready")' => Holds(ready, u)'
  <2> SUFFICES ASSUME NEW u \in Tasks, taskPc'[u] = "ready"
               PROVE  \E i \in 1..Len(ready') : ready'[i] = u
    BY DEF At, Holds
  <2>1. u # t /\ taskPc[u] = "ready" BY <1>4
  <2>2. PICK k \in 1..Len(ready) : ready[k] = u BY <2>1 DEF HeldOnce, At, Holds
  <2>3. k # 1 BY <1>2, <2>1, <2>2
  <2>4. k - 1 \in 1..Len(ready') /\ (k - 1) + 1 = k BY <1>0, <1>2, <2>3
  <2> QED BY <1>2, <2>2, <2>4
<1>13. runBudget' <= Len(ready') BY <1>0, <1>2
<1> QED BY <1>6, <1>7, <1>8, <1>9, <1>10, <1>11, <1>12, <1>13 DEF HeldOnce

\* Poll adds suspended routines, which no queue held, to the ready queue.
LEMMA PollQueues ==
    ASSUME DataOK, HeldOnce, Poll
    PROVE  HeldOnce'
<1>0. /\ head \in Seq(Tasks) /\ drained \in Seq(Tasks) /\ ready \in Seq(Tasks)
      /\ taskPc \in [Tasks -> TaskPcs]
      /\ head' = head /\ drained' = drained /\ ownerPc' # "run"
  BY DEF DataOK, Poll
<1>1. PICK woken \in SUBSET {t \in Tasks : At(t, "suspended")} :
        /\ \E order \in SetToSeqs(woken) : ready' = ready \o order
        /\ taskPc' = [t \in Tasks |-> IF t \in woken THEN "ready" ELSE taskPc[t]]
  BY DEF Poll
<1>2. PICK order \in SetToSeqs(woken) : ready' = ready \o order BY <1>1
<1> DEFINE n == Len(ready)
           m == Len(order)
<1>3. woken \in SUBSET Tasks /\ \A t \in woken : taskPc[t] = "suspended" BY DEF At
<1>4. /\ order \in Seq(Tasks) /\ \A i \in 1..m : order[i] \in woken
      /\ NoDup(order) /\ \A t \in woken : Holds(order, t)
  BY <1>2, <1>3, OrderFacts
<1>5. /\ n \in Nat /\ m \in Nat /\ Len(ready') = n + m
      /\ \A i \in 1..n : ready'[i] = ready[i]
      /\ \A i \in 1..m : ready'[n + i] = order[i]
  BY <1>0, <1>2, <1>4, ConcatFacts
<1>6. /\ \A i \in 1..n : ready[i] \in Tasks /\ taskPc[ready[i]] = "ready"
      /\ \A i \in 1..Len(head) : head[i] \in Tasks /\ taskPc[head[i]] = "inbox"
      /\ \A i \in 1..Len(drained) : drained[i] \in Tasks /\ taskPc[drained[i]] = "inbox"
  BY <1>0 DEF HeldOnce, AllAt, At
<1>7. \A k \in 1..(n + m) :
          \/ k \in 1..n /\ ready'[k] = ready[k]
          \/ k \notin 1..n /\ k - n \in 1..m /\ ready'[k] = order[k - n]
  <2> SUFFICES ASSUME NEW k \in 1..(n + m), k \notin 1..n
               PROVE  k - n \in 1..m /\ ready'[k] = order[k - n]
    BY <1>5
  <2>1. k - n \in 1..m /\ n + (k - n) = k BY <1>5
  <2> QED BY <1>5, <2>1
<1>8. AllAt(ready, "ready")'
  BY <1>1, <1>3, <1>4, <1>5, <1>6, <1>7 DEF AllAt, At
<1>9. NoDup(ready)'
  <2> SUFFICES ASSUME NEW i \in 1..(n + m), NEW j \in 1..(n + m), i # j
               PROVE  ready'[i] # ready'[j]
    BY <1>5 DEF NoDup
  <2>1. CASE i \in 1..n /\ j \in 1..n BY <1>7, <2>1 DEF HeldOnce, NoDup
  <2>2. CASE i \notin 1..n /\ j \notin 1..n
    <3>1. i - n # j - n BY <1>5
    <3> QED BY <1>4, <1>7, <2>2, <3>1 DEF NoDup
  <2>0. \A k \in 1..(n + m) :
          /\ k \in 1..n => taskPc[ready'[k]] = "ready"
          /\ k \notin 1..n => taskPc[ready'[k]] = "suspended"
    <3> SUFFICES ASSUME NEW k \in 1..(n + m)
                 PROVE  /\ k \in 1..n => taskPc[ready'[k]] = "ready"
                        /\ k \notin 1..n => taskPc[ready'[k]] = "suspended"
      OBVIOUS
    <3>1. CASE k \in 1..n BY <1>6, <1>7, <3>1
    <3>2. CASE k \notin 1..n
      <4>1. k - n \in 1..m /\ ready'[k] = order[k - n] BY <1>7, <3>2
      <4>2. order[k - n] \in woken BY <1>4, <4>1
      <4> QED BY <1>3, <3>2, <4>1, <4>2
    <3> QED BY <3>1, <3>2
  <2>3. CASE i \in 1..n /\ j \notin 1..n BY <2>0, <2>3
  <2>4. CASE i \notin 1..n /\ j \in 1..n BY <2>0, <2>4
  <2> QED BY <2>1, <2>2, <2>3, <2>4
<1>10. AllAt(head, "inbox")' /\ AllAt(drained, "inbox")'
  BY <1>0, <1>1, <1>3, <1>6 DEF AllAt, At
<1>11. NoDup(head)' /\ NoDup(drained)' BY <1>0 DEF HeldOnce, NoDup
<1>12. \A i \in 1..Len(head'), j \in 1..Len(drained') : head'[i] # drained'[j]
  BY <1>0 DEF HeldOnce
<1>13. \A u \in Tasks : At(u, "inbox")' => (Holds(head, u) \/ Holds(drained, u))'
  BY <1>0, <1>1 DEF HeldOnce, At, Holds
<1>14. \A u \in Tasks : At(u, "ready")' => Holds(ready, u)'
  <2> SUFFICES ASSUME NEW u \in Tasks, taskPc'[u] = "ready"
               PROVE  \E i \in 1..(n + m) : ready'[i] = u
    BY <1>5 DEF At, Holds
  <2>1. CASE u \in woken
    <3>1. PICK i \in 1..m : order[i] = u BY <1>4, <2>1 DEF Holds
    <3>2. n + i \in 1..(n + m) BY <1>5
    <3> QED BY <1>5, <3>1, <3>2
  <2>2. CASE u \notin woken
    <3>1. PICK i \in 1..n : ready[i] = u BY <1>1, <2>2 DEF HeldOnce, At, Holds
    <3>2. i \in 1..(n + m) BY <1>5
    <3> QED BY <1>5, <3>1, <3>2
  <2> QED BY <2>1, <2>2
<1> QED BY <1>0, <1>8, <1>9, <1>10, <1>11, <1>12, <1>13, <1>14 DEF HeldOnce

\* Every step keeps HeldOnce.
LEMMA QueueStep == DataOK /\ HeldOnce /\ [Next]_vars => HeldOnce'
<1> SUFFICES ASSUME DataOK, HeldOnce, [Next]_vars PROVE HeldOnce' OBVIOUS
<1>0. /\ head \in Seq(Tasks) /\ drained \in Seq(Tasks) /\ ready \in Seq(Tasks)
      /\ taskPc \in [Tasks -> TaskPcs] /\ runBudget \in Nat
      /\ ownerPc = "run" => runBudget <= Len(ready)
  BY DEF DataOK, HeldOnce
<1>1. ASSUME NEW t \in Tasks, SubmitStep(t) PROVE HeldOnce'
  <2>1. CASE Push(t) BY <2>1, PushQueues
  <2>2. CASE ~Push(t)
    BY <1>0, <1>1, <2>2, QueueFrame DEF SubmitStep, PickShard, AdmitCall, TryReserve,
       RecheckAccepting, PostLock, WakeOwner, ReleaseUnposted, At, Goto, inboxVars, ownerVars
  <2> QED BY <2>1, <2>2
<1>2. ASSUME NEW t \in Tasks, RoutineStep(t) PROVE HeldOnce'
  BY <1>0, <1>2, QueueFrame DEF RoutineStep, Suspend, Complete, ReleaseSlot, CloseResumes,
     At, Goto, inboxVars, ownerVars
<1>3. ASSUME OwnerStep PROVE HeldOnce'
  <2>1. CASE LoopTest \/ RunReadyDone \/ ConnectionsClosed
    BY <1>0, <2>1, QueueFrame DEF LoopTest, RunReadyDone, ConnectionsClosed, LeaveDrive, At, inboxVars
  <2>2. CASE DrainOne
    <3>1. CASE Pending = <<>>
      <4>1. runBudget' = Len(ready) /\ UNCHANGED <<head, drained, ready, taskPc>>
        BY <2>2, <3>1 DEF DrainOne
      <4> QED BY <1>0, <4>1, QueueFrame DEF At
    <3> QED BY <2>2, <3>1, DrainQueues
  <2>3. CASE ResumeFront BY <2>3, ResumeQueues
  <2>4. CASE Poll BY <2>4, PollQueues
  <2> QED BY <1>3, <2>1, <2>2, <2>3, <2>4 DEF OwnerStep
<1>4. ASSUME StopStep PROVE HeldOnce'
  BY <1>0, <1>4, QueueFrame DEF StopStep, StopClient, StopWake, StopJoin, At, inboxVars, ownerVars
<1>5. CASE UNCHANGED vars
  BY <1>0, <1>5, QueueFrame DEF vars, At, inboxVars, ownerVars
<1> QED BY <1>1, <1>2, <1>3, <1>4, <1>5 DEF Next
-----------------------------------------------------------------------------
(* The wakeups.                                                            *)

\* The part of ShardInv that is about the shard mutex and the eventfd.
Wakeups ==
    /\ \A t \in Tasks : At(t, "push") => mutex = t
    /\ ownerPc \in {"run", "poll"} /\ head # <<>> => eventfd \/ \E t \in Tasks : Waking(t)
    /\ ownerPc = "poll" /\ stopping /\ ~joining => eventfd \/ stopPc = "wake"

\* Every step keeps the wakeups: who fills the inbox or asks to stop also wakes.
LEMMA WakeStep == DataOK /\ HeldOnce /\ Wakeups /\ [Next]_vars => Wakeups'
<1> SUFFICES ASSUME DataOK, HeldOnce, Wakeups, [Next]_vars PROVE Wakeups' OBVIOUS
<1>0. head \in Seq(Tasks) /\ drained \in Seq(Tasks) /\ taskPc \in [Tasks -> TaskPcs] BY DEF DataOK
<1> USE DEF Wakeups, Waking, At, Goto
<1>1. ASSUME NEW t \in Tasks, SubmitStep(t) PROVE Wakeups'
  <2> USE DEF stopVars, submitVars, inboxVars, ownerVars
  <2>1. CASE PickShard(t) BY <1>0, <2>1 DEF PickShard
  <2>2. CASE AdmitCall(t) BY <1>0, <2>2 DEF AdmitCall
  <2>3. CASE TryReserve(t) BY <1>0, <2>3 DEF TryReserve
  <2>4. CASE RecheckAccepting(t) BY <1>0, <2>4 DEF RecheckAccepting
  <2>5. CASE PostLock(t) BY <1>0, <2>5 DEF PostLock
  <2>6. CASE Push(t) BY <1>0, <2>6 DEF Push
  <2>7. CASE WakeOwner(t) BY <1>0, <2>7 DEF WakeOwner
  <2>8. CASE ReleaseUnposted(t) BY <1>0, <2>8 DEF ReleaseUnposted
  <2> QED BY <1>1, <2>1, <2>2, <2>3, <2>4, <2>5, <2>6, <2>7, <2>8 DEF SubmitStep
<1>2. ASSUME NEW t \in Tasks, RoutineStep(t) PROVE Wakeups'
  <2> USE DEF stopVars, submitVars, inboxVars, ownerVars
  <2>1. CASE Suspend(t) BY <1>0, <2>1 DEF Suspend
  <2>2. CASE Complete(t) BY <1>0, <2>2 DEF Complete
  <2>3. CASE ReleaseSlot(t) BY <1>0, <2>3 DEF ReleaseSlot
  <2>4. CASE CloseResumes(t) BY <1>0, <2>4 DEF CloseResumes
  <2> QED BY <1>2, <2>1, <2>2, <2>3, <2>4 DEF RoutineStep
<1>3. ASSUME OwnerStep PROVE Wakeups'
  <2> USE DEF stopVars, submitVars, inboxVars
  <2>1. CASE LoopTest BY <2>1 DEF LoopTest, LeaveDrive
  <2>2. CASE DrainOne
    <3>1. CASE Pending # <<>>
      <4>1. Head(Pending) \in Tasks BY <3>1, PendingFacts, TailFacts
      <4> QED BY <1>0, <2>2, <3>1, <4>1 DEF DrainOne
    <3>2. CASE Pending = <<>>
      <4>1. head = <<>>
        <5>1. drained = <<>> /\ Reverse(head) = <<>> BY <1>0, <3>2 DEF Pending
        <5>2. Len(head) = 0 BY <1>0, <5>1, ReverseFacts
        <5> QED BY <1>0, <5>2
      <4> QED BY <2>2, <3>2, <4>1 DEF DrainOne
    <3> QED BY <3>1, <3>2
  <2>3. CASE ResumeFront
    <3>1. ready \in Seq(Tasks) /\ ready # <<>> BY <2>3 DEF ResumeFront, HeldOnce, DataOK
    <3>2. Head(ready) \in Tasks BY <3>1, TailFacts
    <3> QED BY <1>0, <2>3, <3>2 DEF ResumeFront
  <2>4. CASE RunReadyDone BY <2>4 DEF RunReadyDone, LeaveDrive, StopCondition
  <2>5. CASE Poll
    <3>1. \A t \in Tasks : taskPc'[t] = "push" => taskPc[t] = "push" BY <1>0, <2>5 DEF Poll
    <3> QED BY <1>0, <2>5, <3>1 DEF Poll
  <2>6. CASE ConnectionsClosed BY <2>6 DEF ConnectionsClosed
  <2> QED BY <1>3, <2>1, <2>2, <2>3, <2>4, <2>5, <2>6 DEF OwnerStep
<1>4. ASSUME StopStep PROVE Wakeups'
  BY <1>4 DEF StopStep, StopClient, StopWake, StopJoin, submitVars, inboxVars, ownerVars
<1>5. CASE UNCHANGED vars
  BY <1>5 DEF vars, stopVars, submitVars, inboxVars, ownerVars
<1> QED BY <1>1, <1>2, <1>3, <1>4, <1>5 DEF Next
-----------------------------------------------------------------------------
(* The theorems.                                                           *)

\* Types and ShardInv hold in the initial state.
LEMMA ShardInitial == Init => TypeOK /\ ShardInv
<1> SUFFICES ASSUME Init PROVE TypeOK /\ ShardInv OBVIOUS
<1>1. TypeOK
  <2>1. FlagsOK BY Zenon DEF Init, FlagsOK
  <2>2. DataOK BY DEF Init, DataOK, TaskPcs, OwnerPcs, StopPcs
  <2> QED BY <2>1, <2>2 DEF TypeOK
<1>2. Reserving = {} BY DEF Init, Reserving
<1>3. SlotsBalanced BY <1>2, FS_EmptySet DEF Init, SlotsBalanced
<1>4. HeldOnce BY DEF Init, HeldOnce, AllAt, NoDup, Holds, At
<1> QED BY <1>1, <1>3, <1>4 DEF Init, ShardInv, At

\* Every step of the shard, its submitters and its stopper keeps the invariant.
THEOREM ShardInductive == Spec => [](TypeOK /\ ShardInv)
<1>1. TypeOK /\ ShardInv /\ [Next]_vars => (TypeOK /\ ShardInv)'
  BY FlagsStep, DataStep, SlotStep, QueueStep, WakeStep DEF TypeOK, ShardInv, Wakeups
<1> QED BY <1>1, ShardInitial, PTL DEF Spec

\* reserved_calls counts exactly the calls that hold a slot of the shard, within
\* its capacity, so Release never meets a zero counter (its std::terminate).
THEOREM SlotsAreBalanced == Spec => []SlotsBalanced
<1>1. TypeOK /\ ShardInv => SlotsBalanced BY DEF ShardInv
<1> QED BY <1>1, ShardInductive, PTL

\* Push, drain, resume and wakeup neither duplicate nor lose a posted task.
THEOREM TasksHeldOnce == Spec => []HeldOnce
<1>1. TypeOK /\ ShardInv => HeldOnce BY DEF ShardInv
<1> QED BY <1>1, ShardInductive, PTL

\* The shard thread never sleeps in Poll over work or over a stop request for
\* which no wakeup is posted or about to be.
THEOREM WakeupsAreNotLost == Spec => []NoLostWakeup
<1>1. TypeOK /\ ShardInv => NoLostWakeup BY DEF ShardInv, NoLostWakeup
<1> QED BY <1>1, ShardInductive, PTL
=============================================================================
