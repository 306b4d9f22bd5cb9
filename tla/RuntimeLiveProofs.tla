-------------------------- MODULE RuntimeLiveProofs --------------------------
(***************************************************************************)
(* Proof that Join waits for the right number: live_routine_count_ is the  *)
(* number of routines that were started or queued and did not finish.      *)
(***************************************************************************)
EXTENDS RuntimeProofs, FiniteSetTheorems

Started == {r \in Routines : state[r] \notin {"INIT", "FINISHED"}}
Counted == IsFiniteSet(Started) /\ live = Cardinality(Started)

LEMMA CountSame ==
    ASSUME Counted, live' = live,
           \A r \in Routines : state'[r] \in {"INIT", "FINISHED"} <=> state[r] \in {"INIT", "FINISHED"}
    PROVE  Counted'
  <1>1. Started' = Started
    BY DEF Started
  <1> QED
    BY <1>1 DEF Counted

LEMMA CountUp ==
    ASSUME Counted, live' = live + 1, NEW r \in Routines,
           state[r] \in {"INIT", "FINISHED"}, state'[r] \notin {"INIT", "FINISHED"},
           \A q \in Routines : q # r => state'[q] = state[q]
    PROVE  Counted'
  <1>1. Started' = Started \cup {r} /\ r \notin Started
    BY DEF Started
  <1> QED
    BY <1>1, FS_AddElement DEF Counted

LEMMA CountDown ==
    ASSUME Counted, live' = live - 1, NEW r \in Routines,
           state[r] \notin {"INIT", "FINISHED"}, state'[r] \in {"INIT", "FINISHED"},
           \A q \in Routines : q # r => state'[q] = state[q]
    PROVE  Counted'
  <1>1. Started' = Started \ {r} /\ r \in Started
    BY DEF Started
  <1>2. IsFiniteSet(Started') /\ Cardinality(Started') = Cardinality(Started) - 1
    BY <1>1, FS_RemoveElement DEF Counted
  <1> QED
    BY <1>2 DEF Counted

\* A routine that was started goes from one of its states to another.
LEMMA Moves ==
    ASSUME Typed, Counted, live' = live, NEW r \in Routines, state[r] \notin {"INIT", "FINISHED"},
           NEW s \in {"READY", "RUNNING", "WAIT_IO", "WAIT_TIMER", "WAIT_EVENT"}, state' = [state EXCEPT ![r] = s]
    PROVE  Counted'
  <1>1. state'[r] = s /\ \A q \in Routines : q # r => state'[q] = state[q]
    BY DEF Typed
  <1> QED
    BY <1>1, CountSame

\* The routine that runs.
LEMMA CurrentRuns ==
    ASSUME RuntimeInv, Runs
    PROVE  Current \in Routines /\ state[Current] = "RUNNING"
  <1>1. Current \in Routines /\ Current = calls[1] /\ 1 \in DOMAIN calls
    BY CallsNonEmpty DEF RuntimeInv, Typed, Current, Runs
  <1> QED
    BY <1>1 DEF RuntimeInv, Nested

\* Steps that leave the states alone.
LEMMA Still ==
    ASSUME Counted, UNCHANGED <<state, live>>
    PROVE  Counted'
    BY CountSame

LEMMA NextCounts == Counted /\ RuntimeInv /\ [Next]_vars => Counted'
  <1> SUFFICES ASSUME Counted, RuntimeInv, [Next]_vars PROVE Counted'
    OBVIOUS
  <1>0. Typed
    BY DEF RuntimeInv
  <1>1. CASE RunReady
    <2>1. Head(ready) \in Routines /\ Head(ready) = ready[1] /\ 1 \in DOMAIN ready
      BY <1>0, <1>1, CallsNonEmpty DEF Typed, RunReady
    <2>2. state[Head(ready)] = "READY"
      BY <2>1 DEF RuntimeInv, Queued
    <2>3. live' = live /\ state' = [state EXCEPT ![Head(ready)] = "RUNNING"]
      BY <1>1 DEF RunReady, Resumes
    <2> QED
      BY Zenon, <1>0, <2>1, <2>2, <2>3, Moves
  <1>2. ASSUME Runs, NEW w \in {"WAIT_IO", "WAIT_TIMER", "WAIT_EVENT"}, Suspends(w) PROVE Counted'
    <2>1. Current \in Routines /\ state[Current] = "RUNNING"
      BY <1>2, CurrentRuns
    <2>2. live' = live /\ state' = [state EXCEPT ![Current] = w]
      BY <1>2 DEF Suspends
    <2> QED
      BY Zenon, <1>0, <2>1, <2>2, Moves
  <1>3. CASE Yield \/ YieldFor \/ YieldUntilFlush
    BY <1>2, <1>3 DEF Yield, YieldFor, YieldUntilFlush
  <1>4. CASE Finish
    <2>1. Current \in Routines /\ state[Current] = "RUNNING"
      BY <1>4, CurrentRuns DEF Finish
    <2>2. live' = live - 1 /\ state' = [state EXCEPT ![Current] = "FINISHED"]
      BY <1>4 DEF Finish
    <2>3. state'[Current] = "FINISHED" /\ \A q \in Routines : q # Current => state'[q] = state[q]
      BY <1>0, <2>1, <2>2 DEF Typed
    <2> QED
      BY <2>1, <2>2, <2>3, CountDown
  <1>5. CASE StartPoll \/ FlushOrNot \/ Flushed \/ EndPoll \/ UNCHANGED vars
    BY <1>5, Still DEF StartPoll, FlushOrNot, Flushed, EndPoll, vars
  <1>6. ASSUME NEW r \in Routines, state[r] = "WAIT_IO", CompleteWait(r) PROVE Counted'
    BY Zenon, <1>0, <1>6, Moves DEF CompleteWait, MakeReady
  <1>7. ASSUME NEW op \in Ops, CompleteIo(op) \/ \E deadline \in BOOLEAN : Await(op, deadline)
        PROVE  Counted'
    <2>1. CASE CompleteIo(op)
      <3>1. waiter[op] \in Routines /\ state[waiter[op]] = "WAIT_IO" /\ CompleteWait(waiter[op])
        BY <2>1 DEF CompleteIo, RuntimeInv, Typed, Waiting
      <3> QED
        BY <1>6, <3>1
    <2>2. CASE \E deadline \in BOOLEAN : Await(op, deadline)
      BY <1>2, <2>2 DEF Await
    <2> QED
      BY <1>7, <2>1, <2>2
  <1>8. ASSUME NEW fd \in Fds, CancelFd(fd) \/ Detach(fd) PROVE Counted'
    <2>1. CASE Detach(fd)
      BY <2>1, Still DEF Detach
    <2>2. CASE CancelFd(fd)
      <3> DEFINE both == {waiter[<<fd, "READ">>], waiter[<<fd, "WRITE">>]} \ {Null}
      <3>1. live' = live /\ state' = [r \in Routines |-> IF r \in both THEN "READY" ELSE state[r]]
        BY <2>2 DEF CancelFd
      <3>2. <<fd, "READ">> \in Ops /\ <<fd, "WRITE">> \in Ops
        BY DEF Ops
      <3>3. \A r \in both : state[r] = "WAIT_IO"
        BY <3>2 DEF RuntimeInv, Waiting
      <3> HIDE DEF both
      <3> QED
        BY <3>1, <3>3, CountSame
    <2> QED
      BY <1>8, <2>1, <2>2
  <1>9. ASSUME NEW r \in Routines, OfRoutine(r) PROVE Counted'
    <2>1. CASE CreateCo(r)
      <3>1. live' = live /\ state[r] = "FINISHED" /\ state' = [state EXCEPT ![r] = "INIT"]
        BY <2>1 DEF CreateCo, Acquire
      <3>2. state'[r] = "INIT" /\ \A q \in Routines : q # r => state'[q] = state[q]
        BY <1>0, <3>1 DEF Typed
      <3> QED
        BY <3>1, <3>2, CountSame
    <2>2. CASE Spawn(r)
      <3>1. live' = live + 1 /\ state[r] = "FINISHED" /\ state' = [state EXCEPT ![r] = "READY"]
        BY <2>2 DEF Spawn, Acquire, MakeReady
      <3>2. state'[r] = "READY" /\ \A q \in Routines : q # r => state'[q] = state[q]
        BY <1>0, <3>1 DEF Typed
      <3> QED
        BY <3>1, <3>2, CountUp
    <2>3. CASE Resume(r)
      <3>1. /\ state[r] \in {"INIT", "WAIT_EVENT", "WAIT_TIMER"} /\ state' = [state EXCEPT ![r] = "RUNNING"]
            /\ live' = IF state[r] = "INIT" THEN live + 1 ELSE live
        BY <2>3 DEF Resume, Resumes
      <3>2. state'[r] = "RUNNING" /\ \A q \in Routines : q # r => state'[q] = state[q]
        BY <1>0, <3>1 DEF Typed
      <3>3. CASE state[r] = "INIT"
        BY <3>1, <3>2, <3>3, CountUp
      <3>4. CASE state[r] # "INIT"
        BY Zenon, <1>0, <3>1, <3>4, Moves
      <3> QED
        BY <3>3, <3>4
    <2>4. CASE ScheduleAtFlush(r)
      BY <2>4, Still DEF ScheduleAtFlush
    <2>5. CASE CancelWait(r) \/ CompleteTimeout(r)
      <3>1. state[r] = "WAIT_IO" /\ CompleteWait(r)
        BY <2>5 DEF CancelWait, CompleteTimeout, RuntimeInv, Waiting
      <3> QED
        BY <1>6, <3>1
    <2>6. CASE FlushScheduledEvents(r)
      <3>1. CASE state[r] = "WAIT_EVENT"
        BY <1>0, <2>6, <3>1, Moves DEF FlushScheduledEvents, MakeReady
      <3>2. CASE state[r] # "WAIT_EVENT"
        BY <2>6, <3>2, Still DEF FlushScheduledEvents
      <3> QED
        BY <3>1, <3>2
    <2>7. CASE CompleteTimer(r)
      <3>1. state[r] = "WAIT_TIMER"
        BY <2>7 DEF CompleteTimer, RuntimeInv, Waiting
      <3> QED
        BY Zenon, <1>0, <2>7, <3>1, Moves DEF CompleteTimer, MakeReady
    <2> QED
      BY <1>9, <2>1, <2>2, <2>3, <2>4, <2>5, <2>6, <2>7 DEF OfRoutine
  <1> QED
    BY <1>1, <1>3, <1>4, <1>5, <1>7, <1>8, <1>9 DEF Next, OfFd

\* Join returns when no routine that was started or queued is left, and not before.
THEOREM JoinCountsRight == Spec => []LiveIsCounted
  <1>1. Init => Counted
    <2> SUFFICES ASSUME Init PROVE Counted
      OBVIOUS
    <2>1. Started = {}
      BY DEF Init, Started
    <2> QED
      BY <2>1, FS_EmptySet DEF Init, Counted
  <1>2. Counted => LiveIsCounted
    BY DEF Counted, Started, LiveIsCounted
  <1> QED
    BY <1>1, <1>2, NextCounts, Invariance, PTL DEF Spec
==============================================================================
