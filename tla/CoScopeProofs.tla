--------------------------- MODULE CoScopeProofs ---------------------------
(***************************************************************************)
(* Proofs about CoScope in the condition variable mode, for any finite set *)
(* of tasks.  CvInv is inductive together with TypeOK.                     *)
(***************************************************************************)
EXTENDS CoScope, FiniteSetTheorems, TLAPS

\* The counter of outstanding tasks: what Cardinality(Outstanding) does when one
\* task enters the set, leaves it, or stays.
LEMMA OutstandingFinite == IsFiniteSet(Outstanding) /\ Cardinality(Outstanding) \in Nat
  <1>1. IsFiniteSet(Outstanding)
    BY TasksAssumption, FS_Subset DEF Outstanding
  <1>2. QED
    BY <1>1, FS_CardinalityType

\* A task enters Outstanding when Dispatch counts it.
LEMMA OutstandingAdd ==
  ASSUME NEW t \in Tasks, t \notin Outstanding, Outstanding' = Outstanding \cup {t},
         remaining = Cardinality(Outstanding), remaining' = remaining + 1
  PROVE  remaining' = Cardinality(Outstanding')
  BY OutstandingFinite, FS_AddElement

\* A task leaves Outstanding when CompleteTask decrements the counter.
LEMMA OutstandingRemove ==
  ASSUME NEW t \in Tasks, t \in Outstanding, Outstanding' = Outstanding \ {t},
         remaining = Cardinality(Outstanding), remaining' = remaining - 1
  PROVE  remaining' = Cardinality(Outstanding') /\ remaining' \in Nat
  <1>1. IsFiniteSet(Outstanding) /\ Cardinality(Outstanding) \in Nat
    BY OutstandingFinite
  <1>2. Cardinality(Outstanding \ {t}) = Cardinality(Outstanding) - 1
    BY <1>1, FS_RemoveElement
  <1>3. IsFiniteSet(Outstanding \ {t}) /\ Cardinality(Outstanding \ {t}) \in Nat
    BY <1>1, FS_RemoveElement, FS_CardinalityType
  <1>4. QED
    BY <1>2, <1>3

\* With the counter at zero nobody is outstanding.
LEMMA OutstandingZero ==
  ASSUME remaining = Cardinality(Outstanding), remaining = 0
  PROVE  Outstanding = {}
  BY OutstandingFinite, FS_EmptySet

-----------------------------------------------------------------------------
\* Types are kept by every step of the condition variable mode; the decrement
\* needs CvInv, which bounds the counter from below.
LEMMA TypeStep ==
  ASSUME TypeOK, CvInv, [Next]_vars
  PROVE  TypeOK'
  <1> USE NamesAssumption DEF TypeOK, UserPcs, TaskPcs, gatherVars, userVars
  <1>1. ASSUME NEW t \in Tasks, Dispatch(t) PROVE TypeOK'
    <2>1. firstException' \in Tasks \cup {NoTask} /\ threw' \in SUBSET Tasks
      BY <1>1 DEF Dispatch
    <2>2. joined' \in BOOLEAN
      BY <1>1 DEF Dispatch
    <2>3. QED
      BY <1>1, <2>1, <2>2 DEF Dispatch
  <1>2. ASSUME NEW t \in Tasks, RunTask(t) PROVE TypeOK'
    BY <1>2 DEF RunTask
  <1>3. ASSUME NEW t \in Tasks, RecordException(t) PROVE TypeOK'
    BY <1>3 DEF RecordException
  <1>4. ASSUME NEW t \in Tasks, DecrementLocked(t) PROVE TypeOK'
    <2>1. t \in Outstanding /\ Outstanding' = Outstanding \ {t}
      BY <1>4 DEF DecrementLocked, Outstanding
    <2>2. remaining' \in Nat
      BY <1>4, <2>1, OutstandingRemove DEF DecrementLocked, CvInv
    <2>3. QED
      BY <1>4, <2>2 DEF DecrementLocked
  <1>5. ASSUME NEW t \in Tasks, UnlockGather(t) PROVE TypeOK'
    BY <1>5 DEF UnlockGather
  <1>6. ASSUME NEW t \in Tasks, SignalCas(t) \/ SignalPost(t) \/ DecrementAtomic(t)
        PROVE TypeOK'
    BY <1>6 DEF SignalCas, SignalPost, DecrementAtomic, CvInv
  <1>7. CASE Submit \/ Reject \/ RejectDone
    BY <1>7 DEF Submit, Reject, RejectDone, CvInv
  <1>8. CASE JoinStart \/ SpuriousWake \/ FlushArm \/ JoinReturn \/ JoinLock \/ JoinCvCheck
    BY <1>8 DEF JoinStart, SpuriousWake, FlushArm, JoinReturn, JoinLock, JoinCvCheck
  <1>9. CASE JoinArm \/ JoinSpinCheck \/ JoinExchange \/ JoinSemWait \/ JoinSetIdle \/ JoinRelock
    BY <1>9 DEF JoinArm, JoinSpinCheck, JoinExchange, JoinSemWait, JoinSetIdle, JoinRelock, CvInv
  <1>10. CASE UNCHANGED vars
    BY <1>10 DEF vars
  <1>11. QED
    BY <1>1, <1>2, <1>3, <1>4, <1>5, <1>6, <1>7, <1>8, <1>9, <1>10
       DEF Next, TaskStep, JoinStep

-----------------------------------------------------------------------------
\* The steps of the user thread keep CvInv.
LEMMA UserStepInv ==
  ASSUME TypeOK, CvInv,
         \/ Submit \/ Reject \/ RejectDone \/ JoinStart \/ JoinLock \/ JoinCvCheck
         \/ SpuriousWake \/ JoinReturn
  PROVE  CvInv'
  <1> USE NamesAssumption DEF TypeOK, CvInv, JoinReleasesGather, gatherVars, userVars
  <1>1. CASE Submit
    <2>1. Outstanding' = Outstanding
      BY <1>1 DEF Submit, Outstanding
    <2>2. QED
      BY <1>1, <2>1 DEF Submit
  <1>2. CASE Reject
    <2>1. Outstanding' = Outstanding
      BY <1>2 DEF Reject, Outstanding
    <2>2. QED
      BY <1>2, <2>1 DEF Reject
  <1>3. CASE RejectDone
    BY <1>3 DEF RejectDone, Outstanding
  <1>4. CASE JoinStart
    BY <1>4 DEF JoinStart, Outstanding
  <1>5. CASE JoinLock
    BY <1>5 DEF JoinLock, Outstanding
  <1>6. CASE JoinCvCheck
    BY <1>6, OutstandingZero DEF JoinCvCheck, Outstanding
  <1>7. CASE SpuriousWake
    BY <1>7 DEF SpuriousWake, Outstanding
  <1>8. CASE JoinReturn
    <2>1. \A t \in Tasks : taskPc[t] \in {"unused", "done"}
      BY <1>8 DEF JoinReturn, Outstanding, TaskPcs
    <2>2. joined' = joined /\ taskPc' = taskPc /\ userPc' = "idle" /\ joined
      BY <1>8 DEF JoinReturn
    <2>3. remaining' = Cardinality(Outstanding')
      BY <1>8 DEF JoinReturn, Outstanding
    <2>4. QED
      BY <1>8, <2>1, <2>2, <2>3 DEF JoinReturn
  <1>9. QED
    BY <1>1, <1>2, <1>3, <1>4, <1>5, <1>6, <1>7, <1>8

\* Dispatching a task and the steps of a task keep CvInv.
LEMMA TaskStepInv ==
  ASSUME TypeOK, CvInv, NEW t \in Tasks,
         Dispatch(t) \/ RunTask(t) \/ RecordException(t) \/ DecrementLocked(t) \/ UnlockGather(t)
  PROVE  CvInv'
  <1> USE NamesAssumption DEF TypeOK, CvInv, JoinReleasesGather, gatherVars, userVars
  <1>1. CASE Dispatch(t)
    <2>1. t \notin Outstanding /\ Outstanding' = Outstanding \cup {t}
      BY <1>1 DEF Dispatch, Outstanding
    <2>2. remaining' = Cardinality(Outstanding')
      BY <1>1, <2>1, OutstandingAdd DEF Dispatch
    <2>3. QED
      BY <1>1, <2>2 DEF Dispatch
  <1>2. CASE RunTask(t)
    <2>1. Outstanding' = Outstanding
      BY <1>2 DEF RunTask, Outstanding
    <2>2. ~(userPc = "idle" /\ joined)
      BY <1>2 DEF RunTask
    <2>3. QED
      BY <1>2, <2>1, <2>2 DEF RunTask
  <1>3. CASE RecordException(t)
    <2>1. Outstanding' = Outstanding
      BY <1>3 DEF RecordException, Outstanding
    <2>2. ~(userPc = "idle" /\ joined)
      BY <1>3 DEF RecordException
    <2>3. QED
      BY <1>3, <2>1, <2>2 DEF RecordException
  <1>4. CASE DecrementLocked(t)
    <2>1. t \in Outstanding /\ Outstanding' = Outstanding \ {t}
      BY <1>4 DEF DecrementLocked, Outstanding
    <2>2. remaining' = Cardinality(Outstanding')
      BY <1>4, <2>1, OutstandingRemove DEF DecrementLocked
    <2>3. userPc \notin {"check", "rethrow"} /\ ~(userPc = "idle" /\ joined)
      BY <1>4 DEF DecrementLocked
    <2>4. QED
      BY <1>4, <2>1, <2>2, <2>3 DEF DecrementLocked
  <1>5. CASE UnlockGather(t)
    <2>1. Outstanding' = Outstanding
      BY <1>5 DEF UnlockGather, Outstanding
    <2>2. QED
      BY <1>5, <2>1 DEF UnlockGather
  <1>6. QED
    BY <1>1, <1>2, <1>3, <1>4, <1>5

\* CvInv is inductive: the semaphore mode's steps cannot happen in this mode.
LEMMA CvStep ==
  ASSUME TypeOK, CvInv, [Next]_vars
  PROVE  CvInv'
  <1>1. CASE UNCHANGED vars
    BY <1>1 DEF vars, gatherVars, userVars, CvInv, Outstanding, JoinReleasesGather
  <1>2. ASSUME NEW t \in Tasks, DecrementAtomic(t) \/ SignalCas(t) \/ SignalPost(t)
        PROVE  FALSE
    BY <1>2 DEF DecrementAtomic, SignalCas, SignalPost, CvInv
  <1>3. ASSUME JoinArm \/ JoinSpinCheck \/ JoinExchange \/ JoinSemWait \/ JoinSetIdle \/ JoinRelock
        PROVE  FALSE
    BY <1>3 DEF JoinArm, JoinSpinCheck, JoinExchange, JoinSemWait, JoinSetIdle, JoinRelock, CvInv
  <1>4. CASE FlushArm
    BY <1>4 DEF FlushArm, userVars, CvInv, Outstanding, JoinReleasesGather
  <1>5. QED
    BY <1>1, <1>2, <1>3, <1>4, UserStepInv, TaskStepInv DEF Next, TaskStep, JoinStep

\* Types and CvInv hold in the initial state.
LEMMA CvInitial == Init /\ mode = "ConditionVariable" => TypeOK /\ CvInv
  <1> SUFFICES ASSUME Init, mode = "ConditionVariable" PROVE TypeOK /\ CvInv
    OBVIOUS
  <1>1. Outstanding = {}
    BY DEF Init, Outstanding
  <1>2. Cardinality(Outstanding) = 0
    BY <1>1, FS_EmptySet
  <1>3. QED
    BY <1>1, <1>2, NamesAssumption
       DEF Init, TypeOK, CvInv, JoinReleasesGather, UserPcs, TaskPcs

\* Every step from a condition variable state that satisfies CvInv keeps it.
LEMMA CvInductive == Spec => [](mode = "ConditionVariable" => TypeOK /\ CvInv)
  <1> DEFINE Inv == mode = "ConditionVariable" => TypeOK /\ CvInv
  <1>1. Init => Inv
    BY CvInitial
  <1>2. Inv /\ [Next]_vars => Inv'
    <2>1. [Next]_vars => mode' = mode
      BY DEF Next, TaskStep, JoinStep, vars, gatherVars, Dispatch, RunTask, RecordException,
         DecrementLocked, UnlockGather, DecrementAtomic, SignalCas, SignalPost, Submit, Reject,
         RejectDone, JoinStart, JoinLock, JoinCvCheck, SpuriousWake, JoinArm, FlushArm,
         JoinSpinCheck, JoinExchange, JoinSemWait, JoinSetIdle, JoinRelock, JoinReturn
    <2>2. QED
      BY <2>1, TypeStep, CvStep
  <1>3. QED
    BY <1>1, <1>2, PTL DEF Spec

\* With a condition variable a Join that has returned leaves no completer with a
\* reference to the Gather: ~CoScope may run.
THEOREM JoinIsSafe == Spec => []JoinReleasesGather
  <1>1. (mode = "ConditionVariable" => TypeOK /\ CvInv) => JoinReleasesGather
    BY DEF CvInv, JoinReleasesGather
  <1>2. QED
    BY <1>1, CvInductive, PTL

\* With a condition variable Join reports an exception exactly when a task of its
\* batch threw one, and it is one of that batch.
THEOREM ExceptionsReachJoin == Spec => []ExceptionReported
  <1>1. (mode = "ConditionVariable" => TypeOK /\ CvInv) => ExceptionReported
    BY DEF TypeOK, CvInv, ExceptionReported, Outstanding
  <1>2. QED
    BY <1>1, CvInductive, PTL

\* The inductive invariant itself: with a condition variable the counter counts
\* the outstanding tasks and the mutex is held where the code holds it.
THEOREM CvInvariant == Spec => []CvSafe
  <1>1. (mode = "ConditionVariable" => TypeOK /\ CvInv) => CvSafe
    BY DEF CvSafe
  <1>2. QED
    BY <1>1, CvInductive, PTL
-----------------------------------------------------------------------------
(* The semaphore's token, in both modes.                                   *)

NoneOwed == semaphore = 0 /\ \A t \in Tasks : taskPc[t] # "post"

\* One token: posted, or about to be posted by the task whose compare-exchange won.
OneOwed ==
    \/ semaphore = 1 /\ \A t \in Tasks : taskPc[t] # "post"
    \/ semaphore = 0 /\ \E t \in Tasks : taskPc[t] = "post" /\ \A u \in Tasks : taskPc[u] = "post" => u = t

\* wait_state says who owes the token: it is Armed only while Join waits, and once it
\* is Signaled there is one token until Join has taken it.
TokenInv ==
    /\ taskPc \in [Tasks -> TaskPcs] /\ userPc \in UserPcs
    /\ waitState \in {"Idle", "Armed", "Signaled"} /\ armBuffered \in BOOLEAN
    /\ armBuffered => waitState = "Idle" /\ userPc \in {"armed", "exchange", "semWait"}
    /\ waitState = "Armed" => userPc \in {"armed", "exchange", "semWait"} /\ NoneOwed
    /\ waitState = "Signaled" => \/ userPc \in {"armed", "exchange", "semWait"} /\ OneOwed
                                 \/ userPc = "setIdle" /\ NoneOwed
    /\ waitState = "Idle" => IF userPc = "semTake" THEN OneOwed ELSE NoneOwed
    /\ userPc = "setIdle" => waitState = "Signaled"

\* What Submit and Reject take on has not run.
SubmitsNew == userPc = "submit" => current \in Tasks /\ taskPc[current] = "dispatched"

\* Steps that leave wait_state, its buffer and the semaphore alone, and neither enter
\* nor leave the part of Join where a token may be owed.
LEMMA TokenKept ==
  ASSUME TokenInv, UNCHANGED <<waitState, armBuffered, semaphore>>,
         taskPc' \in [Tasks -> TaskPcs], userPc' \in UserPcs,
         \A t \in Tasks : taskPc'[t] = "post" <=> taskPc[t] = "post",
         \/ userPc' = userPc
         \/ {userPc, userPc'} \cap {"armed", "exchange", "semWait", "semTake", "setIdle"} = {}
         \/ userPc = "armed" /\ userPc' \in {"exchange", "semWait"}
  PROVE  TokenInv'
  BY DEF TokenInv, NoneOwed, OneOwed

\* Arming, waiting and disarming: the steps of Join on wait_state and the semaphore.
LEMMA TokenJoin ==
  ASSUME TokenInv,
         JoinArm \/ FlushArm \/ JoinExchange \/ JoinSemWait \/ JoinSetIdle
  PROVE  TokenInv'
  <1> USE DEF TokenInv, NoneOwed, OneOwed, UserPcs
  <1>1. CASE JoinArm
    BY <1>1 DEF JoinArm
  <1>2. CASE FlushArm
    BY <1>2 DEF FlushArm, userVars
  <1>3. CASE JoinExchange
    BY <1>3 DEF JoinExchange
  <1>4. CASE JoinSemWait
    BY <1>4 DEF JoinSemWait
  <1>5. CASE JoinSetIdle
    BY <1>5 DEF JoinSetIdle
  <1>6. QED
    BY <1>1, <1>2, <1>3, <1>4, <1>5

\* The completer that wins the compare-exchange owes the token, and posts it.
LEMMA TokenTask ==
  ASSUME TokenInv, NEW t \in Tasks, SignalCas(t) \/ SignalPost(t)
  PROVE  TokenInv'
  <1> USE DEF TokenInv, TaskPcs, userVars
  <1>1. CASE SignalCas(t)
    <2>1. CASE waitState = "Armed"
      <3>1. OneOwed'
        BY <1>1, <2>1 DEF SignalCas, NoneOwed, OneOwed
      <3>2. QED
        BY <1>1, <2>1, <3>1 DEF SignalCas
    <2>2. CASE waitState # "Armed"
      BY <1>1, <2>2, TokenKept DEF SignalCas
    <2>3. QED
      BY <2>1, <2>2
  <1>2. CASE SignalPost(t)
    <2>1. OneOwed /\ semaphore = 0 /\ \A u \in Tasks : taskPc[u] = "post" => u = t
      BY <1>2 DEF SignalPost, NoneOwed, OneOwed
    <2>2. OneOwed'
      BY <1>2, <2>1 DEF SignalPost, OneOwed
    <2>3. ~NoneOwed
      BY <1>2 DEF SignalPost, NoneOwed
    <2>4. QED
      BY <1>2, <2>2, <2>3 DEF SignalPost
  <1>3. QED
    BY <1>1, <1>2

\* TokenInv is inductive.
LEMMA TokenStep ==
  ASSUME TokenInv, SubmitsNew, [Next]_vars
  PROVE  TokenInv'
  <1> USE DEF gatherVars, userVars
  <1>1. taskPc \in [Tasks -> TaskPcs] /\ userPc \in UserPcs
    BY DEF TokenInv
  <1>2. ASSUME NEW t \in Tasks, Dispatch(t) PROVE TokenInv'
    BY <1>1, <1>2, TokenKept DEF Dispatch, UserPcs, TaskPcs
  <1>3. ASSUME NEW t \in Tasks, RunTask(t) \/ RecordException(t) PROVE TokenInv'
    BY <1>1, <1>3, TokenKept DEF RunTask, RecordException, TaskPcs
  <1>4. ASSUME NEW t \in Tasks, DecrementLocked(t) PROVE TokenInv'
    BY <1>1, <1>4, TokenKept DEF DecrementLocked, UserPcs, TaskPcs
  <1>5. ASSUME NEW t \in Tasks, UnlockGather(t) \/ DecrementAtomic(t) PROVE TokenInv'
    BY <1>1, <1>5, TokenKept DEF UnlockGather, DecrementAtomic, TaskPcs
  <1>6. CASE Submit \/ Reject \/ RejectDone
    <2>1. CASE Submit \/ Reject
      BY <1>1, <2>1, TokenKept DEF SubmitsNew, Submit, Reject, UserPcs, TaskPcs
    <2>2. CASE RejectDone
      BY <1>1, <2>2, TokenKept DEF RejectDone, UserPcs
    <2>3. QED
      BY <1>6, <2>1, <2>2
  <1>7. CASE JoinStart \/ SpuriousWake \/ JoinReturn \/ JoinLock \/ JoinCvCheck \/ JoinRelock
    BY <1>1, <1>7, TokenKept DEF JoinStart, SpuriousWake, JoinReturn, JoinLock, JoinCvCheck, JoinRelock, UserPcs
  <1>8. CASE JoinSpinCheck
    BY <1>1, <1>8, TokenKept DEF JoinSpinCheck, UserPcs
  <1>9. CASE UNCHANGED vars
    BY <1>1, <1>9, TokenKept DEF vars
  <1>10. QED
    BY <1>2, <1>3, <1>4, <1>5, <1>6, <1>7, <1>8, <1>9, TokenJoin, TokenTask DEF Next, TaskStep, JoinStep

\* Nobody runs a task before it is submitted.
LEMMA SubmitsNewStep ==
  ASSUME TokenInv, SubmitsNew, [Next]_vars
  PROVE  SubmitsNew'
  <1> USE DEF SubmitsNew, gatherVars, userVars
  <1>1. taskPc \in [Tasks -> TaskPcs]
    BY DEF TokenInv
  <1>2. ASSUME NEW t \in Tasks, Dispatch(t) PROVE SubmitsNew'
    BY <1>1, <1>2 DEF Dispatch
  <1>3. ASSUME NEW t \in Tasks, RunTask(t) \/ RecordException(t) \/ DecrementLocked(t) \/ UnlockGather(t)
        PROVE SubmitsNew'
    BY <1>1, <1>3 DEF RunTask, RecordException, DecrementLocked, UnlockGather
  <1>4. ASSUME NEW t \in Tasks, DecrementAtomic(t) \/ SignalCas(t) \/ SignalPost(t)
        PROVE SubmitsNew'
    BY <1>1, <1>4 DEF DecrementAtomic, SignalCas, SignalPost
  <1>5. CASE Submit \/ Reject \/ RejectDone \/ JoinStart \/ SpuriousWake
    BY <1>5 DEF Submit, Reject, RejectDone, JoinStart, SpuriousWake
  <1>6. CASE JoinStep
    BY <1>6 DEF JoinStep, JoinLock, JoinCvCheck, JoinArm, JoinSpinCheck, JoinExchange, JoinSemWait,
                JoinSetIdle, JoinRelock, JoinReturn
  <1>7. CASE FlushArm \/ UNCHANGED vars
    BY <1>7 DEF FlushArm, vars
  <1>8. QED
    BY <1>2, <1>3, <1>4, <1>5, <1>6, <1>7 DEF Next, TaskStep

\* In the semaphore mode a Join leaves no token behind: outside Join's wait the
\* semaphore is empty and nobody is about to post, although Join may return while a
\* completer of its batch is still between fetch_sub and the compare-exchange.
THEOREM TokensStayInTheirJoin == Spec => []NoTokenLeak
  <1>1. Init => TokenInv /\ SubmitsNew
    BY DEF Init, TokenInv, SubmitsNew, NoneOwed, UserPcs, TaskPcs
  <1>2. TokenInv /\ SubmitsNew /\ [Next]_vars => TokenInv' /\ SubmitsNew'
    BY TokenStep, SubmitsNewStep
  <1>3. TokenInv => NoTokenLeak
    BY DEF TokenInv, NoneOwed, NoTokenLeak
  <1>4. QED
    BY <1>1, <1>2, <1>3, PTL DEF Spec
=============================================================================
