---------------------------- MODULE RuntimeProofs ----------------------------
(***************************************************************************)
(* Proofs about the coroutine runtime of one thread, for any number of     *)
(* routines, stacks and descriptors: a routine always finds its own stack, *)
(* a wait ends once, and no check that ends the process fires.             *)
(***************************************************************************)
EXTENDS Runtime, TLAPS

States == {"INIT", "READY", "RUNNING", "WAIT_IO", "WAIT_TIMER", "WAIT_EVENT", "FINISHED"}

Typed ==
    /\ state \in [Routines -> States]
    /\ ready \in Seq(Routines) /\ calls \in Seq(Routines)
    /\ stackOf \in [Routines -> Stacks]
    /\ occupant \in [Stacks -> Routines \cup {Null}] /\ memory \in [Stacks -> Routines \cup {Null}]
    /\ saved \in [Routines -> BOOLEAN]
    /\ io \in [Routines -> Ops \cup {NoOp}]
    /\ waiter \in [Ops -> Routines \cup {Null}]
    /\ registered \in [Fds -> BOOLEAN]
    /\ timed \in SUBSET Routines /\ sleeping \in SUBSET Routines /\ flush \in SUBSET Routines
    /\ poll \in {"no", "io", "flush", "timers"}

\* The routines that resumed one another are distinct, and all RUNNING.
Nested ==
    /\ \A i, j \in DOMAIN calls : calls[i] = calls[j] => i = j
    /\ \A i \in DOMAIN calls : state[calls[i]] = "RUNNING"
    /\ poll # "no" => calls = <<>>

\* The frames of a routine are on its stack while it is the occupant, and in its
\* snapshot otherwise.
Stacked ==
    /\ calls # <<>> => occupant[stackOf[Current]] = Current
    /\ \A r \in Routines : state[r] # "FINISHED" =>
          IF occupant[stackOf[r]] = r THEN memory[stackOf[r]] = r ELSE saved[r]
    /\ \A s \in Stacks : occupant[s] # Null =>
          stackOf[occupant[s]] = s /\ state[occupant[s]] \notin {"INIT", "FINISHED"}

\* The queue has the READY routines, each once.
Queued ==
    /\ \A i, j \in DOMAIN ready : ready[i] = ready[j] => i = j
    /\ \A i \in DOMAIN ready : state[ready[i]] = "READY"
    /\ \A r \in Routines : state[r] = "READY" => \E i \in DOMAIN ready : ready[i] = r

\* An operation, its routine and its descriptor refer to each other; the timer wheel
\* has only what waits.
Waiting ==
    /\ \A op \in Ops : waiter[op] # Null =>
          state[waiter[op]] = "WAIT_IO" /\ io[waiter[op]] = op /\ registered[op[1]]
    /\ \A r \in Routines :
          /\ state[r] = "WAIT_IO" => io[r] \in Ops /\ waiter[io[r]] = r
          /\ io[r] # NoOp => state[r] = "WAIT_IO"
          /\ r \in timed => state[r] = "WAIT_IO"
          /\ r \in sleeping <=> state[r] = "WAIT_TIMER"

RuntimeInv == Typed /\ Nested /\ Stacked /\ Queued /\ Waiting
-----------------------------------------------------------------------------
(* Facts about sequences, stated for the queue and the call stack.         *)

LEMMA CallsNonEmpty ==
    ASSUME NEW S, NEW q \in Seq(S), q # <<>>
    PROVE  /\ Head(q) \in S /\ Head(q) = q[1] /\ 1 \in DOMAIN q
           /\ Tail(q) \in Seq(S) /\ Len(Tail(q)) = Len(q) - 1
           /\ DOMAIN Tail(q) = 1..(Len(q) - 1)
           /\ \A i \in DOMAIN Tail(q) : Tail(q)[i] = q[i + 1] /\ i + 1 \in DOMAIN q
    OBVIOUS

LEMMA Pushed ==
    ASSUME NEW S, NEW q \in Seq(S), NEW x \in S
    PROVE  /\ <<x>> \o q \in Seq(S) /\ <<x>> \o q # <<>>
           /\ Head(<<x>> \o q) = x
           /\ DOMAIN (<<x>> \o q) = 1..(Len(q) + 1)
           /\ (<<x>> \o q)[1] = x
           /\ \A i \in DOMAIN (<<x>> \o q) : i # 1 => i - 1 \in DOMAIN q /\ (<<x>> \o q)[i] = q[i - 1]
    OBVIOUS

LEMMA Appended ==
    ASSUME NEW S, NEW q \in Seq(S), NEW x \in S
    PROVE  /\ Append(q, x) \in Seq(S)
           /\ DOMAIN Append(q, x) = 1..(Len(q) + 1) /\ DOMAIN q = 1..Len(q)
           /\ Append(q, x)[Len(q) + 1] = x
           /\ \A i \in DOMAIN q : Append(q, x)[i] = q[i] /\ i \in DOMAIN Append(q, x)
           /\ \A i \in DOMAIN Append(q, x) : i \in DOMAIN q \/ i = Len(q) + 1
    OBVIOUS

LEMMA NullIsNoRoutine == Null \notin Routines
    BY DEF Null, Routines

LEMMA NoOpIsNoOp == NoOp \notin Ops
    BY DEF NoOp, Ops, Null

LEMMA OpsArePairs ==
    ASSUME NEW op \in Ops
    PROVE  op[1] \in Fds /\ op[2] \in {"READ", "WRITE"} /\ op = <<op[1], op[2]>>
    BY DEF Ops
-----------------------------------------------------------------------------
(* What the steps do to each part of the invariant.                        *)

\* The part of Typed that a switch touches.
StacksTyped ==
    /\ state \in [Routines -> States]
    /\ calls \in Seq(Routines)
    /\ stackOf \in [Routines -> Stacks]
    /\ occupant \in [Stacks -> Routines \cup {Null}] /\ memory \in [Stacks -> Routines \cup {Null}]
    /\ saved \in [Routines -> BOOLEAN]

\* Control goes to r: who had its stack is saved, r finds its frames there.  st is
\* the states before the switch, or, when a routine leaves, already its new one.
LEMMA SwitchKeeps ==
    ASSUME StacksTyped, NEW r \in Routines, NEW st \in [Routines -> States], SwitchTo(r, st),
           IF occupant[stackOf[r]] = r THEN memory[stackOf[r]] = r ELSE saved[r],
           \A q \in Routines : st[q] \notin {"INIT", "FINISHED"} =>
               IF occupant[stackOf[q]] = q THEN memory[stackOf[q]] = q ELSE saved[q],
           \A s \in Stacks : occupant[s] # Null => stackOf[occupant[s]] = s
    PROVE  /\ occupant' \in [Stacks -> Routines \cup {Null}] /\ memory' \in [Stacks -> Routines \cup {Null}]
           /\ saved' \in [Routines -> BOOLEAN] /\ stackOf' = stackOf
           /\ occupant'[stackOf[r]] = r /\ memory'[stackOf[r]] = r
           /\ \A s \in Stacks : s # stackOf[r] => occupant'[s] = occupant[s] /\ memory'[s] = memory[s]
           /\ \A q \in Routines : q # r /\ st[q] \notin {"INIT", "FINISHED"} =>
                  IF occupant'[stackOf[q]] = q THEN memory'[stackOf[q]] = q ELSE saved'[q]
           /\ \A q \in Routines : q # r /\ occupant[stackOf[r]] # q => saved'[q] = saved[q]
  <1> USE NullIsNoRoutine DEF SwitchTo, OccupantWith, MemoryWith, SavedWith, StacksTyped
  <1>1. /\ occupant' \in [Stacks -> Routines \cup {Null}] /\ memory' \in [Stacks -> Routines \cup {Null}]
        /\ stackOf' = stackOf /\ stackOf[r] \in Stacks
        /\ occupant'[stackOf[r]] = r /\ memory'[stackOf[r]] = r
        /\ \A s \in Stacks : s # stackOf[r] => occupant'[s] = occupant[s] /\ memory'[s] = memory[s]
    OBVIOUS
  <1>2. saved' \in [Routines -> BOOLEAN]
    BY Zenon
  <1>3. ASSUME NEW q \in Routines, q # r, st[q] \notin {"INIT", "FINISHED"}
        PROVE  IF occupant'[stackOf[q]] = q THEN memory'[stackOf[q]] = q ELSE saved'[q]
    <2>1. CASE occupant[stackOf[r]] = q
      <3>1. stackOf[q] = stackOf[r] /\ memory[stackOf[r]] = q
        BY <1>3, <2>1
      <3>2. saved'[q] = TRUE
        BY <1>3, <2>1, <3>1
      <3> QED
        BY <1>1, <1>3, <3>1, <3>2
    <2>2. CASE occupant[stackOf[r]] # q
      <3>1. saved'[q] = saved[q]
        BY <1>3, <2>2
      <3>2. occupant'[stackOf[q]] = q => stackOf[q] # stackOf[r]
        BY <1>1, <1>3
      <3>3. occupant'[stackOf[q]] # q => occupant[stackOf[q]] # q
        BY <1>1, <1>3, <2>2
      <3> QED
        BY <1>1, <1>3, <3>1, <3>2, <3>3
    <2> QED
      BY <2>1, <2>2
  <1>4. \A q \in Routines : q # r /\ occupant[stackOf[r]] # q => saved'[q] = saved[q]
    OBVIOUS
  <1> QED
    BY Zenon, <1>1, <1>2, <1>3, <1>4

\* Scheduler::Resume of a routine that is not on the call stack.
LEMMA ResumesKeeps ==
    ASSUME StacksTyped, Nested, Stacked, poll = "no", poll' = "no",
           NEW r \in Routines, state[r] \notin {"RUNNING", "FINISHED"}, Resumes(r)
    PROVE  StacksTyped' /\ Nested' /\ Stacked'
  <1> USE NullIsNoRoutine
  <1>1. /\ occupant' \in [Stacks -> Routines \cup {Null}] /\ memory' \in [Stacks -> Routines \cup {Null}]
        /\ saved' \in [Routines -> BOOLEAN] /\ stackOf' = stackOf
        /\ occupant'[stackOf[r]] = r /\ memory'[stackOf[r]] = r
        /\ \A s \in Stacks : s # stackOf[r] => occupant'[s] = occupant[s] /\ memory'[s] = memory[s]
        /\ \A q \in Routines : q # r /\ state[q] \notin {"INIT", "FINISHED"} =>
               IF occupant'[stackOf[q]] = q THEN memory'[stackOf[q]] = q ELSE saved'[q]
        /\ \A q \in Routines : q # r /\ occupant[stackOf[r]] # q => saved'[q] = saved[q]
    <2>1. \A q \in Routines : state[q] \notin {"INIT", "FINISHED"} =>
               IF occupant[stackOf[q]] = q THEN memory[stackOf[q]] = q ELSE saved[q]
      BY DEF Stacked
    <2>2. IF occupant[stackOf[r]] = r THEN memory[stackOf[r]] = r ELSE saved[r]
      BY DEF Stacked
    <2>3. SwitchTo(r, state) /\ state \in [Routines -> States]
      BY DEF Resumes, StacksTyped
    <2>4. \A s \in Stacks : occupant[s] # Null => stackOf[occupant[s]] = s
      BY DEF Stacked
    <2> QED
      BY <2>1, <2>2, <2>3, <2>4, SwitchKeeps
  <1>2. /\ state' \in [Routines -> States] /\ state'[r] = "RUNNING"
        /\ \A q \in Routines : q # r => state'[q] = state[q]
    BY DEF Resumes, StacksTyped, States
  <1>3. /\ calls' \in Seq(Routines) /\ calls' # <<>> /\ Head(calls') = r
        /\ calls'[1] = r
        /\ \A i \in DOMAIN calls' : i # 1 => i - 1 \in DOMAIN calls /\ calls'[i] = calls[i - 1]
        /\ DOMAIN calls' = 1..(Len(calls) + 1)
    BY Pushed DEF Resumes, StacksTyped
  <1>4. StacksTyped'
    BY <1>1, <1>2, <1>3 DEF StacksTyped
  <1>5. Nested'
    <2>1. \A i \in DOMAIN calls : calls[i] \in Routines /\ calls[i] # r
      BY DEF StacksTyped, Nested
    <2>2. ASSUME NEW i \in DOMAIN calls' PROVE state'[calls'[i]] = "RUNNING"
      BY <1>2, <1>3, <2>1 DEF Nested
    <2>3. ASSUME NEW i \in DOMAIN calls', NEW j \in DOMAIN calls', calls'[i] = calls'[j] PROVE i = j
      <3>1. CASE i = 1
        BY <1>3, <2>1, <2>3, <3>1
      <3>2. CASE j = 1
        BY <1>3, <2>1, <2>3, <3>2
      <3>3. CASE i # 1 /\ j # 1
        <4>1. i - 1 = j - 1
          BY <1>3, <2>3, <3>3 DEF Nested
        <4> QED
          BY <4>1, <1>3
      <3> QED
        BY <3>1, <3>2, <3>3
    <2> QED
      BY <2>2, <2>3 DEF Nested
  <1>6. Stacked'
    <2>1. ASSUME NEW q \in Routines, state'[q] # "FINISHED"
          PROVE  IF occupant'[stackOf'[q]] = q THEN memory'[stackOf'[q]] = q ELSE saved'[q]
      <3>1. CASE q = r
        BY <1>1, <3>1
      <3>2. CASE q # r /\ state[q] # "INIT"
        BY <1>1, <1>2, <2>1, <3>2
      <3>3. CASE q # r /\ state[q] = "INIT"
        <4>1. \A s \in Stacks : occupant[s] # q
          BY <3>3 DEF Stacked
        <4>2. saved[q] /\ saved'[q] = saved[q]
          BY <1>1, <3>3, <4>1 DEF Stacked, StacksTyped
        <4>3. occupant'[stackOf[q]] # q
          BY <1>1, <3>3, <4>1 DEF StacksTyped
        <4> QED
          BY <1>1, <4>2, <4>3
      <3> QED
        BY <3>1, <3>2, <3>3
    <2>2. ASSUME NEW s \in Stacks, occupant'[s] # Null
          PROVE  stackOf'[occupant'[s]] = s /\ state'[occupant'[s]] \notin {"INIT", "FINISHED"}
      <3>1. CASE s = stackOf[r]
        BY <1>1, <1>2, <3>1
      <3>2. CASE s # stackOf[r]
        BY <1>1, <1>2, <2>2, <3>2 DEF Stacked, StacksTyped
      <3> QED
        BY <3>1, <3>2
    <2>3. occupant'[stackOf'[Head(calls')]] = Head(calls')
      BY <1>1, <1>3
    <2> QED
      BY <2>1, <2>2, <2>3 DEF Stacked, Current
  <1> QED
    BY <1>4, <1>5, <1>6

\* The running routine leaves the call stack, and whoever resumed it goes on.
LEMMA CallsLeft ==
    ASSUME StacksTyped, Nested, Runs, calls' = Tail(calls), poll' = poll,
           NEW st \in [Routines -> States], state' = [state EXCEPT ![Current] = st[Current]]
    PROVE  /\ Current \in Routines /\ state[Current] = "RUNNING"
           /\ state' \in [Routines -> States] /\ calls' \in Seq(Routines)
           /\ \A i \in DOMAIN calls' : calls'[i] \in Routines /\ calls'[i] # Current
           /\ Nested'
  <1>1. /\ Head(calls) = calls[1] /\ 1 \in DOMAIN calls /\ Current \in Routines
        /\ calls' \in Seq(Routines) /\ DOMAIN calls' = 1..(Len(calls) - 1)
        /\ \A i \in DOMAIN calls' : calls'[i] = calls[i + 1] /\ i + 1 \in DOMAIN calls
    BY CallsNonEmpty DEF StacksTyped, Runs, Current
  <1>2. state' \in [Routines -> States] /\ \A q \in Routines : q # Current => state'[q] = state[q]
    BY <1>1 DEF StacksTyped
  <1>3. state[Current] = "RUNNING"
    BY <1>1 DEF Nested, Current
  <1>4. ASSUME NEW i \in DOMAIN calls' PROVE calls'[i] \in Routines /\ calls'[i] # Current
    <2>1. i + 1 # 1 /\ i + 1 \in DOMAIN calls /\ calls'[i] = calls[i + 1]
      BY <1>1
    <2>2. calls[i + 1] # calls[1]
      BY <1>1, <2>1 DEF Nested
    <2>3. calls'[i] \in Routines
      BY <1>1
    <2> QED
      BY <1>1, <2>1, <2>2, <2>3 DEF Current
  <1>5. ASSUME NEW i \in DOMAIN calls', NEW j \in DOMAIN calls', calls'[i] = calls'[j] PROVE i = j
    <2>1. i + 1 = j + 1
      BY <1>1, <1>5 DEF Nested
    <2> QED
      BY <1>1, <2>1
  <1>6. \A i \in DOMAIN calls' : state'[calls'[i]] = "RUNNING"
    BY <1>1, <1>2, <1>4 DEF Nested
  <1>7. Nested'
    BY <1>5, <1>6 DEF Nested, Runs, User
  <1> QED
    BY <1>1, <1>2, <1>3, <1>4, <1>7

\* YieldCurrent with a state in which the routine waits.
LEMMA SuspendsKeeps ==
    ASSUME StacksTyped, Nested, Stacked, Runs, poll' = poll,
           NEW w \in {"WAIT_IO", "WAIT_TIMER", "WAIT_EVENT"}, Suspends(w)
    PROVE  /\ StacksTyped' /\ Nested' /\ Stacked'
           /\ Current \in Routines /\ state[Current] = "RUNNING"
           /\ state' = [state EXCEPT ![Current] = w]
  <1> USE NullIsNoRoutine
  <1>1. /\ Current \in Routines /\ state[Current] = "RUNNING"
        /\ state' \in [Routines -> States] /\ calls' \in Seq(Routines)
        /\ \A i \in DOMAIN calls' : calls'[i] \in Routines /\ calls'[i] # Current
        /\ Nested'
    <2> DEFINE st == [q \in Routines |-> w]
    <2>1. Current \in Routines
      BY CallsNonEmpty DEF StacksTyped, Runs, Current
    <2>2. st \in [Routines -> States] /\ state' = [state EXCEPT ![Current] = st[Current]] /\ calls' = Tail(calls)
      BY <2>1 DEF Suspends, States
    <2> HIDE DEF st
    <2> QED
      BY Zenon, <2>2, CallsLeft
  <1>2. /\ state'[Current] = w
        /\ \A q \in Routines : q # Current => state'[q] = state[q]
        /\ \A q \in Routines : state'[q] # "FINISHED" => state[q] # "FINISHED"
        /\ \A q \in Routines : state'[q] \in {"INIT", "FINISHED"} <=> state[q] \in {"INIT", "FINISHED"}
    BY <1>1 DEF Suspends, StacksTyped
  <1>3. CASE Tail(calls) = <<>>
    <2>1. UNCHANGED stackVars /\ calls' = <<>>
      BY <1>3 DEF Suspends
    <2>2. StacksTyped'
      BY <1>1, <2>1 DEF StacksTyped, stackVars
    <2>3. Stacked'
      BY <1>1, <1>2, <2>1 DEF Stacked, stackVars, StacksTyped
    <2> QED
      BY <1>1, <2>2, <2>3 DEF Suspends
  <1>4. CASE Tail(calls) # <<>>
    <2> DEFINE c == Head(Tail(calls))
    <2>1. calls' = Tail(calls) /\ calls' # <<>> /\ Head(calls') = c /\ SwitchTo(c, state')
      BY <1>4 DEF Suspends
    <2>2. c \in Routines /\ c # Current /\ state[c] = "RUNNING" /\ state'[c] = "RUNNING"
      <3>1. c = calls'[1] /\ 1 \in DOMAIN calls'
        BY <1>1, <2>1, CallsNonEmpty
      <3>2. state'[calls'[1]] = "RUNNING"
        BY <1>1, <3>1 DEF Nested
      <3>3. calls'[1] \in Routines /\ calls'[1] # Current
        BY <1>1, <3>1
      <3> HIDE DEF c
      <3> QED
        BY <1>2, <3>1, <3>2, <3>3
    <2> HIDE DEF c
    <2>3. /\ occupant' \in [Stacks -> Routines \cup {Null}] /\ memory' \in [Stacks -> Routines \cup {Null}]
          /\ saved' \in [Routines -> BOOLEAN] /\ stackOf' = stackOf
          /\ occupant'[stackOf[c]] = c /\ memory'[stackOf[c]] = c
          /\ \A s \in Stacks : s # stackOf[c] => occupant'[s] = occupant[s] /\ memory'[s] = memory[s]
          /\ \A q \in Routines : q # c /\ state'[q] \notin {"INIT", "FINISHED"} =>
                 IF occupant'[stackOf[q]] = q THEN memory'[stackOf[q]] = q ELSE saved'[q]
          /\ \A q \in Routines : q # c /\ occupant[stackOf[c]] # q => saved'[q] = saved[q]
      <3>1. \A q \in Routines : state'[q] \notin {"INIT", "FINISHED"} =>
                 IF occupant[stackOf[q]] = q THEN memory[stackOf[q]] = q ELSE saved[q]
        BY <1>2 DEF Stacked
      <3>2. IF occupant[stackOf[c]] = c THEN memory[stackOf[c]] = c ELSE saved[c]
        BY <2>2 DEF Stacked
      <3>3. \A s \in Stacks : occupant[s] # Null => stackOf[occupant[s]] = s
        BY DEF Stacked
      <3> QED
        BY <1>1, <2>1, <2>2, <3>1, <3>2, <3>3, SwitchKeeps
    <2>4. StacksTyped'
      BY <1>1, <2>3 DEF StacksTyped
    <2>5. ASSUME NEW q \in Routines, state'[q] # "FINISHED"
          PROVE  IF occupant'[stackOf'[q]] = q THEN memory'[stackOf'[q]] = q ELSE saved'[q]
      <3>1. CASE q = c
        BY <2>3, <3>1
      <3>2. CASE q # c /\ state'[q] # "INIT"
        BY <2>3, <2>5, <3>2
      <3>3. CASE q # c /\ state'[q] = "INIT"
        <4>1. state[q] \in {"INIT", "FINISHED"} /\ state[q] # "FINISHED"
          BY <1>2, <2>5, <3>3
        <4>2. \A s \in Stacks : occupant[s] # q
          BY <4>1 DEF Stacked
        <4>3. saved[q] /\ saved'[q] = saved[q]
          BY <2>2, <2>3, <3>3, <4>1, <4>2 DEF Stacked, StacksTyped
        <4>4. occupant'[stackOf[q]] # q
          BY <2>3, <3>3, <4>2 DEF StacksTyped
        <4> QED
          BY <2>3, <4>3, <4>4
      <3> QED
        BY <3>1, <3>2, <3>3
    <2>6. ASSUME NEW s \in Stacks, occupant'[s] # Null
          PROVE  stackOf'[occupant'[s]] = s /\ state'[occupant'[s]] \notin {"INIT", "FINISHED"}
      <3>1. CASE s = stackOf[c]
        BY <2>2, <2>3, <3>1
      <3>2. CASE s # stackOf[c]
        BY <1>2, <2>3, <2>6, <3>2 DEF Stacked, StacksTyped
      <3> QED
        BY <3>1, <3>2
    <2>7. Stacked'
      BY <2>1, <2>3, <2>5, <2>6 DEF Stacked, Current
    <2> QED
      BY <1>1, <2>4, <2>7 DEF Suspends
  <1> QED
    BY <1>3, <1>4

\* A routine leaves for good.
LEMMA FinishKeeps ==
    ASSUME StacksTyped, Nested, Stacked, Finish
    PROVE  /\ StacksTyped' /\ Nested' /\ Stacked'
           /\ Current \in Routines /\ state[Current] = "RUNNING"
  <1> USE NullIsNoRoutine
  <1>1. /\ Current \in Routines /\ state[Current] = "RUNNING"
        /\ state' \in [Routines -> States] /\ calls' \in Seq(Routines)
        /\ \A i \in DOMAIN calls' : calls'[i] \in Routines /\ calls'[i] # Current
        /\ Nested'
    <2> DEFINE st == [q \in Routines |-> "FINISHED"]
    <2>1. Current \in Routines /\ Runs /\ poll' = poll
      BY CallsNonEmpty DEF StacksTyped, Runs, Current, Finish
    <2>2. st \in [Routines -> States] /\ state' = [state EXCEPT ![Current] = st[Current]] /\ calls' = Tail(calls)
      BY <2>1 DEF Finish, States
    <2> HIDE DEF st
    <2> QED
      BY Zenon, <2>1, <2>2, CallsLeft
  <1>2. /\ state'[Current] = "FINISHED"
        /\ \A q \in Routines : q # Current => state'[q] = state[q]
        /\ stackOf' = stackOf
    BY <1>1 DEF Finish, StacksTyped
  <1>3. CASE Tail(calls) = <<>>
    <2>1. /\ memory' = memory /\ saved' = saved /\ calls' = <<>>
          /\ occupant' = [s \in Stacks |-> IF occupant[s] = Current THEN Null ELSE occupant[s]]
      BY <1>3 DEF Finish
    <2>2. StacksTyped'
      BY <1>1, <1>2, <2>1 DEF StacksTyped
    <2>3. Stacked'
      BY <1>1, <1>2, <2>1 DEF Stacked, StacksTyped
    <2> QED
      BY <1>1, <2>2, <2>3
  <1>4. CASE Tail(calls) # <<>>
    <2> DEFINE c == Head(Tail(calls))
               o == OccupantWith(c)
    <2>1. /\ calls' = Tail(calls) /\ calls' # <<>> /\ Head(calls') = c
          /\ memory' = MemoryWith(c) /\ saved' = SavedWith(c, state')
          /\ occupant' = [s \in Stacks |-> IF o[s] = Current THEN Null ELSE o[s]]
      BY <1>4 DEF Finish
    <2>2. c \in Routines /\ c # Current /\ state[c] = "RUNNING" /\ state'[c] = "RUNNING"
      <3>1. c = calls'[1] /\ 1 \in DOMAIN calls'
        BY <1>1, <2>1, CallsNonEmpty
      <3>2. state'[calls'[1]] = "RUNNING"
        BY <1>1, <3>1 DEF Nested
      <3>3. calls'[1] \in Routines /\ calls'[1] # Current
        BY <1>1, <3>1
      <3> HIDE DEF c
      <3> QED
        BY <1>2, <3>1, <3>2, <3>3
    <2> HIDE DEF c
    <2>3. /\ o \in [Stacks -> Routines \cup {Null}] /\ o[stackOf[c]] = c /\ stackOf[c] \in Stacks
          /\ \A s \in Stacks : s # stackOf[c] => o[s] = occupant[s]
      BY <2>2 DEF OccupantWith, StacksTyped
    <2> HIDE DEF o
    <2>4. /\ occupant' \in [Stacks -> Routines \cup {Null}]
          /\ \A s \in Stacks : occupant'[s] = IF o[s] = Current THEN Null ELSE o[s]
      BY <2>1, <2>3
    <2>5. /\ memory' \in [Stacks -> Routines \cup {Null}] /\ memory'[stackOf[c]] = c
          /\ \A s \in Stacks : s # stackOf[c] => memory'[s] = memory[s]
      <3>1. IF occupant[stackOf[c]] = c THEN memory[stackOf[c]] = c ELSE saved[c]
        BY <2>2 DEF Stacked
      <3> QED
        BY <2>1, <2>2, <3>1 DEF MemoryWith, StacksTyped
    <2>6. /\ saved' \in [Routines -> BOOLEAN]
          /\ \A q \in Routines : q # c /\ occupant[stackOf[c]] # q => saved'[q] = saved[q]
          /\ \A q \in Routines : q # c /\ occupant[stackOf[c]] = q /\ state'[q] \notin {"INIT", "FINISHED"}
                 => saved'[q] = (memory[stackOf[c]] = q)
      BY Zenon, <2>1, <2>2 DEF SavedWith, StacksTyped
    <2>7. StacksTyped'
      BY <1>1, <1>2, <2>4, <2>5, <2>6 DEF StacksTyped
    <2>8. ASSUME NEW q \in Routines, state'[q] # "FINISHED"
          PROVE  IF occupant'[stackOf'[q]] = q THEN memory'[stackOf'[q]] = q ELSE saved'[q]
      <3>1. q # Current /\ state[q] = state'[q] /\ stackOf[q] \in Stacks
        BY <1>2, <2>8 DEF StacksTyped
      <3>2. IF occupant[stackOf[q]] = q THEN memory[stackOf[q]] = q ELSE saved[q]
        BY <2>8, <3>1 DEF Stacked
      <3>3. CASE q = c
        BY <1>2, <2>2, <2>3, <2>4, <2>5, <3>3
      <3>4. CASE q # c /\ occupant[stackOf[c]] = q
        <4>1. stackOf[q] = stackOf[c] /\ state[q] \notin {"INIT", "FINISHED"}
          BY <2>3, <3>4 DEF Stacked
        <4>2. saved'[q]
          BY <2>6, <3>1, <3>2, <3>4, <4>1
        <4>3. occupant'[stackOf[q]] # q
          BY <2>2, <2>3, <2>4, <3>4, <4>1
        <4> QED
          BY <1>2, <4>2, <4>3
      <3>5. CASE q # c /\ occupant[stackOf[c]] # q
        <4>1. saved'[q] = saved[q]
          BY <2>6, <3>5
        <4>2. CASE stackOf[q] = stackOf[c]
          BY <1>2, <2>2, <2>3, <2>4, <3>1, <3>2, <3>5, <4>1, <4>2
        <4>3. CASE stackOf[q] # stackOf[c]
          <5>1. o[stackOf[q]] = occupant[stackOf[q]] /\ memory'[stackOf[q]] = memory[stackOf[q]]
            BY <2>3, <2>5, <3>1, <4>3
          <5>2. occupant'[stackOf[q]] = q <=> occupant[stackOf[q]] = q
            BY <2>4, <3>1, <5>1
          <5> QED
            BY <1>2, <3>2, <4>1, <5>1, <5>2
        <4> QED
          BY <4>2, <4>3
      <3> QED
        BY <3>3, <3>4, <3>5
    <2>9. ASSUME NEW s \in Stacks, occupant'[s] # Null
          PROVE  stackOf'[occupant'[s]] = s /\ state'[occupant'[s]] \notin {"INIT", "FINISHED"}
      <3>1. occupant'[s] = o[s] /\ o[s] # Current /\ o[s] \in Routines
        BY <2>3, <2>4, <2>9
      <3>2. CASE s = stackOf[c]
        BY <1>2, <2>2, <2>3, <3>1, <3>2
      <3>3. CASE s # stackOf[c]
        BY <1>2, <2>3, <3>1, <3>3 DEF Stacked
      <3> QED
        BY <3>2, <3>3
    <2>10. occupant'[stackOf'[Head(calls')]] = Head(calls')
      BY <1>2, <2>1, <2>2, <2>3, <2>4
    <2>11. Stacked'
      BY <2>8, <2>9, <2>10 DEF Stacked, Current
    <2> QED
      BY <1>1, <2>7, <2>11
  <1> QED
    BY <1>3, <1>4

\* A routine that is created has nothing on its stack yet.
LEMMA AcquireKeeps ==
    ASSUME StacksTyped, Nested, Stacked, NEW r \in Routines, Acquire(r),
           NEW new \in {"INIT", "READY"}, state' = [state EXCEPT ![r] = new], calls' = calls, poll' = poll
    PROVE  StacksTyped' /\ Nested' /\ Stacked'
  <1> USE NullIsNoRoutine DEF Acquire
  <1>1. StacksTyped'
    BY DEF StacksTyped, States
  <1>2. Nested'
    BY DEF Nested, StacksTyped
  <1>3. \A s \in Stacks : occupant[s] # r
    BY DEF Stacked
  <1>4. Stacked'
    BY <1>3 DEF Stacked, StacksTyped, Current
  <1> QED
    BY <1>1, <1>2, <1>4

\* A routine that waits becomes ready; the stacks do not change.
LEMMA WakingKeeps ==
    ASSUME StacksTyped, Nested, Stacked, UNCHANGED <<calls, stackVars>>,
           state' \in [Routines -> States],
           \A r \in Routines : \/ state'[r] = state[r]
                               \/ state[r] \in {"WAIT_IO", "WAIT_TIMER", "WAIT_EVENT"} /\ state'[r] = "READY",
           poll' # "no" => calls = <<>>
    PROVE  StacksTyped' /\ Nested' /\ Stacked'
  <1> USE NullIsNoRoutine DEF stackVars
  <1>1. StacksTyped'
    BY DEF StacksTyped
  <1>2. Nested'
    BY DEF Nested, StacksTyped
  <1>3. Stacked'
    BY DEF Stacked, StacksTyped, Current
  <1> QED
    BY <1>1, <1>2, <1>3
-----------------------------------------------------------------------------
LEMMA QueueSame ==
    ASSUME Typed, Queued, ready' = ready,
           \A r \in Routines : state'[r] = "READY" <=> state[r] = "READY"
    PROVE  Queued'
    BY DEF Queued, Typed

LEMMA QueueGrows ==
    ASSUME NEW q \in Seq(Routines), NEW x \in Routines,
           \A i, j \in DOMAIN q : q[i] = q[j] => i = j,
           \A i \in DOMAIN q : q[i] # x
    PROVE  \A i, j \in DOMAIN Append(q, x) : Append(q, x)[i] = Append(q, x)[j] => i = j
  <1> DEFINE a == Append(q, x)
  <1>1. /\ a[Len(q) + 1] = x
        /\ \A i \in DOMAIN q : a[i] = q[i]
        /\ \A i \in DOMAIN a : i \in DOMAIN q \/ i = Len(q) + 1
    BY Appended
  <1> HIDE DEF a
  <1>2. ASSUME NEW i \in DOMAIN a, NEW j \in DOMAIN a, a[i] = a[j] PROVE i = j
    BY <1>1, <1>2
  <1> QED
    BY <1>2 DEF a

\* MakeReady queues a routine that is not READY.
LEMMA MakeReadyKeeps ==
    ASSUME Typed, Queued, NEW r \in Routines, state[r] # "READY", MakeReady(r)
    PROVE  /\ Queued' /\ ready' \in Seq(Routines)
           /\ state' \in [Routines -> States] /\ state' = [state EXCEPT ![r] = "READY"]
  <1>1. /\ state' \in [Routines -> States] /\ state'[r] = "READY"
        /\ \A q \in Routines : q # r => state'[q] = state[q]
    BY DEF Typed, MakeReady, States
  <1>2. ready \in Seq(Routines) /\ ready' = Append(ready, r)
    BY DEF Typed, MakeReady
  <1>3. /\ ready' \in Seq(Routines) /\ ready'[Len(ready) + 1] = r /\ Len(ready) + 1 \in DOMAIN ready'
        /\ \A i \in DOMAIN ready : ready'[i] = ready[i] /\ i \in DOMAIN ready' /\ ready[i] \in Routines
        /\ \A i \in DOMAIN ready' : i \in DOMAIN ready \/ i = Len(ready) + 1
    BY <1>2, Appended
  <1>4. \A i \in DOMAIN ready : ready[i] # r
    BY DEF Queued
  <1>5. \A i, j \in DOMAIN ready' : ready'[i] = ready'[j] => i = j
    BY <1>2, <1>4, QueueGrows DEF Queued
  <1>6. \A i \in DOMAIN ready' : state'[ready'[i]] = "READY"
    BY <1>1, <1>3, <1>4 DEF Queued
  <1>7. ASSUME NEW q \in Routines, state'[q] = "READY"
        PROVE  \E i \in DOMAIN ready' : ready'[i] = q
    <2>1. CASE q = r
      BY <1>3, <2>1
    <2>2. CASE q # r
      <3>1. PICK i \in DOMAIN ready : ready[i] = q
        BY <1>1, <1>7, <2>2 DEF Queued
      <3> QED
        BY <1>3, <3>1
    <2> QED
      BY <2>1, <2>2
  <1> QED
    BY <1>1, <1>3, <1>5, <1>6, <1>7 DEF Queued, MakeReady

\* RunReady takes the first.
LEMMA DequeueKeeps ==
    ASSUME Typed, Queued, ready # <<>>, ready' = Tail(ready),
           state' = [state EXCEPT ![Head(ready)] = "RUNNING"]
    PROVE  Queued' /\ ready' \in Seq(Routines) /\ Head(ready) \in Routines /\ state[Head(ready)] = "READY"
  <1>1. /\ Head(ready) \in Routines /\ Head(ready) = ready[1] /\ 1 \in DOMAIN ready
        /\ ready' \in Seq(Routines) /\ DOMAIN ready' = 1..(Len(ready) - 1) /\ DOMAIN ready = 1..Len(ready)
        /\ \A i \in DOMAIN ready' : ready'[i] = ready[i + 1] /\ i + 1 \in DOMAIN ready
    BY CallsNonEmpty DEF Typed
  <1>2. /\ state'[Head(ready)] = "RUNNING"
        /\ \A q \in Routines : q # Head(ready) => state'[q] = state[q]
    BY <1>1 DEF Typed
  <1>3. ASSUME NEW i \in DOMAIN ready', NEW j \in DOMAIN ready', ready'[i] = ready'[j] PROVE i = j
    <2>1. i + 1 = j + 1
      BY <1>1, <1>3 DEF Queued
    <2> QED
      BY <1>1, <2>1
  <1>4. ASSUME NEW i \in DOMAIN ready' PROVE state'[ready'[i]] = "READY"
    <2>1. i + 1 # 1 /\ i + 1 \in DOMAIN ready /\ ready[i + 1] \in Routines
      BY <1>1
    <2>2. ready[i + 1] # Head(ready)
      BY <1>1, <2>1 DEF Queued
    <2> QED
      BY <1>1, <1>2, <2>1, <2>2 DEF Queued
  <1>5. ASSUME NEW q \in Routines, state'[q] = "READY" PROVE \E i \in DOMAIN ready' : ready'[i] = q
    <2>1. q # Head(ready) /\ state[q] = "READY"
      BY <1>2, <1>5
    <2>2. PICK i \in DOMAIN ready : ready[i] = q
      BY <2>1 DEF Queued
    <2>3. i - 1 \in DOMAIN ready' /\ ready'[i - 1] = q
      BY <1>1, <2>1, <2>2
    <2> QED
      BY <2>3
  <1> QED
    BY <1>1, <1>3, <1>4, <1>5 DEF Queued
-----------------------------------------------------------------------------
LEMMA WaitsSame ==
    ASSUME Typed, Waiting, UNCHANGED waitVars,
           \A r \in Routines : /\ state'[r] = "WAIT_IO" <=> state[r] = "WAIT_IO"
                               /\ state'[r] = "WAIT_TIMER" <=> state[r] = "WAIT_TIMER"
    PROVE  Waiting'
    BY DEF Waiting, Typed, waitVars

\* CompleteWait takes the operation out of everything that refers to it.
LEMMA CompleteWaitKeeps ==
    ASSUME Typed, Queued, Waiting, NEW r \in Routines, state[r] = "WAIT_IO", CompleteWait(r),
           registered' \in [Fds -> BOOLEAN],
           \A op \in Ops : waiter'[op] # Null /\ registered[op[1]] => registered'[op[1]]
    PROVE  /\ Queued' /\ Waiting'
           /\ ready' \in Seq(Routines) /\ timed' \in SUBSET Routines
           /\ io' \in [Routines -> Ops \cup {NoOp}] /\ waiter' \in [Ops -> Routines \cup {Null}]
           /\ state' \in [Routines -> States] /\ state' = [state EXCEPT ![r] = "READY"]
  <1> USE NullIsNoRoutine, NoOpIsNoOp
  <1>1. /\ Queued' /\ ready' \in Seq(Routines)
        /\ state' \in [Routines -> States] /\ state' = [state EXCEPT ![r] = "READY"]
    <2>1. MakeReady(r)
      BY Zenon DEF CompleteWait
    <2> QED
      BY <2>1, MakeReadyKeeps
  <1>2. /\ state'[r] = "READY" /\ \A q \in Routines : q # r => state'[q] = state[q]
        /\ io'[r] = NoOp /\ \A q \in Routines : q # r => io'[q] = io[q]
        /\ io' \in [Routines -> Ops \cup {NoOp}]
    BY <1>1 DEF CompleteWait, Typed
  <1>3. /\ waiter' \in [Ops -> Routines \cup {Null}]
        /\ \A op \in Ops : waiter'[op] = IF waiter[op] = r /\ io[r] = op THEN Null ELSE waiter[op]
    BY DEF CompleteWait, Typed
  <1>4. timed' = timed \ {r} /\ sleeping' = sleeping
    BY DEF CompleteWait
  <1>5. ASSUME NEW op \in Ops, waiter'[op] # Null
        PROVE  state'[waiter'[op]] = "WAIT_IO" /\ io'[waiter'[op]] = op /\ registered'[op[1]]
    <2>1. waiter'[op] = waiter[op] /\ waiter[op] # r /\ waiter[op] \in Routines
      BY <1>3, <1>5 DEF Waiting
    <2> QED
      BY <1>2, <1>5, <2>1 DEF Waiting
  <1>6. ASSUME NEW q \in Routines
        PROVE  /\ state'[q] = "WAIT_IO" => io'[q] \in Ops /\ waiter'[io'[q]] = q
               /\ io'[q] # NoOp => state'[q] = "WAIT_IO"
               /\ q \in timed' => state'[q] = "WAIT_IO"
               /\ q \in sleeping' <=> state'[q] = "WAIT_TIMER"
    <2>1. CASE q = r
      BY <1>2, <1>4, <2>1 DEF Waiting
    <2>2. CASE q # r
      BY <1>2, <1>3, <1>4, <2>2 DEF Waiting
    <2> QED
      BY <2>1, <2>2
  <1>7. Waiting'
    BY <1>5, <1>6 DEF Waiting
  <1> QED
    BY Zenon, <1>1, <1>2, <1>3, <1>4, <1>7 DEF Typed
-----------------------------------------------------------------------------
(* Each call keeps the invariant.                                          *)

LEMMA TypedParts == Typed => StacksTyped
    BY DEF Typed, StacksTyped

LEMMA InitKeeps == Init => RuntimeInv
  <1> SUFFICES ASSUME Init PROVE RuntimeInv
    OBVIOUS
  <1>1. Typed
    BY DEF Init, Typed, States
  <1>2. Nested /\ Stacked /\ Queued
    BY DEF Init, Nested, Stacked, Queued
  <1>3. Waiting
    BY NoOpIsNoOp DEF Init, Waiting
  <1> QED
    BY <1>1, <1>2, <1>3 DEF RuntimeInv

\* CreateCo and Spawn (coroutine_runtime.cpp 67-78, 162-173).
LEMMA CreateKeeps ==
    ASSUME RuntimeInv, NEW r \in Routines, CreateCo(r) \/ Spawn(r)
    PROVE  RuntimeInv'
  <1> USE DEF RuntimeInv
  <1>1. CASE CreateCo(r)
    <2> USE <1>1 DEF CreateCo
    <2>1. /\ state[r] = "FINISHED" /\ state'[r] = "INIT" /\ UNCHANGED waitVars
          /\ \A q \in Routines : q # r => state'[q] = state[q]
      BY DEF Typed, Acquire
    <2>2. StacksTyped' /\ Nested' /\ Stacked'
      BY ZenonT(30), TypedParts, AcquireKeeps
    <2>3. Typed'
      BY <2>2 DEF Typed, StacksTyped, waitVars
    <2>4. Queued' /\ Waiting'
      BY <2>1, QueueSame, WaitsSame
    <2> QED
      BY <2>2, <2>3, <2>4
  <1>2. CASE Spawn(r)
    <2> USE <1>2 DEF Spawn
    <2>1. /\ state[r] = "FINISHED" /\ state'[r] = "READY" /\ UNCHANGED waitVars
          /\ \A q \in Routines : q # r => state'[q] = state[q]
      BY DEF Typed, Acquire, MakeReady
    <2>2. Queued' /\ ready' \in Seq(Routines) /\ state' = [state EXCEPT ![r] = "READY"]
      BY <2>1, MakeReadyKeeps
    <2>3. StacksTyped' /\ Nested' /\ Stacked'
      BY ZenonT(30), <2>2, TypedParts, AcquireKeeps
    <2>4. Typed'
      BY <2>2, <2>3 DEF Typed, StacksTyped, waitVars
    <2>5. Waiting'
      BY <2>1, WaitsSame
    <2> QED
      BY <2>2, <2>3, <2>4, <2>5
  <1> QED
    BY <1>1, <1>2

\* Resume of a routine that waits or is new (coroutine_runtime.cpp 80-120).
LEMMA ResumeKeeps ==
    ASSUME RuntimeInv, NEW r \in Routines, Resume(r)
    PROVE  RuntimeInv'
  <1> USE DEF RuntimeInv, Resume
  <1>1. /\ state[r] \in {"INIT", "WAIT_EVENT", "WAIT_TIMER"} /\ state'[r] = "RUNNING"
        /\ \A q \in Routines : q # r => state'[q] = state[q]
    BY SMTT(30) DEF Typed, Resumes
  <1>2. StacksTyped' /\ Nested' /\ Stacked'
    BY <1>1, TypedParts, ResumesKeeps DEF User
  <1>3. Typed'
    BY <1>2 DEF Typed, StacksTyped
  <1>4. Queued'
    BY SMTT(30), <1>1, QueueSame
  <1>5. Waiting'
    BY <1>1, NullIsNoRoutine DEF Waiting, Typed
  <1> QED
    BY <1>2, <1>3, <1>4, <1>5

\* RunReady (coroutine_scheduler.cpp 173-190).
LEMMA RunReadyKeeps ==
    ASSUME RuntimeInv, RunReady
    PROVE  RuntimeInv'
  <1> USE DEF RuntimeInv, RunReady
  <1>1. /\ Queued' /\ ready' \in Seq(Routines)
        /\ Head(ready) \in Routines /\ state[Head(ready)] = "READY"
    BY DequeueKeeps DEF Resumes
  <1>2. /\ state'[Head(ready)] = "RUNNING" /\ UNCHANGED waitVars
        /\ \A q \in Routines : q # Head(ready) => state'[q] = state[q]
    BY <1>1 DEF Typed, Resumes
  <1>3. StacksTyped' /\ Nested' /\ Stacked'
    BY <1>1, TypedParts, ResumesKeeps DEF User
  <1>4. Typed'
    BY <1>1, <1>3 DEF Typed, StacksTyped, waitVars
  <1>5. Waiting'
    BY <1>1, <1>2, WaitsSame
  <1> QED
    BY <1>1, <1>3, <1>4, <1>5

\* What every suspension keeps.
LEMMA SuspensionKeeps ==
    ASSUME RuntimeInv, Runs, NEW w \in {"WAIT_IO", "WAIT_TIMER", "WAIT_EVENT"}, Suspends(w), UNCHANGED <<ready, poll>>
    PROVE  /\ StacksTyped' /\ Nested' /\ Stacked' /\ Queued'
           /\ Current \in Routines /\ state[Current] = "RUNNING" /\ state'[Current] = w
           /\ \A q \in Routines : q # Current => state'[q] = state[q]
  <1> USE DEF RuntimeInv
  <1>1. /\ StacksTyped' /\ Nested' /\ Stacked'
        /\ Current \in Routines /\ state[Current] = "RUNNING" /\ state' = [state EXCEPT ![Current] = w]
    BY TypedParts, SuspendsKeeps
  <1>2. state'[Current] = w /\ \A q \in Routines : q # Current => state'[q] = state[q]
    BY <1>1 DEF Typed
  <1>3. Queued'
    BY <1>1, <1>2, QueueSame
  <1> QED
    BY <1>1, <1>2, <1>3

\* Yield, YieldUntilFlush (coroutine_runtime.cpp 139-155).
LEMMA YieldKeeps ==
    ASSUME RuntimeInv, Yield \/ YieldUntilFlush
    PROVE  RuntimeInv'
  <1> USE DEF RuntimeInv, Yield, YieldUntilFlush
  <1>1. /\ StacksTyped' /\ Nested' /\ Stacked' /\ Queued'
        /\ Current \in Routines /\ state[Current] = "RUNNING" /\ state'[Current] = "WAIT_EVENT"
        /\ \A q \in Routines : q # Current => state'[q] = state[q]
    BY SuspensionKeeps
  <1>2. Typed'
    BY <1>1 DEF Typed, StacksTyped, waitVars
  <1>3. Waiting'
    BY <1>1, WaitsSame
  <1> QED
    BY <1>1, <1>2, <1>3

\* YieldFor (io_manager.cpp 176-196).
LEMMA YieldForKeeps ==
    ASSUME RuntimeInv, YieldFor
    PROVE  RuntimeInv'
  <1> USE DEF RuntimeInv, YieldFor
  <1>1. /\ StacksTyped' /\ Nested' /\ Stacked' /\ Queued'
        /\ Current \in Routines /\ state[Current] = "RUNNING" /\ state'[Current] = "WAIT_TIMER"
        /\ \A q \in Routines : q # Current => state'[q] = state[q]
    BY SuspensionKeeps
  <1> HIDE DEF RuntimeInv
  <1>2. Typed'
    BY <1>1 DEF Typed, StacksTyped, RuntimeInv
  <1>3. Waiting'
    <2>1. /\ waiter' = waiter /\ io' = io /\ registered' = registered /\ timed' = timed
          /\ sleeping' = sleeping \cup {Current} /\ Waiting /\ Typed
      BY SMTT(30) DEF RuntimeInv
    <2> QED
      BY <1>1, <2>1, NullIsNoRoutine DEF Waiting, Typed
  <1> QED
    BY <1>1, <1>2, <1>3 DEF RuntimeInv

\* Await (io_manager.cpp 143-174, 239-314).
LEMMA AwaitKeeps ==
    ASSUME RuntimeInv, NEW op \in Ops, NEW deadline \in BOOLEAN, Await(op, deadline)
    PROVE  RuntimeInv'
  <1>1. /\ StacksTyped' /\ Nested' /\ Stacked' /\ Queued'
        /\ Current \in Routines /\ state[Current] = "RUNNING" /\ state'[Current] = "WAIT_IO"
        /\ \A q \in Routines : q # Current => state'[q] = state[q]
    BY SuspensionKeeps DEF Await
  <1>2. op[1] \in Fds
    BY OpsArePairs
  <1>3. /\ waiter' \in [Ops -> Routines \cup {Null}] /\ waiter'[op] = Current
        /\ \A o \in Ops : o # op => waiter'[o] = waiter[o]
        /\ waiter[op] = Null
    BY <1>1 DEF Await, Register, RuntimeInv, Typed
  <1>4. /\ io' \in [Routines -> Ops \cup {NoOp}] /\ io'[Current] = op
        /\ \A q \in Routines : q # Current => io'[q] = io[q]
    BY <1>1 DEF Await, Register, RuntimeInv, Typed
  <1>5. /\ registered' \in [Fds -> BOOLEAN] /\ registered'[op[1]]
        /\ \A fd \in Fds : registered[fd] => registered'[fd]
    BY <1>2 DEF Await, Register, RuntimeInv, Typed
  <1>6. timed' \in SUBSET Routines /\ \A q \in Routines : q \in timed' => q \in timed \/ q = Current
    BY <1>1 DEF Await, Register, RuntimeInv, Typed
  <1>7. UNCHANGED <<ready, sleeping, flush, poll>>
    BY SMTT(30) DEF Await
  <1>8. Typed'
    BY <1>1, <1>3, <1>4, <1>5, <1>6, <1>7 DEF Typed, StacksTyped, RuntimeInv
  <1>9. Waiting /\ Typed
    BY DEF RuntimeInv
  <1>10. ASSUME NEW o \in Ops, waiter'[o] # Null
         PROVE  state'[waiter'[o]] = "WAIT_IO" /\ io'[waiter'[o]] = o /\ registered'[o[1]]
    <2>1. CASE o = op
      BY <1>1, <1>3, <1>4, <1>5, <2>1
    <2>2. CASE o # op
      <3>1. /\ waiter'[o] = waiter[o] /\ waiter[o] \in Routines
            /\ state[waiter[o]] = "WAIT_IO" /\ io[waiter[o]] = o /\ registered[o[1]] /\ o[1] \in Fds
        BY SMTT(30), <1>3, <1>9, <1>10, <2>2, OpsArePairs DEF Waiting, Typed
      <3>2. waiter[o] # Current
        BY <1>1, <3>1
      <3> QED
        BY <1>1, <1>4, <1>5, <3>1, <3>2
    <2> QED
      BY <2>1, <2>2
  <1>11. ASSUME NEW q \in Routines
         PROVE  /\ state'[q] = "WAIT_IO" => io'[q] \in Ops /\ waiter'[io'[q]] = q
                /\ io'[q] # NoOp => state'[q] = "WAIT_IO"
                /\ q \in timed' => state'[q] = "WAIT_IO"
                /\ q \in sleeping' <=> state'[q] = "WAIT_TIMER"
    <2>1. /\ state[q] = "WAIT_IO" => io[q] \in Ops /\ waiter[io[q]] = q
          /\ io[q] # NoOp => state[q] = "WAIT_IO"
          /\ q \in timed => state[q] = "WAIT_IO"
          /\ q \in sleeping <=> state[q] = "WAIT_TIMER"
      BY <1>9 DEF Waiting
    <2>2. CASE q = Current
      BY SMTT(30), <1>1, <1>3, <1>4, <1>7, <2>1, <2>2
    <2>3. CASE q # Current
      <3>1. state'[q] = state[q] /\ io'[q] = io[q] /\ (q \in timed' => q \in timed) /\ sleeping' = sleeping
        BY <1>1, <1>4, <1>6, <1>7, <2>3
      <3>2. state[q] = "WAIT_IO" => waiter'[io[q]] = q
        <4>1. waiter[op] # q
          BY <1>3, NullIsNoRoutine
        <4> QED
          BY <1>3, <2>1, <4>1
      <3> QED
        BY <2>1, <3>1, <3>2
    <2> QED
      BY SMTT(30), <2>2, <2>3
  <1>12. Waiting'
    BY <1>10, <1>11 DEF Waiting
  <1> QED
    BY <1>1, <1>8, <1>12 DEF RuntimeInv

\* Finish (coroutine_scheduler.cpp 440-498, coroutine_runtime.cpp 319-330).
LEMMA FinishedKeeps ==
    ASSUME RuntimeInv, Finish
    PROVE  RuntimeInv'
  <1> USE DEF RuntimeInv
  <1>1. /\ StacksTyped' /\ Nested' /\ Stacked'
        /\ Current \in Routines /\ state[Current] = "RUNNING"
    BY TypedParts, FinishKeeps
  <1>2. /\ state'[Current] = "FINISHED" /\ \A q \in Routines : q # Current => state'[q] = state[q]
        /\ UNCHANGED <<ready, waitVars, flush, poll>>
    BY <1>1 DEF Typed, Finish
  <1>3. Typed'
    BY <1>1, <1>2 DEF Typed, StacksTyped, waitVars
  <1>4. Queued' /\ Waiting'
    BY <1>1, <1>2, QueueSame, WaitsSame
  <1> QED
    BY <1>1, <1>3, <1>4

\* Steps that change the place in Poll or the flush queue only.
LEMMA QuietKeeps ==
    ASSUME RuntimeInv, UNCHANGED <<state, ready, calls, live, stackVars, waitVars>>,
           flush' \in SUBSET Routines, poll' \in {"no", "io", "flush", "timers"}, poll' # "no" => calls = <<>>
    PROVE  RuntimeInv'
  <1> USE DEF RuntimeInv
  <1>1. StacksTyped' /\ Nested' /\ Stacked'
    BY TypedParts, WakingKeeps DEF Typed
  <1>2. Typed'
    BY <1>1 DEF Typed, StacksTyped, waitVars
  <1>3. Queued' /\ Waiting'
    BY QueueSame, WaitsSame
  <1> QED
    BY <1>1, <1>2, <1>3

\* A wait for a descriptor ends (io_manager.cpp 338-359).
LEMMA WaitEnds ==
    ASSUME RuntimeInv, NEW r \in Routines, state[r] = "WAIT_IO", CompleteWait(r), poll' = poll,
           registered' \in [Fds -> BOOLEAN],
           \A op \in Ops : waiter'[op] # Null /\ registered[op[1]] => registered'[op[1]]
    PROVE  RuntimeInv'
  <1>1. /\ Queued' /\ Waiting'
        /\ ready' \in Seq(Routines) /\ timed' \in SUBSET Routines
        /\ io' \in [Routines -> Ops \cup {NoOp}] /\ waiter' \in [Ops -> Routines \cup {Null}]
        /\ state' \in [Routines -> States] /\ state' = [state EXCEPT ![r] = "READY"]
    BY SMTT(30), CompleteWaitKeeps DEF RuntimeInv
  <1>2. UNCHANGED <<calls, live, stackVars, sleeping, flush>>
    BY SMTT(30) DEF CompleteWait
  <1>3. state'[r] = "READY" /\ \A q \in Routines : q # r => state'[q] = state[q]
    BY Zenon, <1>1 DEF RuntimeInv, Typed
  <1>4. StacksTyped' /\ Nested' /\ Stacked'
    BY ZenonT(30), <1>1, <1>2, <1>3, TypedParts, WakingKeeps DEF RuntimeInv, Nested
  <1>5. Typed'
    BY Zenon, <1>1, <1>2, <1>4 DEF RuntimeInv, Typed, StacksTyped
  <1> QED
    BY <1>1, <1>4, <1>5 DEF RuntimeInv

\* CancelWait and CompleteTimeout (io_manager.cpp 210-219, 361-369).
LEMMA EarlyEndKeeps ==
    ASSUME RuntimeInv, NEW r \in Routines, CancelWait(r) \/ CompleteTimeout(r)
    PROVE  RuntimeInv'
  <1>1. state[r] = "WAIT_IO" /\ CompleteWait(r) /\ UNCHANGED <<registered, poll>>
    BY DEF CancelWait, CompleteTimeout, RuntimeInv, Waiting
  <1>2. registered' \in [Fds -> BOOLEAN]
    BY <1>1 DEF RuntimeInv, Typed
  <1> QED
    BY <1>1, <1>2, WaitEnds

\* CompleteIo (io_manager.cpp 316-336).
LEMMA CompleteIoKeeps ==
    ASSUME RuntimeInv, NEW op \in Ops, CompleteIo(op)
    PROVE  RuntimeInv'
  <1>1. /\ waiter[op] \in Routines /\ state[waiter[op]] = "WAIT_IO" /\ CompleteWait(waiter[op])
        /\ poll' = poll /\ op[1] \in Fds
    BY OpsArePairs DEF CompleteIo, RuntimeInv, Typed, Waiting
  <1>2. PICK hangup \in BOOLEAN :
            registered' = [registered EXCEPT ![op[1]] =
                              ~(hangup /\ \A d \in {"READ", "WRITE"} : waiter'[<<op[1], d>>] = Null)]
    BY Zenon DEF CompleteIo
  <1> DEFINE kept == ~(hangup /\ \A d \in {"READ", "WRITE"} : waiter'[<<op[1], d>>] = Null)
  <1>3. kept \in BOOLEAN /\ registered' = [registered EXCEPT ![op[1]] = kept]
    BY <1>2
  <1>4. \A d \in {"READ", "WRITE"} : waiter'[<<op[1], d>>] # Null => kept = TRUE
    OBVIOUS
  <1> HIDE DEF kept
  <1>5. /\ registered' \in [Fds -> BOOLEAN] /\ registered'[op[1]] = kept
        /\ \A fd \in Fds : fd # op[1] => registered'[fd] = registered[fd]
    BY <1>1, <1>3 DEF RuntimeInv, Typed
  <1>6. ASSUME NEW o \in Ops, waiter'[o] # Null, registered[o[1]] PROVE registered'[o[1]]
    <2>1. o[1] \in Fds /\ o[2] \in {"READ", "WRITE"} /\ o = <<o[1], o[2]>>
      BY OpsArePairs
    <2>2. CASE o[1] = op[1]
      <3>1. waiter'[<<op[1], o[2]>>] # Null
        BY <1>6, <2>1, <2>2
      <3>2. kept = TRUE
        BY <1>4, <2>1, <3>1
      <3> QED
        BY Zenon, <1>5, <2>2, <3>2
    <2>3. CASE o[1] # op[1]
      BY <1>5, <1>6, <2>1, <2>3
    <2> QED
      BY <2>2, <2>3
  <1> QED
    BY <1>1, <1>5, <1>6, WaitEnds

\* A descriptor without waiters leaves the epoll set.
LEMMA DetachKeeps ==
    ASSUME RuntimeInv, NEW fd \in Fds, Detach(fd)
    PROVE  RuntimeInv'
  <1> USE DEF RuntimeInv
  <1>1. /\ UNCHANGED <<state, ready, calls, live, stackVars, io, waiter, timed, sleeping, flush, poll>>
        /\ registered' = [registered EXCEPT ![fd] = FALSE]
        /\ waiter[<<fd, "READ">>] = Null /\ waiter[<<fd, "WRITE">>] = Null
    BY SMTT(30) DEF Detach
  <1>2. StacksTyped' /\ Nested' /\ Stacked'
    BY <1>1, TypedParts, WakingKeeps DEF Typed, Nested
  <1>3. Typed'
    BY <1>1, <1>2 DEF Typed, StacksTyped
  <1>4. Queued'
    BY <1>1, QueueSame
  <1>5. ASSUME NEW o \in Ops, waiter[o] # Null PROVE registered'[o[1]]
    <2>1. o[1] \in Fds /\ o[2] \in {"READ", "WRITE"} /\ o = <<o[1], o[2]>>
      BY OpsArePairs
    <2>2. o[1] # fd
      BY <1>1, <1>5, <2>1
    <2>3. registered[o[1]]
      BY <1>5 DEF Waiting
    <2> QED
      BY <1>1, <2>1, <2>2, <2>3 DEF Typed
  <1>6. Waiting'
    BY <1>1, <1>5 DEF Waiting
  <1> QED
    BY <1>2, <1>3, <1>4, <1>6

\* The flush wakes who still waits for an event (io_manager.cpp 381-401).
LEMMA FlushKeeps ==
    ASSUME RuntimeInv, NEW r \in Routines, FlushScheduledEvents(r)
    PROVE  RuntimeInv'
  <1>1. CASE state[r] # "WAIT_EVENT"
    BY <1>1, QuietKeeps DEF FlushScheduledEvents, RuntimeInv, Typed, Nested
  <1>2. CASE state[r] = "WAIT_EVENT"
    <2>1. MakeReady(r) /\ UNCHANGED <<calls, live, stackVars, waitVars, poll>> /\ flush' = flush \ {r}
      BY <1>2 DEF FlushScheduledEvents
    <2>2. /\ Queued' /\ ready' \in Seq(Routines)
          /\ state' \in [Routines -> States] /\ state' = [state EXCEPT ![r] = "READY"]
      BY <1>2, <2>1, MakeReadyKeeps DEF RuntimeInv
    <2>3. state'[r] = "READY" /\ \A q \in Routines : q # r => state'[q] = state[q]
      BY <2>2 DEF RuntimeInv, Typed
    <2>4. StacksTyped' /\ Nested' /\ Stacked'
      BY <1>2, <2>1, <2>2, <2>3, TypedParts, WakingKeeps DEF RuntimeInv, Nested
    <2>5. Typed'
      BY Zenon, <2>1, <2>2, <2>4 DEF RuntimeInv, Typed, StacksTyped, waitVars
    <2>6. Waiting'
      BY <1>2, <2>1, <2>3, WaitsSame DEF RuntimeInv
    <2> QED
      BY <2>2, <2>4, <2>5, <2>6 DEF RuntimeInv
  <1> QED
    BY <1>1, <1>2

\* A sleep ends (io_manager.cpp 371-379).
LEMMA CompleteTimerKeeps ==
    ASSUME RuntimeInv, NEW r \in Routines, CompleteTimer(r)
    PROVE  RuntimeInv'
  <1>1. /\ MakeReady(r) /\ sleeping' = sleeping \ {r}
        /\ UNCHANGED <<calls, live, stackVars, io, waiter, registered, timed, flush, poll>>
    BY DEF CompleteTimer
  <1>2. state[r] = "WAIT_TIMER"
    BY Zenon DEF CompleteTimer, RuntimeInv, Waiting
  <1>3. /\ Queued' /\ ready' \in Seq(Routines)
        /\ state' \in [Routines -> States] /\ state' = [state EXCEPT ![r] = "READY"]
    BY <1>1, <1>2, MakeReadyKeeps DEF RuntimeInv
  <1>4. state'[r] = "READY" /\ \A q \in Routines : q # r => state'[q] = state[q]
    BY <1>3 DEF RuntimeInv, Typed
  <1>5. StacksTyped' /\ Nested' /\ Stacked'
    BY <1>1, <1>2, <1>3, <1>4, TypedParts, WakingKeeps DEF RuntimeInv, Nested
  <1>6. Typed'
    BY Zenon, <1>1, <1>3, <1>5 DEF RuntimeInv, Typed, StacksTyped
  <1>7. Waiting'
    <2>1. Waiting /\ Typed
      BY DEF RuntimeInv
    <2> QED
      BY <1>1, <1>2, <1>4, <2>1, NullIsNoRoutine DEF Waiting, Typed
  <1> QED
    BY <1>3, <1>5, <1>6, <1>7 DEF RuntimeInv

Distinct(q) == \A i, j \in DOMAIN q : q[i] = q[j] => i = j
Has(q, r) == \E i \in DOMAIN q : q[i] = r

LEMMA EnqueueKeeps ==
    ASSUME NEW q \in Seq(Routines), NEW x \in Routines \cup {Null}, Distinct(q), x # Null => ~Has(q, x)
    PROVE  /\ Enqueue(q, x) \in Seq(Routines) /\ Distinct(Enqueue(q, x))
           /\ \A r \in Routines : Has(Enqueue(q, x), r) <=> Has(q, r) \/ r = x
  <1>1. CASE x = Null
    BY <1>1, NullIsNoRoutine DEF Enqueue
  <1>2. CASE x # Null
    <2>1. x \in Routines /\ Enqueue(q, x) = Append(q, x)
      BY <1>2 DEF Enqueue
    <2> DEFINE a == Append(q, x)
    <2>2. /\ a \in Seq(Routines) /\ a[Len(q) + 1] = x /\ Len(q) + 1 \in DOMAIN a
          /\ \A i \in DOMAIN q : a[i] = q[i] /\ i \in DOMAIN a
          /\ \A i \in DOMAIN a : i \in DOMAIN q \/ i = Len(q) + 1
      BY <2>1, Appended
    <2>3. Distinct(a)
      BY <1>2, <2>1, QueueGrows DEF Distinct, Has
    <2> HIDE DEF a
    <2>4. \A r \in Routines : Has(a, r) <=> Has(q, r) \/ r = x
      BY <2>2 DEF Has
    <2> QED
      BY <2>1, <2>2, <2>3, <2>4 DEF a
  <1> QED
    BY <1>1, <1>2

\* Both waits of a descriptor are cancelled (io_manager.cpp 489-515).
LEMMA CancelFdKeeps ==
    ASSUME RuntimeInv, NEW fd \in Fds, CancelFd(fd)
    PROVE  RuntimeInv'
  <1> USE NullIsNoRoutine, NoOpIsNoOp
  <1> DEFINE read == waiter[<<fd, "READ">>]
             write == waiter[<<fd, "WRITE">>]
             both == {read, write} \ {Null}
  <1>1. /\ User
        /\ registered' = [registered EXCEPT ![fd] = FALSE]
        /\ waiter' = [waiter EXCEPT ![<<fd, "READ">>] = Null, ![<<fd, "WRITE">>] = Null]
        /\ timed' = timed \ both
        /\ io' = [r \in Routines |-> IF r \in both THEN NoOp ELSE io[r]]
        /\ state' = [r \in Routines |-> IF r \in both THEN "READY" ELSE state[r]]
        /\ ready' = Enqueue(Enqueue(ready, read), write)
        /\ UNCHANGED <<calls, live, stackVars, sleeping, flush, poll>>
    BY Zenon DEF CancelFd
  <1>2. <<fd, "READ">> \in Ops /\ <<fd, "WRITE">> \in Ops /\ <<fd, "READ">> # <<fd, "WRITE">>
    BY DEF Ops
  <1>3. /\ read \in Routines \cup {Null} /\ write \in Routines \cup {Null}
        /\ read # Null => state[read] = "WAIT_IO" /\ io[read] = <<fd, "READ">>
        /\ write # Null => state[write] = "WAIT_IO" /\ io[write] = <<fd, "WRITE">>
    BY Zenon, <1>2 DEF RuntimeInv, Typed, Waiting
  <1>4. read # Null => read # write
    BY <1>2, <1>3
  <1>5. /\ waiter' \in [Ops -> Routines \cup {Null}]
        /\ waiter'[<<fd, "READ">>] = Null /\ waiter'[<<fd, "WRITE">>] = Null
        /\ \A o \in Ops : o # <<fd, "READ">> /\ o # <<fd, "WRITE">> => waiter'[o] = waiter[o]
    BY ZenonT(30), <1>1, <1>2 DEF RuntimeInv, Typed
  <1> HIDE DEF read, write
  <1>6. /\ state' \in [Routines -> States] /\ io' \in [Routines -> Ops \cup {NoOp}]
        /\ registered' \in [Fds -> BOOLEAN] /\ timed' \in SUBSET Routines
    BY <1>1 DEF RuntimeInv, Typed, States
  <1>7. \A q \in both : q \in Routines /\ state[q] = "WAIT_IO"
    BY SMTT(30), <1>3
  <1>8. /\ \A q \in Routines : q \notin both => state'[q] = state[q] /\ io'[q] = io[q]
        /\ \A q \in both : state'[q] = "READY" /\ io'[q] = NoOp
    BY SMTT(30), <1>1, <1>7
  <1>9. StacksTyped' /\ Nested' /\ Stacked'
    <2>1. \A r \in Routines : \/ state'[r] = state[r]
                              \/ state[r] \in {"WAIT_IO", "WAIT_TIMER", "WAIT_EVENT"} /\ state'[r] = "READY"
      BY <1>7, <1>8
    <2>2. poll' # "no" => calls = <<>>
      BY <1>1 DEF User
    <2> QED
      BY Zenon, <1>1, <1>6, <2>1, <2>2, TypedParts, WakingKeeps DEF RuntimeInv
  <1>10. ready' \in Seq(Routines) /\ Queued'
    <2> DEFINE one == Enqueue(ready, read)
    <2>1. /\ ready \in Seq(Routines) /\ Distinct(ready)
          /\ \A r \in Routines : Has(ready, r) <=> state[r] = "READY"
      BY DEF RuntimeInv, Typed, Queued, Distinct, Has
    <2>2. /\ one \in Seq(Routines) /\ Distinct(one)
          /\ \A r \in Routines : Has(one, r) <=> Has(ready, r) \/ r = read
      BY <1>3, <2>1, EnqueueKeeps
    <2> HIDE DEF one
    <2>3. write # Null => ~Has(one, write)
      BY <1>3, <1>4, <2>1, <2>2
    <2>4. ready' = Enqueue(one, write)
      BY <1>1 DEF one
    <2>5. /\ ready' \in Seq(Routines) /\ Distinct(ready')
          /\ \A r \in Routines : Has(ready', r) <=> Has(one, r) \/ r = write
      BY SMTT(30), <1>3, <2>2, <2>3, <2>4, EnqueueKeeps
    <2>6. \A r \in Routines : Has(ready', r) <=> state'[r] = "READY"
      BY <1>3, <1>8, <2>1, <2>2, <2>5
    <2>7. \A i \in DOMAIN ready' : ready'[i] \in Routines /\ Has(ready', ready'[i])
      BY <2>5 DEF Has
    <2> QED
      BY <2>5, <2>6, <2>7 DEF Queued, Distinct, Has
  <1>11. Typed'
    BY Zenon, <1>1, <1>5, <1>6, <1>9, <1>10 DEF RuntimeInv, Typed, StacksTyped
  <1>12. ASSUME NEW o \in Ops, waiter'[o] # Null
         PROVE  state'[waiter'[o]] = "WAIT_IO" /\ io'[waiter'[o]] = o /\ registered'[o[1]]
    <2>1. o[1] \in Fds /\ o[2] \in {"READ", "WRITE"} /\ o = <<o[1], o[2]>>
      BY OpsArePairs
    <2>2. o # <<fd, "READ">> /\ o # <<fd, "WRITE">> /\ o[1] # fd
      BY <1>5, <1>12, <2>1
    <2>3. /\ waiter'[o] = waiter[o] /\ waiter[o] \in Routines
          /\ state[waiter[o]] = "WAIT_IO" /\ io[waiter[o]] = o /\ registered[o[1]]
      BY <1>5, <1>12, <2>2 DEF RuntimeInv, Waiting, Typed
    <2>4. waiter[o] \notin both
      BY <1>3, <2>2, <2>3
    <2>5. registered'[o[1]]
      BY <1>1, <2>1, <2>2, <2>3 DEF RuntimeInv, Typed
    <2> QED
      BY ZenonT(30), <1>8, <2>3, <2>4, <2>5
  <1>13. ASSUME NEW q \in Routines
         PROVE  /\ state'[q] = "WAIT_IO" => io'[q] \in Ops /\ waiter'[io'[q]] = q
                /\ io'[q] # NoOp => state'[q] = "WAIT_IO"
                /\ q \in timed' => state'[q] = "WAIT_IO"
                /\ q \in sleeping' <=> state'[q] = "WAIT_TIMER"
    <2>1. CASE q \in both
      BY Zenon, <1>1, <1>7, <1>8, <2>1 DEF RuntimeInv, Waiting
    <2>2. CASE q \notin both
      <3>1. state'[q] = state[q] /\ io'[q] = io[q] /\ sleeping' = sleeping
        BY SMTT(30), <1>1, <1>8, <2>2
      <3>2. /\ state[q] = "WAIT_IO" => io[q] \in Ops /\ waiter[io[q]] = q
            /\ io[q] # NoOp => state[q] = "WAIT_IO"
            /\ q \in timed => state[q] = "WAIT_IO"
            /\ q \in sleeping <=> state[q] = "WAIT_TIMER"
        BY DEF RuntimeInv, Waiting
      <3>3. state[q] = "WAIT_IO" => io[q] # <<fd, "READ">> /\ io[q] # <<fd, "WRITE">>
        BY <2>2, <3>2 DEF read, write
      <3> QED
        BY ZenonT(30), <1>1, <1>5, <3>1, <3>2, <3>3
    <2> QED
      BY Zenon, <2>1, <2>2
  <1>14. Waiting'
    BY <1>12, <1>13 DEF Waiting
  <1> QED
    BY <1>9, <1>10, <1>11, <1>14 DEF RuntimeInv
-----------------------------------------------------------------------------
LEMMA NextKeeps == RuntimeInv /\ [Next]_vars => RuntimeInv'
  <1> SUFFICES ASSUME RuntimeInv, [Next]_vars PROVE RuntimeInv'
    OBVIOUS
  <1>1. CASE RunReady \/ Yield \/ Finish \/ YieldFor \/ YieldUntilFlush
    BY SMTT(30), <1>1, RunReadyKeeps, YieldKeeps, FinishedKeeps, YieldForKeeps
  <1>2. CASE StartPoll \/ FlushOrNot \/ Flushed \/ EndPoll
    BY <1>2, QuietKeeps DEF StartPoll, FlushOrNot, Flushed, EndPoll, RuntimeInv, Typed, Nested
  <1>3. ASSUME NEW op \in Ops, CompleteIo(op) \/ \E deadline \in BOOLEAN : Await(op, deadline)
        PROVE  RuntimeInv'
    BY <1>3, CompleteIoKeeps, AwaitKeeps
  <1>4. ASSUME NEW fd \in Fds, CancelFd(fd) \/ Detach(fd) PROVE RuntimeInv'
    BY <1>4, CancelFdKeeps, DetachKeeps
  <1>5. ASSUME NEW r \in Routines, OfRoutine(r) PROVE RuntimeInv'
    <2>1. CASE ScheduleAtFlush(r)
      BY <2>1, QuietKeeps DEF ScheduleAtFlush, RuntimeInv, Typed, User
    <2> QED
      BY SMTT(30), <1>5, <2>1, CreateKeeps, ResumeKeeps, EarlyEndKeeps, FlushKeeps, CompleteTimerKeeps DEF OfRoutine
  <1>6. CASE UNCHANGED vars
    BY Zenon, <1>6, QuietKeeps DEF vars, RuntimeInv, Typed, Nested
  <1> QED
    BY <1>1, <1>2, <1>3, <1>4, <1>5, <1>6 DEF Next, OfFd

\* The invariant holds for any number of routines, stacks and descriptors.
LEMMA Invariance == Spec => []RuntimeInv
  BY InitKeeps, NextKeeps, PTL DEF Spec

\* However routines resume one another and share stacks, the one that runs finds its
\* own frames (PrepareSharedStack, SaveSharedStack).
THEOREM StacksStayIntact == Spec => []StacksIntact
  <1>1. RuntimeInv => StacksIntact
    <2> SUFFICES ASSUME RuntimeInv, calls # <<>> PROVE memory[stackOf[Current]] = Current
      BY DEF StacksIntact
    <2>1. Current \in Routines /\ Current = calls[1] /\ 1 \in DOMAIN calls
      BY CallsNonEmpty DEF RuntimeInv, Typed, Current
    <2>2. state[Current] = "RUNNING"
      BY <2>1 DEF RuntimeInv, Nested
    <2> QED
      BY ZenonT(30), <2>1, <2>2 DEF RuntimeInv, Stacked
  <1> QED
    BY <1>1, Invariance, PTL

\* An event, a timeout, a cancellation and a flush make a routine ready once.
THEOREM RoutinesAreReadyOnce == Spec => []ReadyOnce
  <1>1. RuntimeInv => ReadyOnce
    <2> SUFFICES ASSUME RuntimeInv PROVE ReadyOnce
      OBVIOUS
    <2>1. ASSUME NEW i \in DOMAIN ready
          PROVE  /\ state[ready[i]] = "READY" /\ io[ready[i]] = NoOp
                 /\ ready[i] \notin timed \cup sleeping
                 /\ \A op \in Ops : waiter[op] # ready[i]
      <3>1. ready[i] \in Routines /\ state[ready[i]] = "READY"
        BY DEF RuntimeInv, Typed, Queued
      <3> QED
        BY <3>1, NullIsNoRoutine DEF RuntimeInv, Waiting
    <2> QED
      BY <2>1 DEF ReadyOnce, RuntimeInv, Queued
  <1> QED
    BY <1>1, Invariance, PTL

\* A routine that waits for a descriptor or a timer is where Poll finds it, and a ready one
\* is in the queue.
THEOREM WaitsStayBacked == Spec => []WaitsAreBacked
  <1>1. RuntimeInv => WaitsAreBacked
    <2> SUFFICES ASSUME RuntimeInv, NEW r \in Routines
                 PROVE  /\ state[r] = "WAIT_IO" => io[r] \in Ops /\ waiter[io[r]] = r /\ registered[io[r][1]]
                        /\ state[r] = "WAIT_TIMER" => r \in sleeping
                        /\ state[r] = "READY" => \E i \in DOMAIN ready : ready[i] = r
      BY DEF WaitsAreBacked
    <2> QED
      BY NullIsNoRoutine DEF RuntimeInv, Waiting, Queued
  <1> QED
    BY <1>1, Invariance, PTL

\* The checks that end the process never fire.
THEOREM RuntimeNeverTerminates == Spec => []NeverTerminates
  <1>1. RuntimeInv => NeverTerminates
    <2> SUFFICES ASSUME RuntimeInv PROVE NeverTerminates
      OBVIOUS
    <2>1. ASSUME NEW r \in Routines, state[r] \in {"RUNNING", "FINISHED"}
          PROVE  /\ \A i \in DOMAIN ready : ready[i] # r
                 /\ io[r] = NoOp /\ r \notin timed \cup sleeping
                 /\ \A op \in Ops : waiter[op] # r
      BY <2>1, NullIsNoRoutine DEF RuntimeInv, Queued, Waiting
    <2> QED
      BY <2>1 DEF NeverTerminates
  <1> QED
    BY <1>1, Invariance, PTL
==============================================================================
