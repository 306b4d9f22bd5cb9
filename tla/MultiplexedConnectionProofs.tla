-------------------- MODULE MultiplexedConnectionProofs --------------------
(***************************************************************************)
(* The connection implements CallContract, for any callers and any limits. *)
(* What the steps of a caller do to its call depends on where the caller   *)
(* is, and a call may fail only once the connection is being left, which   *)
(* is so wherever somebody is about to complete all calls: that is         *)
(* CallInv.                                                                *)
(***************************************************************************)
EXTENDS MultiplexedConnection, TLAPS

Shut == state \in {"DISCONNECTED", "CONNECTING"}
Left == state \in {"CLOSING", "CLOSED"}
States == {"DISCONNECTED", "CONNECTING", "READY", "CLOSING", "CLOSED"}

\* What the entries of a program are.
Steps == {"connect", "startReader", "startWriter", "leave", "idle", "setClosed",
          "wakeWriter", "maybeFinishDrain", "completeAll", "completeAllBad", "resume",
          "read", "decode", "loop", "write", "failClosed", "failProtocol", "exit",
          "call", "yield", "resumed", "return"}

\* What a caller has still to do: outside a call, waiting in it, with its call decided.
Outside == {<<>>, <<"call">>}
Waiting == {<<"wakeWriter", "yield">>, <<"yield">>, <<"resumed">>}
Returning == {<<"wakeWriter", "maybeFinishDrain", "return">>, <<"maybeFinishDrain", "return">>,
              <<"wakeWriter", "return">>, <<"return">>}

\* Program p comes to CompleteAllPending.
Completes(p) == \E k \in DOMAIN p : p[k] \in {"completeAll", "completeAllBad"}

CallsTyped ==
    /\ state \in States
    /\ nextId \in Nat \ {0}
    /\ pending \subseteq Ids /\ \A i \in pending : i < nextId
    /\ owner \in [Ids -> Callers \cup {Owner}] /\ \A i \in pending : owner[i] \in Callers
    /\ status \in [Ids -> Statuses]
    /\ \A i \in Ids \ pending : status[i] = "none"
    /\ program \in [Actors -> Seq(Steps)]

\* A caller is in a call exactly if it has one pending, and only one.
CallersPlaced ==
    /\ \A c \in Callers : program[c] \in Outside \cup Waiting \cup Returning
    /\ \A c \in Callers : program[c] \notin Outside <=> \E i \in pending : owner[i] = c
    /\ \A i, j \in pending : owner[i] = owner[j] => i = j
    /\ \A i \in pending : program[owner[i]] \in Returning => status[i] # "none"

\* Before the connection is made nothing runs; calls are failed only when it is left.
StagesKept ==
    /\ Shut => /\ stack = <<>> /\ ready = <<>> /\ turn = 0
               /\ \A r \in Routines : rstate[r] = "INIT"
               /\ program[Owner] = <<"connect">>
    /\ \A a \in Actors : Completes(program[a]) => Left

CallInv == CallsTyped /\ CallersPlaced /\ StagesKept
-----------------------------------------------------------------------------
USE DEF Shut, Left, States, Statuses

\* The initial state.
LEMMA InitCallInv == Init => CallInv
  <1> SUFFICES ASSUME Init PROVE CallInv
    OBVIOUS
  <1>1. \A a \in Actors : program[a] \in {<<"connect">>, <<"read">>, <<"loop">>, <<"call">>}
    BY DEF Init
  <1>2. program[Owner] = <<"connect">> /\ \A c \in Callers : program[c] = <<"call">>
    BY ActorsDistinct DEF Init, Actors, Routines, Fibers
  <1>3. CallsTyped
    <2>1. program \in [Actors -> Seq(Steps)]
      <3>1. program = [a \in Actors |-> program[a]]
        BY DEF Init
      <3>2. /\ <<"connect">> \in Seq(Steps) /\ <<"read">> \in Seq(Steps)
            /\ <<"loop">> \in Seq(Steps) /\ <<"call">> \in Seq(Steps)
        BY DEF Steps
      <3>3. ASSUME NEW a \in Actors PROVE program[a] \in Seq(Steps)
        BY <1>1, <3>2
      <3> QED
        BY <3>1, <3>3
    <2> QED
      BY <2>1 DEF Init, CallsTyped
  <1>4. CallersPlaced
    BY <1>2 DEF Init, CallersPlaced, Outside, Waiting, Returning
  <1>5. StagesKept
    BY <1>1, <1>2 DEF Init, StagesKept, Completes
  <1> QED
    BY <1>3, <1>4, <1>5 DEF CallInv

\* Taking the first step off a program, and putting others in front of it, brings
\* CompleteAllPending in only if they are it.
LEMMA CompletesTail ==
  ASSUME NEW p \in Seq(Steps), p # <<>>, Completes(Tail(p))
  PROVE  Completes(p)
  BY DEF Completes

LEMMA CompletesConcat ==
  ASSUME NEW p \in Seq(Steps), NEW q \in Seq(Steps), Completes(p \o q)
  PROVE  Completes(p) \/ Completes(q)
  <1>1. PICK k \in DOMAIN (p \o q) : (p \o q)[k] \in {"completeAll", "completeAllBad"}
    BY DEF Completes
  <1>2. CASE k <= Len(p)
    BY <1>1, <1>2 DEF Completes
  <1>3. CASE k > Len(p)
    <2>1. k - Len(p) \in DOMAIN q /\ q[k - Len(p)] = (p \o q)[k]
      BY <1>1, <1>3
    <2> QED
      BY <2>1, <1>1 DEF Completes
  <1> QED
    BY <1>1, <1>2, <1>3

\* A caller's program consists of steps, none of which is CompleteAllPending.
LEMMA CallerPrograms ==
  /\ \A p \in Outside \cup Waiting \cup Returning : p \in Seq(Steps) /\ ~Completes(p)
  /\ Outside \cap Waiting = {} /\ Outside \cap Returning = {} /\ Waiting \cap Returning = {}
  <1>1. ASSUME NEW p \in Outside PROVE p \in Seq(Steps) /\ ~Completes(p)
    <2>1. CASE p = <<>>
      BY <2>1 DEF Completes
    <2>2. CASE p = <<"call">>
      BY <2>2 DEF Completes, Steps
    <2> QED
      BY <2>1, <2>2 DEF Outside
  <1>2. ASSUME NEW p \in Waiting PROVE p \in Seq(Steps) /\ ~Completes(p)
    <2>1. CASE p = <<"wakeWriter", "yield">>
      BY <2>1 DEF Completes, Steps
    <2>2. CASE p = <<"yield">>
      BY <2>2 DEF Completes, Steps
    <2>3. CASE p = <<"resumed">>
      BY <2>3 DEF Completes, Steps
    <2> QED
      BY <2>1, <2>2, <2>3 DEF Waiting
  <1>3. ASSUME NEW p \in Returning PROVE p \in Seq(Steps) /\ ~Completes(p)
    <2>1. CASE p = <<"wakeWriter", "maybeFinishDrain", "return">>
      BY <2>1 DEF Completes, Steps
    <2>2. CASE p = <<"maybeFinishDrain", "return">>
      BY <2>2 DEF Completes, Steps
    <2>3. CASE p = <<"wakeWriter", "return">>
      BY <2>3 DEF Completes, Steps
    <2>4. CASE p = <<"return">>
      BY <2>4 DEF Completes, Steps
    <2> QED
      BY <2>1, <2>2, <2>3, <2>4 DEF Returning
  <1>4. Outside \cap Waiting = {} /\ Outside \cap Returning = {}
    BY DEF Outside, Waiting, Returning
  <1>5. Waiting \cap Returning = {}
    BY DEF Waiting, Returning
  <1> QED
    BY <1>1, <1>2, <1>3, <1>4, <1>5
-----------------------------------------------------------------------------
(* How CallInv is kept, by who moves.                                      *)

\* What every step does to the state and to the calls that stay.
Steady ==
    /\ state' \in States /\ ~Shut' /\ (Left => Left')
    /\ UNCHANGED <<nextId, pending, owner>>
    /\ status' \in [Ids -> Statuses]
    /\ \A i \in Ids : status[i] # "none" => status'[i] # "none"
    /\ \A i \in Ids \ pending : status'[i] = "none"

\* A step of the owner or of a fiber.
LEMMA OthersMove ==
  ASSUME CallInv, ~Shut, Steady,
         NEW a \in Actors \ Callers, NEW p \in Seq(Steps), Then(a, p),
         Completes(p) => Left'
  PROVE  CallInv'
  <1>1. CallsTyped'
    BY DEF CallInv, CallsTyped, Steady, Then
  <1>2. \A b \in Actors : program'[b] = IF b = a THEN p ELSE program[b]
    BY DEF CallInv, CallsTyped, Then
  <1>3. Callers \subseteq Actors
    BY DEF Actors, Routines
  <1>4. CallersPlaced'
    <2>1. \A c \in Callers : program'[c] = program[c]
      BY <1>2, <1>3
    <2>2. \A i \in pending : program'[owner[i]] = program[owner[i]]
      BY <2>1 DEF CallInv, CallsTyped
    <2>3. \A i \in pending : program'[owner[i]] \in Returning => status'[i] # "none"
      BY <2>2 DEF CallInv, CallsTyped, CallersPlaced, Steady
    <2> QED
      BY <2>1, <2>3 DEF CallInv, CallersPlaced, Steady
  <1>5. StagesKept'
    BY <1>2 DEF CallInv, StagesKept, Steady
  <1> QED
    BY <1>1, <1>4, <1>5 DEF CallInv

\* A step of a caller within its call.
LEMMA CallersMove ==
  ASSUME CallInv, ~Shut, Steady,
         NEW c \in Callers, NEW p \in Waiting \cup Returning, Then(c, p),
         program[c] \notin Outside,
         p \in Returning => \A i \in pending : owner[i] = c => status'[i] # "none"
  PROVE  CallInv'
  <1>1. p \in Seq(Steps) /\ ~Completes(p) /\ p \notin Outside
    BY CallerPrograms
  <1>2. CallsTyped'
    BY <1>1 DEF CallInv, CallsTyped, Steady, Then
  <1>3. c \in Actors
    BY DEF Actors, Routines
  <1>4. \A b \in Actors : program'[b] = IF b = c THEN p ELSE program[b]
    BY <1>3 DEF CallInv, CallsTyped, Then
  <1>5. CallersPlaced'
    <2>1. \A b \in Callers : program'[b] = IF b = c THEN p ELSE program[b]
      BY <1>4 DEF Actors, Routines
    <2>2. \A b \in Callers : program'[b] \in Outside \cup Waiting \cup Returning
      BY <2>1 DEF CallInv, CallersPlaced
    <2>3. \A b \in Callers : program'[b] \notin Outside <=> \E i \in pending' : owner'[i] = b
      BY <1>1, <2>1 DEF CallInv, CallersPlaced, Steady
    <2>4. \A i \in pending' : program'[owner'[i]] \in Returning => status'[i] # "none"
      BY <2>1 DEF CallInv, CallsTyped, CallersPlaced, Steady
    <2> QED
      BY <2>2, <2>3, <2>4 DEF CallInv, CallersPlaced, Steady
  <1>6. StagesKept'
    BY <1>1, <1>4 DEF CallInv, StagesKept, Steady
  <1> QED
    BY <1>2, <1>5, <1>6 DEF CallInv
-----------------------------------------------------------------------------
(* What a step is in the contract.                                         *)

ContractStep == [Contract!ContractNext]_(Contract!contractVars)

\* Neither the connection nor a call changes as its users see it.
LEMMA StepStutters ==
  ASSUME UNCHANGED <<state, nextId, pending, status>>
  PROVE  ContractStep
  <1>1. Gate' = Gate
    BY DEF Gate
  <1>2. \A i \in Ids : Life(i)' = Life(i)
    BY DEF Life
  <1> QED
    BY <1>1, <1>2 DEF ContractStep, Contract!contractVars, Ids

\* The connection goes on to another state.
LEMMA StepMoves ==
  ASSUME CallInv, UNCHANGED <<nextId, pending, status>>, state' \in States,
         state' # state => \/ Shut
                           \/ state = "READY" /\ Left'
                           \/ state = "CLOSING" /\ state' = "CLOSED",
         Shut => Shut' \/ state' = "READY"
  PROVE  ContractStep
  <1>1. \A i \in Ids : Life(i)' = Life(i)
    BY DEF Life
  <1>2. UNCHANGED [i \in Ids |-> Life(i)]
    BY <1>1 DEF Ids
  <1>3. Gate' = Gate \/ <<Gate, Gate'>> \in {<<"shut", "open">>, <<"open", "leaving">>,
                                            <<"open", "closed">>, <<"leaving", "closed">>}
    BY DEF Gate, CallInv, CallsTyped
  <1> QED
    BY <1>2, <1>3 DEF ContractStep, Contract!contractVars, Contract!ContractNext, Contract!Move

\* A waiting call is decided: it may fail only where the connection is being left.
LEMMA StepDecides ==
  ASSUME CallInv, NEW i \in Unfinished, NEW s, status' = [status EXCEPT ![i] = s],
         UNCHANGED <<state, nextId, pending>>,
         \/ s \in {"OK", "TIMEOUT"} /\ ~Shut
         \/ s \in {"CONNECTION_CLOSED", "PROTOCOL_ERROR"} /\ Left
  PROVE  ContractStep
  <1> DEFINE life == [j \in Ids |-> Life(j)]
  <1>1. i \in Ids /\ i \in pending /\ status[i] = "none"
    BY DEF CallInv, CallsTyped, Unfinished
  <1>2. Life(i) = "waiting" /\ Life(i)' = s
    BY <1>1 DEF Life, CallInv, CallsTyped
  <1>3. \A j \in Ids \ {i} : Life(j)' = Life(j)
    BY <1>1 DEF Life, CallInv, CallsTyped
  <1>4. life' = [life EXCEPT ![i] = s] /\ life[i] = "waiting"
    BY <1>1, <1>2, <1>3 DEF Ids
  <1>5. Gate' = Gate
    BY DEF Gate
  <1>6. Contract!Goes(i, "waiting", s)
    BY <1>4, <1>5 DEF Contract!Goes
  <1>7. Contract!Decide(i) \/ Contract!Fail(i)
    BY <1>6 DEF Contract!Decide, Contract!Fail, Contract!Failed, Gate
  <1> QED
    BY <1>1, <1>7 DEF ContractStep, Contract!ContractNext
-----------------------------------------------------------------------------
(* The callers.                                                            *)

\* Somebody runs only on a connection that was made.
LEMMA RunsAfterConnect ==
  ASSUME CallInv, NEW a \in Actors, NEW s, At(a, s)
  PROVE  /\ ~Shut /\ program[a] \in Seq(Steps) /\ program[a] # <<>>
         /\ Head(program[a]) = s /\ 1 \in DOMAIN program[a] /\ program[a][1] = s
         /\ Rest(a) \in Seq(Steps) /\ (Completes(Rest(a)) => Left)
  <1>1. ~Shut /\ program[a] \in Seq(Steps) /\ program[a] # <<>> /\ Head(program[a]) = s
    BY DEF At, Running, CallInv, StagesKept, CallsTyped
  <1>2. 1 \in DOMAIN program[a] /\ program[a][1] = s /\ Rest(a) \in Seq(Steps)
    BY <1>1 DEF Rest
  <1>3. Completes(Rest(a)) => Left
    BY <1>1, CompletesTail DEF Rest, CallInv, StagesKept
  <1> QED
    BY <1>1, <1>2, <1>3

\* The step a caller is at tells where in its call it is.
LEMMA CallerAt ==
  ASSUME CallInv, NEW c \in Callers, NEW s, At(c, s)
  PROVE  /\ c \in Actors /\ ~Shut
         /\ s \in {"call", "yield", "resumed", "return", "wakeWriter", "maybeFinishDrain"}
         /\ s \in {"call", "yield", "resumed", "return"} => program[c] = <<s>>
         /\ s = "maybeFinishDrain" => program[c] = <<"maybeFinishDrain", "return">>
         /\ s = "wakeWriter" => program[c] \in {<<"wakeWriter", "yield">>,
                <<"wakeWriter", "maybeFinishDrain", "return">>, <<"wakeWriter", "return">>}
  <1>1. c \in Actors
    BY DEF Actors, Routines
  <1>2. ~Shut /\ program[c] # <<>> /\ program[c][1] = s
    BY <1>1, RunsAfterConnect
  <1>3. program[c] \in Outside \cup Waiting \cup Returning
    BY DEF CallInv, CallersPlaced
  <1>4. CASE program[c] \in Outside
    BY <1>1, <1>2, <1>4 DEF Outside
  <1>5. CASE program[c] \in Waiting
    BY <1>1, <1>2, <1>5 DEF Waiting
  <1>6. CASE program[c] \in Returning
    BY <1>1, <1>2, <1>6 DEF Returning
  <1> QED
    BY <1>3, <1>4, <1>5, <1>6

\* The pending call of a caller that is in one.
LEMMA CallOfCaller ==
  ASSUME CallInv, NEW c \in Callers, program[c] \notin Outside
  PROVE  /\ CallOf(c) \in pending /\ CallOf(c) \in Ids /\ owner[CallOf(c)] = c
         /\ \A i \in pending : owner[i] = c => i = CallOf(c)
  <1>1. \E i \in pending : owner[i] = c
    BY DEF CallInv, CallersPlaced
  <1>2. CallOf(c) \in pending /\ owner[CallOf(c)] = c
    BY <1>1 DEF CallOf
  <1> QED
    BY <1>2 DEF CallInv, CallersPlaced, CallsTyped

\* A caller that is turned away, with or without an id spent on it.
LEMMA CallTurnedAway ==
  ASSUME CallInv, NEW c \in Callers, CallRejected(c) \/ CallNotQueued(c)
  PROVE  CallInv' /\ ContractStep
  <1>1. c \in Actors /\ ~Shut /\ program[c] = <<"call">>
    BY CallerAt DEF CallRejected, CallNotQueued
  <1>2. /\ Then(c, <<>>) /\ UNCHANGED <<state, pending, owner, status>>
        /\ nextId' = nextId \/ (nextId \in Ids /\ nextId' = nextId + 1)
    BY DEF CallRejected, CallNotQueued, callVars
  <1>3. program[c] \in Outside /\ <<>> \in Outside
    BY <1>1 DEF Outside
  <1>4. nextId \in Nat /\ nextId' \in Nat \ {0} /\ nextId <= nextId'
    BY <1>2 DEF CallInv, CallsTyped
  <1>5. CallsTyped'
    <2>1. program' \in [Actors -> Seq(Steps)]
      BY <1>1, <1>2, <1>3, CallerPrograms DEF Then, CallInv, CallsTyped
    <2>2. \A i \in pending : i < nextId'
      BY <1>4 DEF CallInv, CallsTyped, Ids
    <2> QED
      BY <1>2, <1>4, <2>1, <2>2 DEF CallInv, CallsTyped
  <1>6. \A b \in Actors : program'[b] = IF b = c THEN <<>> ELSE program[b]
    BY <1>1, <1>2 DEF Then, CallInv, CallsTyped
  <1>7. CallersPlaced'
    <2>1. \A b \in Callers : program'[b] = IF b = c THEN <<>> ELSE program[b]
      BY <1>6 DEF Actors, Routines
    <2>2. \A i \in pending : owner[i] # c
      BY <1>3 DEF CallInv, CallersPlaced
    <2> QED
      BY <1>2, <1>3, <2>1, <2>2 DEF CallInv, CallsTyped, CallersPlaced
  <1>8. StagesKept'
    BY <1>1, <1>2, <1>3, <1>6, CallerPrograms DEF CallInv, StagesKept
  <1>9. ContractStep
    <2>1. CASE nextId' = nextId
      BY <1>2, <2>1, StepStutters
    <2>2. CASE CallNotQueued(c) /\ nextId' # nextId
      <3> DEFINE life == [j \in Ids |-> Life(j)]
      <3>1. nextId \in Ids /\ nextId' = nextId + 1 /\ state = "READY" /\ nextId \notin pending
        BY <2>2, <1>2 DEF CallNotQueued, CallInv, CallsTyped, Ids
      <3>2. Life(nextId) = "new" /\ nextId \notin pending' /\ nextId < nextId'
        BY <3>1, <1>2, <1>4 DEF Life
      <3>3. \A j \in Ids \ {nextId} : Life(j)' = Life(j)
        BY <3>1, <1>2, <1>4 DEF Life, Ids
      <3>4. life' = [life EXCEPT ![nextId] = "gone"] /\ life[nextId] = "new"
        BY <3>1, <3>2, <3>3 DEF Ids, Life
      <3>5. Gate = "open" /\ Gate' = Gate
        BY <3>1, <1>2 DEF Gate
      <3>6. Contract!Refuse(nextId)
        BY <3>4, <3>5 DEF Contract!Refuse, Contract!Goes
      <3> QED
        BY <3>1, <3>6 DEF ContractStep, Contract!ContractNext
    <2> QED
      BY <1>2, <2>1, <2>2 DEF CallRejected, callVars
  <1> QED
    BY <1>5, <1>7, <1>8, <1>9 DEF CallInv

\* A caller whose call is taken.
LEMMA CallTaken ==
  ASSUME CallInv, NEW c \in Callers, CallQueued(c)
  PROVE  CallInv' /\ ContractStep
  <1> DEFINE p == <<"wakeWriter", "yield">>
             life == [j \in Ids |-> Life(j)]
  <1>1. c \in Actors /\ ~Shut /\ program[c] = <<"call">>
    BY CallerAt DEF CallQueued
  <1>2. /\ Then(c, p) /\ UNCHANGED <<state, status>> /\ state = "READY"
        /\ nextId \in Ids /\ nextId' = nextId + 1
        /\ pending' = pending \cup {nextId} /\ owner' = [owner EXCEPT ![nextId] = c]
    BY DEF CallQueued
  <1>3. program[c] \in Outside /\ p \in Waiting
    BY <1>1 DEF Outside, Waiting
  <1>4. nextId \in Nat \ {0} /\ nextId \notin pending /\ \A i \in pending : i < nextId + 1 /\ i # nextId
    BY <1>2 DEF CallInv, CallsTyped, Ids
  <1> HIDE DEF p
  <1>5. CallsTyped'
    <2>1. program' \in [Actors -> Seq(Steps)]
      BY <1>1, <1>2, <1>3, CallerPrograms DEF Then, CallInv, CallsTyped
    <2>2. pending' \subseteq Ids /\ nextId' \in Nat \ {0} /\ \A i \in pending' : i < nextId'
      BY <1>2, <1>4 DEF CallInv, CallsTyped, Ids
    <2>3. owner' \in [Ids -> Callers \cup {Owner}] /\ \A i \in pending' : owner'[i] \in Callers
      BY <1>2, <1>4 DEF CallInv, CallsTyped
    <2> QED
      BY <1>2, <2>1, <2>2, <2>3 DEF CallInv, CallsTyped
  <1>6. \A b \in Actors : program'[b] = IF b = c THEN p ELSE program[b]
    BY <1>1, <1>2 DEF Then, CallInv, CallsTyped
  <1>7. CallersPlaced'
    <2>1. \A b \in Callers : program'[b] = IF b = c THEN p ELSE program[b]
      BY <1>6 DEF Actors, Routines
    <2>2. \A i \in pending : owner[i] # c
      BY <1>3 DEF CallInv, CallersPlaced
    <2>3. owner'[nextId] = c /\ \A i \in pending : owner'[i] = owner[i]
      BY <1>2, <1>4 DEF CallInv, CallsTyped
    <2>4. \A b \in Callers : program'[b] \in Outside \cup Waiting \cup Returning
      BY <2>1, <1>3 DEF CallInv, CallersPlaced
    <2>5. \A b \in Callers : program'[b] \notin Outside <=> \E i \in pending' : owner'[i] = b
      BY <1>2, <1>3, <2>1, <2>2, <2>3, CallerPrograms DEF CallInv, CallersPlaced
    <2>6. \A i, j \in pending' : owner'[i] = owner'[j] => i = j
      BY <1>2, <2>2, <2>3 DEF CallInv, CallersPlaced
    <2>7. \A i \in pending' : program'[owner'[i]] \in Returning => status'[i] # "none"
      <3>1. p \notin Returning
        BY <1>3, CallerPrograms
      <3>2. \A i \in pending : program'[owner'[i]] = program[owner[i]]
        BY <2>1, <2>2, <2>3 DEF CallInv, CallsTyped
      <3> QED
        BY <1>2, <2>1, <2>3, <3>1, <3>2 DEF CallInv, CallersPlaced
    <2> QED
      BY <2>4, <2>5, <2>6, <2>7 DEF CallersPlaced
  <1>8. StagesKept'
    BY <1>1, <1>2, <1>3, <1>6, CallerPrograms DEF CallInv, StagesKept
  <1>9. ContractStep
    <2>1. Life(nextId) = "new"
      BY <1>4 DEF Life
    <2>2. \A j \in Ids : Life(j)' = IF j = nextId THEN "waiting" ELSE Life(j)
      BY <1>2, <1>4 DEF Life, CallInv, CallsTyped, Ids
    <2>3. life' = [life EXCEPT ![nextId] = "waiting"] /\ life[nextId] = "new"
      BY <1>2, <2>1, <2>2
    <2>4. Gate = "open" /\ Gate' = Gate
      BY <1>2 DEF Gate
    <2>5. Contract!Accept(nextId)
      BY <2>3, <2>4 DEF Contract!Accept, Contract!Goes
    <2> QED
      BY <1>2, <2>5 DEF ContractStep, Contract!ContractNext
  <1> QED
    BY <1>5, <1>7, <1>8, <1>9 DEF CallInv

\* A caller that waits, and one that is resumed by its timer or by a completion.
LEMMA CallWaitsOn ==
  ASSUME CallInv, NEW c \in Callers, CallWaits(c)
  PROVE  CallInv' /\ ContractStep
  <1>1. ~Shut /\ program[c] = <<"yield">>
    BY CallerAt DEF CallWaits
  <1>2. Then(c, <<"resumed">>) /\ UNCHANGED <<state, nextId, pending, owner, status>>
    BY DEF CallWaits, callVars
  <1>3. program[c] \in Waiting /\ <<"resumed">> \in Waiting
    BY <1>1 DEF Waiting
  <1>4. program[c] \notin Outside /\ <<"resumed">> \notin Returning
    BY <1>3, CallerPrograms
  <1>5. Steady
    BY <1>1, <1>2 DEF Steady, CallInv, CallsTyped
  <1>6. CallInv'
    BY <1>1, <1>2, <1>3, <1>4, <1>5, CallersMove
  <1> QED
    BY <1>2, <1>6, StepStutters

LEMMA CallIsResumed ==
  ASSUME CallInv, NEW c \in Callers, CallResumed(c)
  PROVE  CallInv' /\ ContractStep
  <1> DEFINE i == CallOf(c)
  <1>1. ~Shut /\ program[c] = <<"resumed">>
    BY CallerAt DEF CallResumed
  <1>2. program[c] \notin Outside
    BY <1>1, CallerPrograms DEF Waiting
  <1>3. i \in pending /\ i \in Ids /\ \A j \in pending : owner[j] = c => j = i
    BY <1>2, CallOfCaller
  <1> HIDE DEF i
  <1>4. UNCHANGED <<state, nextId, pending, owner>>
    BY DEF CallResumed
  <1>5. CASE status[i] # "none" /\ Then(c, <<"return">>) /\ UNCHANGED status
    <2>1. Steady
      BY <1>1, <1>4, <1>5 DEF Steady, CallInv, CallsTyped
    <2>2. <<"return">> \in Returning
      BY DEF Returning
    <2>3. CallInv'
      BY <1>1, <1>2, <1>3, <1>5, <2>1, <2>2, CallersMove
    <2> QED
      BY <1>4, <1>5, <2>3, StepStutters
  <1>6. CASE /\ status[i] = "none" /\ status' = [status EXCEPT ![i] = "TIMEOUT"]
             /\ \E p \in Returning : Then(c, p)
    <2>1. status'[i] = "TIMEOUT" /\ \A j \in Ids \ {i} : status'[j] = status[j]
      BY <1>3, <1>6 DEF CallInv, CallsTyped
    <2>2. Steady
      BY <1>1, <1>3, <1>4, <1>6, <2>1 DEF Steady, CallInv, CallsTyped, Statuses
    <2>3. CallInv'
      BY <1>1, <1>2, <1>3, <1>6, <2>1, <2>2, CallersMove
    <2>4. i \in Unfinished
      BY <1>3, <1>6 DEF Unfinished
    <2> QED
      BY <1>1, <1>4, <1>6, <2>3, <2>4, StepDecides
  <1>7. \/ status[i] # "none" /\ Then(c, <<"return">>) /\ UNCHANGED status
        \/ /\ status[i] = "none" /\ status' = [status EXCEPT ![i] = "TIMEOUT"]
           /\ Then(c, <<"wakeWriter", "maybeFinishDrain", "return">>) \/ Then(c, <<"maybeFinishDrain", "return">>)
    BY DEF CallResumed, i
  <1>8. <<"wakeWriter", "maybeFinishDrain", "return">> \in Returning /\ <<"maybeFinishDrain", "return">> \in Returning
    BY DEF Returning
  <1> QED
    BY <1>5, <1>6, <1>7, <1>8

\* A caller that gets its result, and makes another call or ends.
LEMMA CallIsReturned ==
  ASSUME CallInv, NEW c \in Callers, CallReturns(c)
  PROVE  CallInv' /\ ContractStep
  <1> DEFINE i == CallOf(c)
             life == [j \in Ids |-> Life(j)]
  <1>1. c \in Actors /\ ~Shut /\ program[c] = <<"return">>
    BY CallerAt DEF CallReturns
  <1>2. program[c] \in Returning
    BY <1>1 DEF Returning
  <1>3. i \in pending /\ i \in Ids /\ owner[i] = c /\ \A j \in pending : owner[j] = c => j = i
    BY <1>2, CallerPrograms, CallOfCaller
  <1>4. /\ UNCHANGED <<state, nextId>> /\ pending' = pending \ {i}
        /\ owner' = [owner EXCEPT ![i] = Owner] /\ status' = [status EXCEPT ![i] = "none"]
        /\ Then(c, <<"call">>) \/ Then(c, <<>>)
    BY DEF CallReturns
  <1> HIDE DEF i
  <1>5. PICK p \in Outside : Then(c, p)
    BY <1>4 DEF Outside
  <1>6. status[i] # "none" /\ i < nextId
    BY <1>2, <1>3 DEF CallInv, CallersPlaced, CallsTyped
  <1>7. CallsTyped'
    <2>1. program' \in [Actors -> Seq(Steps)]
      BY <1>1, <1>5, CallerPrograms DEF Then, CallInv, CallsTyped
    <2> QED
      BY <1>3, <1>4, <2>1 DEF CallInv, CallsTyped, Statuses
  <1>8. \A b \in Actors : program'[b] = IF b = c THEN p ELSE program[b]
    BY <1>1, <1>5 DEF Then, CallInv, CallsTyped
  <1>9. CallersPlaced'
    <2>1. \A b \in Callers : program'[b] = IF b = c THEN p ELSE program[b]
      BY <1>8 DEF Actors, Routines
    <2>2. \A j \in pending' : j \in pending /\ owner'[j] = owner[j] /\ owner[j] # c /\ status'[j] = status[j]
      BY <1>3, <1>4 DEF CallInv, CallsTyped
    <2>3. \A b \in Callers \ {c} : (\E j \in pending : owner[j] = b) => \E j \in pending' : owner'[j] = b
      BY <1>3, <1>4, <2>2
    <2>4. \A b \in Callers : program'[b] \notin Outside <=> \E j \in pending' : owner'[j] = b
      BY <2>1, <2>2, <2>3 DEF CallInv, CallersPlaced
    <2>5. \A b \in Callers : program'[b] \in Outside \cup Waiting \cup Returning
      BY <2>1 DEF CallInv, CallersPlaced
    <2>6. \A j \in pending' : program'[owner'[j]] = program[owner[j]]
      BY <2>1, <2>2 DEF CallInv, CallsTyped
    <2> QED
      BY <2>2, <2>4, <2>5, <2>6 DEF CallInv, CallersPlaced
  <1>10. StagesKept'
    BY <1>1, <1>4, <1>8, CallerPrograms DEF CallInv, StagesKept
  <1>11. ContractStep
    <2>1. Life(i) = status[i] /\ status[i] \in {"OK", "TIMEOUT", "CONNECTION_CLOSED", "PROTOCOL_ERROR"}
      BY <1>3, <1>6 DEF Life, CallInv, CallsTyped, Statuses
    <2>2. \A j \in Ids : Life(j)' = IF j = i THEN "gone" ELSE Life(j)
      BY <1>3, <1>4, <1>6 DEF Life, CallInv, CallsTyped
    <2>3. life' = [life EXCEPT ![i] = "gone"] /\ life[i] = status[i]
      BY <1>3, <2>1, <2>2
    <2>4. Gate' = Gate
      BY <1>4 DEF Gate
    <2>5. Contract!Goes(i, status[i], "gone")
      BY <2>3, <2>4 DEF Contract!Goes
    <2>6. Contract!Return(i)
      BY <2>1, <2>5 DEF Contract!Return, Contract!Decided, Contract!Failed
    <2> QED
      BY <1>3, <2>6 DEF ContractStep, Contract!ContractNext
  <1> QED
    BY <1>7, <1>9, <1>10, <1>11 DEF CallInv
-----------------------------------------------------------------------------
(* The steps that several actors make.                                     *)

LEMMA WakesWriter ==
  ASSUME CallInv, NEW a \in Actors, WakeWriter(a)
  PROVE  CallInv' /\ ContractStep
  <1>1. /\ At(a, "wakeWriter") /\ Then(a, Rest(a))
        /\ UNCHANGED <<state, nextId, pending, owner, status>>
    BY DEF WakeWriter, callVars
  <1>2. ~Shut /\ Rest(a) \in Seq(Steps) /\ (Completes(Rest(a)) => Left)
    BY <1>1, RunsAfterConnect
  <1>3. Steady
    BY <1>1, <1>2 DEF Steady, CallInv, CallsTyped
  <1>4. CASE a \in Callers
    <2>1. program[a] \in {<<"wakeWriter", "yield">>,
              <<"wakeWriter", "maybeFinishDrain", "return">>, <<"wakeWriter", "return">>}
      BY <1>1, <1>4, CallerAt
    <2>2. CASE program[a] = <<"wakeWriter", "yield">>
      <3>1. Rest(a) = <<"yield">>
        BY <2>2 DEF Rest
      <3>2. program[a] \in Waiting /\ Rest(a) \in Waiting
        BY <2>2, <3>1 DEF Waiting
      <3> QED
        <4>1. program[a] \notin Outside /\ Rest(a) \notin Returning
          BY <3>2, CallerPrograms
        <4> QED
          BY <1>1, <1>2, <1>3, <1>4, <3>2, <4>1, CallersMove, StepStutters
    <2>3. CASE program[a] \in Returning
      <3>1. Rest(a) \in Returning
        <4>1. CASE program[a] = <<"wakeWriter", "maybeFinishDrain", "return">>
          <5>1. Rest(a) = <<"maybeFinishDrain", "return">>
            BY <4>1 DEF Rest
          <5> QED
            BY <5>1 DEF Returning
        <4>2. CASE program[a] = <<"wakeWriter", "return">>
          <5>1. Rest(a) = <<"return">>
            BY <4>2 DEF Rest
          <5> QED
            BY <5>1 DEF Returning
        <4>3. program[a] # <<"wakeWriter", "yield">>
          BY <2>3, CallerPrograms DEF Waiting
        <4> QED
          BY <2>1, <4>1, <4>2, <4>3
      <3>2. \A i \in pending : owner[i] = a => status'[i] # "none"
        BY <1>1, <2>3 DEF CallInv, CallersPlaced
      <3> QED
        <4>1. program[a] \notin Outside
          BY <2>3, CallerPrograms
        <4> QED
          BY <1>1, <1>2, <1>3, <1>4, <3>1, <3>2, <4>1, CallersMove, StepStutters
    <2> QED
      BY <2>1, <2>2, <2>3 DEF Returning
  <1>5. CASE a \notin Callers
    <2>1. CallInv'
      BY <1>1, <1>2, <1>3, <1>5, OthersMove DEF Steady
    <2> QED
      BY <1>1, <2>1, StepStutters
  <1> QED
    BY <1>4, <1>5

LEMMA FinishesDrain ==
  ASSUME CallInv, NEW a \in Actors, MaybeFinishDrain(a)
  PROVE  CallInv' /\ ContractStep
  <1>1. /\ At(a, "maybeFinishDrain") /\ UNCHANGED <<nextId, pending, owner, status>>
        /\ \/ state' = "CLOSED" /\ state = "CLOSING" /\ Then(a, <<"wakeWriter">> \o Rest(a))
           \/ UNCHANGED state /\ Then(a, Rest(a))
    BY DEF MaybeFinishDrain, callVars, Drained
  <1>2. ~Shut /\ Rest(a) \in Seq(Steps) /\ (Completes(Rest(a)) => Left)
    BY <1>1, RunsAfterConnect
  <1>3. Steady
    BY <1>1, <1>2 DEF Steady, CallInv, CallsTyped
  <1>4. ContractStep
    BY <1>1, <1>2, StepMoves DEF CallInv, CallsTyped
  <1>5. PICK p : Then(a, p) /\ p \in {Rest(a), <<"wakeWriter">> \o Rest(a)}
    BY <1>1
  <1>6. CASE a \in Callers
    <2>1. program[a] = <<"maybeFinishDrain", "return">>
      BY <1>1, <1>6, CallerAt
    <2>2. Rest(a) = <<"return">>
      BY <2>1 DEF Rest
    <2>3. p = <<"return">> \/ p = <<"wakeWriter", "return">>
      BY <1>5, <2>2
    <2>4. program[a] \in Returning /\ p \in Returning
      BY <2>1, <2>3 DEF Returning
    <2>5. \A i \in pending : owner[i] = a => status'[i] # "none"
      BY <1>1, <2>4 DEF CallInv, CallersPlaced
    <2>6. program[a] \notin Outside
      BY <2>4, CallerPrograms
    <2>7. CallInv'
      BY <1>2, <1>3, <1>5, <1>6, <2>4, <2>5, <2>6, CallersMove
    <2> QED
      BY <1>4, <2>7
  <1>7. CASE a \notin Callers
    <2>1. <<"wakeWriter">> \in Seq(Steps) /\ ~Completes(<<"wakeWriter">>)
      BY DEF Steps, Completes
    <2>2. <<"wakeWriter">> \o Rest(a) \in Seq(Steps)
      BY <1>2, <2>1
    <2>3. Completes(<<"wakeWriter">> \o Rest(a)) => Completes(Rest(a))
      BY <1>2, <2>1, CompletesConcat
    <2>4. p \in Seq(Steps) /\ (Completes(p) => Left)
      BY <1>2, <1>5, <2>2, <2>3
    <2>5. CallInv'
      BY <1>2, <1>3, <1>5, <1>7, <2>4, OthersMove DEF Steady
    <2> QED
      BY <1>4, <2>5
  <1> QED
    BY <1>6, <1>7

LEMMA CompletesAll ==
  ASSUME CallInv, NEW a \in Actors, CompleteAllPending(a)
  PROVE  CallInv' /\ ContractStep
  <1>1. PICK s \in {"completeAll", "completeAllBad"} : At(a, s)
    BY DEF CompleteAllPending
  <1>2. a \notin Callers
    BY <1>1, CallerAt
  <1>3. /\ ~Shut /\ Rest(a) \in Seq(Steps) /\ (Completes(Rest(a)) => Left)
        /\ program[a] \in Seq(Steps) /\ 1 \in DOMAIN program[a] /\ program[a][1] = s
    BY <1>1, RunsAfterConnect
  <1>4. Left
    BY <1>1, <1>3 DEF Completes, CallInv, StagesKept
  <1>5. UNCHANGED <<state, nextId, pending, owner>>
    BY DEF CompleteAllPending
  <1>6. CASE UNCHANGED status /\ (Then(a, Rest(a)) \/ UNCHANGED program)
    <2>1. Steady
      BY <1>3, <1>5, <1>6 DEF Steady, CallInv, CallsTyped
    <2>2. UNCHANGED program => Then(a, program[a])
      BY DEF Then, CallInv, CallsTyped
    <2>3. CallInv'
      BY <1>2, <1>3, <1>4, <1>6, <2>1, <2>2, OthersMove DEF Steady
    <2> QED
      BY <1>5, <1>6, <2>3, StepStutters
  <1>7. ASSUME NEW i \in Unfinished, NEW r \in {"CONNECTION_CLOSED", "PROTOCOL_ERROR"},
               status' = [status EXCEPT ![i] = r],
               Then(a, <<"maybeFinishDrain", "resume">> \o program[a])
        PROVE  CallInv' /\ ContractStep
    <2>1. i \in Ids /\ i \in pending /\ status[i] = "none"
      BY DEF Unfinished, CallInv, CallsTyped
    <2>2. Steady
      BY <1>3, <1>5, <1>7, <2>1 DEF Steady, CallInv, CallsTyped, Statuses
    <2>3. <<"maybeFinishDrain", "resume">> \in Seq(Steps)
      BY DEF Steps
    <2>4. <<"maybeFinishDrain", "resume">> \o program[a] \in Seq(Steps)
      BY <1>3, <2>3
    <2>5. CallInv'
      BY <1>2, <1>3, <1>4, <1>7, <2>2, <2>4, OthersMove DEF Steady
    <2> QED
      BY <1>4, <1>5, <1>7, <2>5, StepDecides
  <1> QED
    BY <1>6, <1>7 DEF CompleteAllPending

LEMMA ResumesCaller ==
  ASSUME CallInv, NEW a \in Actors, ResumeCaller(a)
  PROVE  CallInv' /\ ContractStep
  <1>1. /\ At(a, "resume") /\ UNCHANGED <<state, nextId, pending, owner, status>>
        /\ Then(a, Rest(a)) \/ Then(a, <<>>)
    BY DEF ResumeCaller, callVars
  <1>2. a \notin Callers
    BY <1>1, CallerAt
  <1>3. ~Shut /\ Rest(a) \in Seq(Steps) /\ (Completes(Rest(a)) => Left)
    BY <1>1, RunsAfterConnect
  <1>4. Steady
    BY <1>1, <1>3 DEF Steady, CallInv, CallsTyped
  <1>5. <<>> \in Seq(Steps) /\ ~Completes(<<>>)
    BY CallerPrograms DEF Outside
  <1>6. CallInv'
    BY <1>1, <1>2, <1>3, <1>4, <1>5, OthersMove DEF Steady
  <1> QED
    BY <1>1, <1>6, StepStutters
-----------------------------------------------------------------------------
(* The fibers, the owner and the thread.                                   *)

\* Reader and writer are actors and no callers, and so is the owner.
LEMMA NotCallers == Fibers \cup {Owner} \subseteq Actors \ Callers
  BY ActorsDistinct DEF Fibers, Actors, Routines

\* A fiber or the owner goes on, and no call and no state changes.
LEMMA OthersGoOn ==
  ASSUME CallInv, ~Shut, NEW a \in Actors \ Callers, NEW p \in Seq(Steps),
         Completes(p) => Left, Then(a, p) \/ UNCHANGED program,
         UNCHANGED <<state, nextId, pending, owner, status>>
  PROVE  CallInv' /\ ContractStep
  <1>1. Steady
    BY DEF Steady, CallInv, CallsTyped
  <1>2. Then(a, p) \/ Then(a, program[a])
    BY DEF Then, CallInv, CallsTyped
  <1>3. program[a] \in Seq(Steps) /\ (Completes(program[a]) => Left)
    BY DEF CallInv, CallsTyped, StagesKept
  <1>4. CallInv'
    BY <1>1, <1>2, <1>3, OthersMove DEF Steady
  <1> QED
    BY <1>4, StepStutters

\* The programs the fibers go on with.
LEMMA FiberPrograms ==
  \A p \in {<<>>, <<"loop">>, <<"write">>, <<"read">>, <<"decode">>, <<"exit">>, <<"failClosed">>,
            <<"failProtocol">>, <<"maybeFinishDrain", "loop">>, <<"maybeFinishDrain", "resume", "decode">>} :
     p \in Seq(Steps) /\ ~Completes(p)
  <1>1. ASSUME NEW x \in Steps \ {"completeAll", "completeAllBad"} PROVE <<x>> \in Seq(Steps) /\ ~Completes(<<x>>)
    BY DEF Completes
  <1>2. \A x \in {"loop", "write", "read", "decode", "exit", "failClosed", "failProtocol"} :
           x \in Steps \ {"completeAll", "completeAllBad"}
    BY DEF Steps
  <1>3. <<>> \in Seq(Steps) /\ ~Completes(<<>>)
    BY CallerPrograms DEF Outside
  <1>4. <<"maybeFinishDrain", "loop">> \in Seq(Steps) /\ ~Completes(<<"maybeFinishDrain", "loop">>)
    BY DEF Steps, Completes
  <1>5. /\ <<"maybeFinishDrain", "resume", "decode">> \in Seq(Steps)
        /\ ~Completes(<<"maybeFinishDrain", "resume", "decode">>)
    BY DEF Steps, Completes
  <1> QED
    BY <1>1, <1>2, <1>3, <1>4, <1>5

\* The writer, the reader without a completion, and a fiber that ends.
LEMMA FiberGoesOn ==
  ASSUME CallInv, \/ WriterIdles \/ WriterBatches \/ WriterWrites \/ ReaderReads
                  \/ \E f \in Fibers : FiberEnds(f)
  PROVE  CallInv' /\ ContractStep
  <1>1. UNCHANGED <<state, nextId, pending, owner, status>>
    BY DEF WriterIdles, WriterBatches, WriterWrites, ReaderReads, FiberEnds, callVars
  <1>2. CASE WriterIdles
    <2>1. At(Writer, "loop") /\ UNCHANGED program
      BY <1>2 DEF WriterIdles
    <2> QED
      BY <1>1, <2>1, RunsAfterConnect, NotCallers, FiberPrograms, OthersGoOn DEF Fibers
  <1>3. CASE WriterBatches
    <2>1. At(Writer, "loop") /\ (Then(Writer, <<"loop">>) \/ Then(Writer, <<"write">>))
      BY <1>3 DEF WriterBatches
    <2> QED
      BY <1>1, <2>1, RunsAfterConnect, NotCallers, FiberPrograms, OthersGoOn DEF Fibers
  <1>4. CASE WriterWrites
    <2>1. /\ At(Writer, "write")
          /\ \/ Then(Writer, <<"maybeFinishDrain", "loop">>) \/ Then(Writer, <<"failClosed">>)
             \/ UNCHANGED program
      BY <1>4 DEF WriterWrites
    <2> QED
      BY <1>1, <2>1, RunsAfterConnect, NotCallers, FiberPrograms, OthersGoOn DEF Fibers
  <1>5. CASE ReaderReads
    <2>1. /\ At(Reader, "read")
          /\ \/ Then(Reader, <<"decode">>) \/ Then(Reader, <<"failClosed">>)
             \/ UNCHANGED program
      BY <1>5 DEF ReaderReads
    <2> QED
      BY <1>1, <2>1, RunsAfterConnect, NotCallers, FiberPrograms, OthersGoOn DEF Fibers
  <1>6. ASSUME NEW f \in Fibers, FiberEnds(f) PROVE CallInv' /\ ContractStep
    <2>1. (At(f, "exit") \/ At(f, "loop")) /\ Then(f, <<>>)
      BY <1>6 DEF FiberEnds
    <2> QED
      BY <1>1, <2>1, RunsAfterConnect, NotCallers, FiberPrograms, OthersGoOn
  <1> QED
    BY <1>2, <1>3, <1>4, <1>5, <1>6

\* The reader takes a frame, and completes the call it answers.
LEMMA ReaderTakesFrame ==
  ASSUME CallInv, ReaderDecodes
  PROVE  CallInv' /\ ContractStep
  <1> DEFINE i == Head(frames)
  <1>1. Reader \in Actors \ Callers
    BY NotCallers DEF Fibers
  <1>2. ~Shut
    BY <1>1, RunsAfterConnect DEF ReaderDecodes
  <1>3. UNCHANGED <<state, nextId, pending, owner>>
    BY DEF ReaderDecodes
  <1>4. CASE /\ i \in Unfinished /\ status' = [status EXCEPT ![i] = "OK"]
             /\ Then(Reader, <<"maybeFinishDrain", "resume", "decode">>)
    <2>1. i \in Ids /\ i \in pending /\ status[i] = "none"
      BY <1>4 DEF Unfinished, CallInv, CallsTyped
    <2> HIDE DEF i
    <2>2. Steady
      BY <1>2, <1>3, <1>4, <2>1 DEF Steady, CallInv, CallsTyped, Statuses
    <2>3. CallInv'
      BY <1>1, <1>2, <1>4, <2>2, FiberPrograms, OthersMove
    <2> QED
      BY <1>2, <1>3, <1>4, <2>3, StepDecides
  <1>5. CASE /\ UNCHANGED status
             /\ \/ Then(Reader, <<"exit">>) \/ Then(Reader, <<"read">>)
                \/ Then(Reader, <<"failProtocol">>) \/ UNCHANGED program
    BY <1>1, <1>2, <1>3, <1>5, FiberPrograms, OthersGoOn
  <1> QED
    BY <1>4, <1>5 DEF ReaderDecodes

\* A fiber fails the connection.
LEMMA FiberFails ==
  ASSUME CallInv, NEW f \in Fibers, FailConnection(f)
  PROVE  CallInv' /\ ContractStep
  <1>1. f \in Actors \ Callers
    BY NotCallers
  <1>2. ~Shut
    BY <1>1, RunsAfterConnect DEF FailConnection
  <1>3. UNCHANGED <<nextId, pending, owner, status>>
    BY DEF FailConnection, callVars
  <1>4. CASE state = "CLOSED"
    <2>1. UNCHANGED state /\ Then(f, <<"exit">>)
      BY <1>4 DEF FailConnection
    <2> QED
      BY <1>1, <1>2, <1>3, <2>1, FiberPrograms, OthersGoOn
  <1>5. CASE state # "CLOSED"
    <2>1. /\ state' = "CLOSED"
          /\ \/ Then(f, <<"completeAll", "wakeWriter", "exit">>)
             \/ Then(f, <<"completeAllBad", "wakeWriter", "exit">>)
      BY <1>5 DEF FailConnection
    <2>2. /\ <<"completeAll", "wakeWriter", "exit">> \in Seq(Steps)
          /\ <<"completeAllBad", "wakeWriter", "exit">> \in Seq(Steps)
      BY DEF Steps
    <2>3. Steady
      BY <1>3, <2>1 DEF Steady, CallInv, CallsTyped
    <2>4. CallInv'
      BY <1>1, <1>2, <2>1, <2>2, <2>3, OthersMove
    <2>5. ContractStep
      BY <1>2, <1>3, <2>1, StepMoves DEF CallInv, CallsTyped
    <2> QED
      BY <2>4, <2>5
  <1> QED
    BY <1>4, <1>5

\* The owner on the stack: StartFibers, the end of Close, and its return.
LEMMA OwnerGoesOn ==
  ASSUME CallInv, StartFibers \/ CloseEnds \/ OwnerLeaves
  PROVE  CallInv' /\ ContractStep
  <1>1. Owner \in Actors \ Callers
    BY NotCallers
  <1>2. <<"leave">> \in Seq(Steps) /\ <<"idle">> \in Seq(Steps)
    BY DEF Steps
  <1>3. ~Completes(<<"leave">>) /\ ~Completes(<<"idle">>)
    BY DEF Completes
  <1>4. UNCHANGED <<nextId, pending, owner, status>>
    BY DEF StartFibers, CloseEnds, OwnerLeaves, callVars
  <1>5. ~Shut /\ Rest(Owner) \in Seq(Steps) /\ (Completes(Rest(Owner)) => Left)
    BY <1>1, RunsAfterConnect DEF StartFibers, CloseEnds, OwnerLeaves
  <1>6. CASE StartFibers \/ OwnerLeaves
    <2>1. /\ UNCHANGED state
          /\ Then(Owner, Rest(Owner)) \/ Then(Owner, <<"leave">>) \/ Then(Owner, <<"idle">>)
      BY <1>6 DEF StartFibers, OwnerLeaves
    <2> QED
      BY <1>1, <1>2, <1>3, <1>4, <1>5, <2>1, OthersGoOn
  <1>7. CASE CloseEnds
    <2>1. state' = "CLOSED" /\ Then(Owner, Rest(Owner))
      BY <1>7 DEF CloseEnds
    <2>2. Steady
      BY <1>4, <2>1 DEF Steady, CallInv, CallsTyped
    <2>3. CallInv'
      BY <1>1, <1>5, <2>1, <2>2, OthersMove
    <2>4. ContractStep
      BY <1>4, <1>5, <2>1, StepMoves DEF CallInv, CallsTyped
    <2> QED
      BY <2>3, <2>4
  <1> QED
    BY <1>6, <1>7

\* BeginDrain and Close, of a connection that is alive.
LEMMA OwnerLeavesConnection ==
  ASSUME CallInv, BeginDrain \/ Close
  PROVE  CallInv' /\ ContractStep
  <1>1. Owner \in Actors \ Callers
    BY NotCallers
  <1>2. /\ state \in {"READY", "CLOSING"} /\ state' = "CLOSING"
        /\ UNCHANGED <<nextId, pending, owner, status>>
        /\ \/ Then(Owner, <<"wakeWriter", "maybeFinishDrain", "leave">>)
           \/ Then(Owner, <<"completeAll", "setClosed", "wakeWriter", "leave">>)
    BY DEF BeginDrain, Close, Alive, callVars
  <1>3. <<"wakeWriter", "maybeFinishDrain", "leave">> \in Seq(Steps)
    BY DEF Steps
  <1>4. <<"completeAll", "setClosed", "wakeWriter", "leave">> \in Seq(Steps)
    BY DEF Steps
  <1>5. Steady
    BY <1>2 DEF Steady, CallInv, CallsTyped
  <1>6. CallInv'
    BY <1>1, <1>2, <1>3, <1>4, <1>5, OthersMove
  <1>7. ContractStep
    BY <1>2, StepMoves DEF CallInv, CallsTyped
  <1> QED
    BY <1>6, <1>7

\* Connect, which is over before anybody else has the connection.
LEMMA OwnerConnects ==
  ASSUME CallInv, Connect
  PROVE  CallInv' /\ ContractStep
  <1>1. Owner \in Actors \ Callers
    BY NotCallers
  <1>2. Shut /\ UNCHANGED <<nextId, pending, owner, status, rstate, ready, turn>>
    BY DEF Connect, callVars
  <1>3. CASE state' = "READY" /\ Then(Owner, <<"startReader", "startWriter">>)
    <2> DEFINE p == <<"startReader", "startWriter">>
    <2>1. p \in Seq(Steps) /\ ~Completes(p)
      BY DEF Steps, Completes
    <2> HIDE DEF p
    <2>2. \A a \in Actors : program'[a] = IF a = Owner THEN p ELSE program[a]
      BY <1>1, <1>3 DEF Then, CallInv, CallsTyped, p
    <2>3. program' \in [Actors -> Seq(Steps)]
      BY <1>1, <1>3, <2>1 DEF Then, CallInv, CallsTyped, p
    <2>4. CallsTyped'
      BY <1>2, <1>3, <2>3 DEF CallInv, CallsTyped
    <2>5. \A c \in Callers : program'[c] = program[c]
      BY <1>1, <2>2 DEF Actors, Routines
    <2>6. CallersPlaced'
      BY <1>2, <2>5 DEF CallInv, CallsTyped, CallersPlaced
    <2>7. StagesKept'
      BY <1>2, <1>3, <2>1, <2>2 DEF CallInv, StagesKept
    <2>8. ContractStep
      BY <1>2, <1>3, StepMoves
    <2> QED
      BY <2>4, <2>6, <2>7, <2>8 DEF CallInv
  <1>4. CASE Shut' /\ UNCHANGED <<program, stack>>
    <2>1. CallsTyped'
      BY <1>2, <1>4 DEF CallInv, CallsTyped
    <2>2. CallersPlaced'
      BY <1>2, <1>4 DEF CallInv, CallersPlaced
    <2>3. StagesKept'
      BY <1>2, <1>4 DEF CallInv, StagesKept
    <2>4. ContractStep
      BY <1>2, <1>4, StepMoves DEF CallInv, CallsTyped
    <2> QED
      BY <2>1, <2>2, <2>3, <2>4 DEF CallInv
  <1> QED
    BY <1>3, <1>4 DEF Connect

\* The thread takes a routine from its queue, or waits for one.
LEMMA ThreadTurns ==
  ASSUME CallInv, RunFront \/ Poll
  PROVE  CallInv' /\ ContractStep
  <1>1. UNCHANGED <<state, nextId, pending, owner, status, program>>
    BY DEF RunFront, Poll, Wake, callVars
  <1>2. ~Shut
    <2>1. Shut => Awaiting = {}
      BY DEF Awaiting, CallInv, StagesKept, Routines
    <2>2. Shut => ready = <<>> /\ turn = 0
      BY DEF CallInv, StagesKept
    <2>3. CASE RunFront
      BY <2>2, <2>3 DEF RunFront
    <2>4. CASE Poll
      BY <2>1, <2>2, <2>4 DEF Poll
    <2> QED
      BY <2>3, <2>4
  <1>3. CallInv'
    BY <1>1, <1>2 DEF CallInv, CallsTyped, CallersPlaced, StagesKept
  <1> QED
    BY <1>1, <1>3, StepStutters
-----------------------------------------------------------------------------
\* Every step keeps CallInv and is a step of the contract or changes nothing of it.
LEMMA NextCallInv == CallInv /\ [Next]_vars => CallInv' /\ ContractStep
  <1> SUFFICES ASSUME CallInv, [Next]_vars
               PROVE  CallInv' /\ ContractStep
    OBVIOUS
  <1>1. ASSUME NEW c \in Callers, CallerStep(c) PROVE CallInv' /\ ContractStep
    BY <1>1, CallTurnedAway, CallTaken, CallWaitsOn, CallIsResumed, CallIsReturned DEF CallerStep
  <1>2. ASSUME NEW a \in Actors, SharedStep(a) PROVE CallInv' /\ ContractStep
    BY <1>2, WakesWriter, FinishesDrain, CompletesAll, ResumesCaller DEF SharedStep
  <1>3. CASE FiberStep
    BY <1>3, FiberGoesOn, ReaderTakesFrame, FiberFails DEF FiberStep
  <1>4. CASE StartFibers \/ CloseEnds \/ OwnerLeaves
    BY <1>4, OwnerGoesOn
  <1>5. CASE BeginDrain \/ Close
    BY <1>5, OwnerLeavesConnection
  <1>6. CASE Connect
    BY <1>6, OwnerConnects
  <1>7. CASE RunFront \/ Poll
    BY <1>7, ThreadTurns
  <1>8. CASE UNCHANGED vars
    <2>1. UNCHANGED <<state, nextId, pending, owner, status, program, stack, ready, turn, rstate>>
      BY <1>8 DEF vars, callVars, runVars
    <2>2. CallInv'
      BY <2>1 DEF CallInv, CallsTyped, CallersPlaced, StagesKept
    <2> QED
      BY <2>1, <2>2, StepStutters
  <1> QED
    BY <1>1, <1>2, <1>3, <1>4, <1>5, <1>6, <1>7, <1>8 DEF Next, ThreadStep

\* The initial connection is the contract's.
LEMMA InitContract == Init => Contract!ContractInit
  BY DEF Init, Contract!ContractInit, Gate, Life, Ids

\* The connection keeps its contract with any number of callers, under any limits:
\* of a response, a timeout and a failure that race for a call exactly one decides
\* it (the tests of completed in CompletePending and CallEncoded), no call fails
\* before FailConnection or Close left READY, and no call is taken after that.
THEOREM ConnectionKeepsContract == Spec => KeepsContract
  <1>1. Init => CallInv
    BY InitCallInv
  <1>2. CallInv /\ [Next]_vars => CallInv' /\ [Contract!ContractNext]_(Contract!contractVars)
    BY NextCallInv DEF ContractStep
  <1> QED
    BY <1>1, <1>2, InitContract, PTL DEF Spec, KeepsContract, Contract!ContractSpec
=============================================================================
