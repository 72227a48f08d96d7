------------------------ MODULE WebhookReceiver_proofs ------------------------
(***************************************************************************)
(* Proofs about WebhookReceiver, for any deliveries, attempts, crashes and *)
(* queue.  The receiver implements WebhookHandler, so what is proved of    *)
(* the handler holds of it too; what it adds is where an event may be.     *)
(***************************************************************************)
EXTENDS WebhookReceiver, WebhookHandler_proofs, FiniteSetTheorems

\* d is with an attempt that is about to queue it, in the queue, or with process.
InFlight(d) ==
    \/ \E a \in marked : a[1] = d
    \/ \E i \in 1..Len(queue) : queue[i] = d
    \/ working = d

\* No event is in two places.
OnePlace ==
    /\ \A a, b \in marked : a[1] = b[1] => a = b
    /\ \A i, j \in 1..Len(queue) : queue[i] = queue[j] => i = j
    /\ \A a \in marked, i \in 1..Len(queue) : a[1] # queue[i]
    /\ \A a \in marked : a[1] # working
    /\ \A i \in 1..Len(queue) : queue[i] # working

\* An event that this run of the process has not seen is nowhere, and one that is somewhere was not
\* handled in this run.
Counted ==
    \A d \in Delivery :
        /\ InFlight(d) => d \in seen
        /\ InFlight(d) \/ d \notin seen => processed[d] = 0

\* The inductive invariant of the receiver.
ReceiverInv == IInv /\ ReceiverTypeOK /\ OnePlace /\ Counted /\ ProcessedOncePerRun

-------------------------------------------------------------------------------
\* A step of the receiver is a step of the handler, or leaves all of its variables alone.
LEMMA ReceiverStep == [ReceiverNext]_allVars => [Next]_vars
<1> SUFFICES ASSUME [ReceiverNext]_allVars PROVE [Next]_vars
  OBVIOUS
<1>1. CASE ServeAndDeliver
  BY <1>1 DEF Next
<1>2. ASSUME NEW a \in Attempt, Mark(a) PROVE [Next]_vars
  <2>1. CASE a[1] \in seen
    BY <1>2, <2>1 DEF Mark, Next
  <2>2. CASE a[1] \notin seen
    BY <1>2, <2>2 DEF Mark
  <2> QED
    BY <2>1, <2>2
<1>3. ASSUME NEW a \in Attempt, Enqueue(a) PROVE [Next]_vars
  <2>1. OnEventReturns(a, "nil") \/ OnEventReturns(a, "error")
    BY <1>3 DEF Enqueue
  <2> QED
    BY <2>1 DEF Next
<1>4. CASE TakeWork \/ FinishWork
  BY <1>4 DEF TakeWork, FinishWork
<1>5. CASE Restart
  BY <1>5 DEF Restart, Next
<1>6. CASE UNCHANGED allVars
  BY <1>6 DEF allVars
<1> QED
  BY <1>1, <1>2, <1>3, <1>4, <1>5, <1>6 DEF ReceiverNext

\* The receiver implements the handler: what enqueue does is one of the things OnEvent may do.
THEOREM ReceiverImplementsHandler == ReceiverSpec => Spec
<1>1. ReceiverInit => Init
  BY DEF ReceiverInit
<1>2. QED
  BY <1>1, ReceiverStep, PTL DEF ReceiverSpec, Spec

\* With an OnError that never answers 2xx the receiver implements the delivery contract: the
\* platform accepts no event that enqueue did not take.
THEOREM ReceiverImplementsContract == ASSUME OnErrorRefuses PROVE ReceiverSpec => ContractSpec
BY ReceiverImplementsHandler, ImplementsContract, PTL

-------------------------------------------------------------------------------
\* The initial states satisfy the invariant.
LEMMA InitReceiverInv == ReceiverInit => ReceiverInv
<1> SUFFICES ASSUME ReceiverInit PROVE ReceiverInv
  OBVIOUS
<1> USE DEF ReceiverInit
<1>1. IInv /\ crashes = 0
  BY InitIInv DEF Init
<1>2. ReceiverTypeOK
  BY ReceiverAssumption DEF ReceiverTypeOK
<1>3. OnePlace
  BY DEF OnePlace
<1>4. Counted /\ ProcessedOncePerRun
  BY <1>1, ReceiverAssumption DEF Counted, InFlight, ProcessedOncePerRun
<1> QED
  BY <1>1, <1>2, <1>3, <1>4 DEF ReceiverInv

\* While other requests are served and other deliveries sent, OnEvent goes on.
LEMMA DispatchingStays ==
    ASSUME IInv, ServeAndDeliver, NEW a \in Attempt, phase[a] = "dispatching"
    PROVE  phase'[a] = "dispatching"
<1> USE DEF IInv
<1>1. CASE Probe
  BY <1>1 DEF Probe, requestVars
<1>2. ASSUME NEW d \in Delivery, Send(d) PROVE phase'[a] = "dispatching"
  <2>1. attempts[d] \in Nat /\ attempts[d] + 1 \in 1..MaxAttempts
    BY <1>2, HandlerAssumption DEF Send, TypeOK, Issued
  <2>2. phase[<<d, attempts[d] + 1>>] = "unsent"
    BY <2>1 DEF Issued
  <2> QED
    BY <1>2, <2>2 DEF Send, TypeOK
<1>3. CASE \E d \in Delivery : Receive(d) \/ TimeOut(d)
  BY <1>3 DEF Receive, TimeOut, Conclude, requestVars
<1>4. ASSUME NEW b \in Attempt, Lose(b) \/ Arrive(b) \/ ReadBody(b) \/ Verify(b)
      PROVE  phase'[a] = "dispatching"
  <2>1. b # a
    BY <1>4 DEF Lose, Arrive, ReadBody, Verify
  <2>2. \E p : phase' = [phase EXCEPT ![b] = p]
    BY <1>4 DEF Lose, Arrive, ReadBody, Verify, Advance, Fail, Answer
  <2> QED
    BY <2>1, <2>2 DEF TypeOK
<1> QED
  BY <1>1, <1>2, <1>3, <1>4 DEF ServeAndDeliver

\* Only a restart counts.
LEMMA CrashesStay == ServeAndDeliver => UNCHANGED crashes
BY DEF ServeAndDeliver, Probe, Send, Receive, TimeOut, Conclude, Lose, Arrive, ReadBody, Verify

\* Every step keeps the invariant.
LEMMA StepReceiverInv == ReceiverInv /\ [ReceiverNext]_allVars => ReceiverInv'
<1> SUFFICES ASSUME ReceiverInv, [ReceiverNext]_allVars PROVE ReceiverInv'
  OBVIOUS
<1> USE DEF ReceiverInv
<1>t. crashes \in Nat /\ phase \in [Attempt -> Phase]
  BY HandlerAssumption DEF IInv, TypeOK
<1>0. IInv'
  BY ReceiverStep, StepIInv
<1>1. ASSUME ServeAndDeliver, UNCHANGED receiverVars PROVE ReceiverInv'
  <2>1. UNCHANGED <<seen, marked, queue, working, processed, crashes>>
    BY <1>1, CrashesStay DEF receiverVars, memory
  <2>2. ReceiverTypeOK'
    BY <1>1, <2>1, DispatchingStays DEF ReceiverTypeOK
  <2> QED
    BY <1>0, <2>1, <2>2 DEF OnePlace, Counted, InFlight, ProcessedOncePerRun
<1>2. ASSUME NEW a \in Attempt, Mark(a) PROVE ReceiverInv'
  <2>1. CASE a[1] \in seen
    <3>1. /\ UNCHANGED <<seen, marked, queue, working, processed, crashes>>
          /\ phase' = [phase EXCEPT ![a] = "answered"] /\ a \notin marked
      BY <1>2, <2>1 DEF Mark, OnEventReturns, Answer, receiverVars, memory
    <3>2. ReceiverTypeOK'
      BY <1>t, <3>1 DEF ReceiverTypeOK
    <3> QED
      BY <1>0, <3>1, <3>2 DEF OnePlace, Counted, InFlight, ProcessedOncePerRun
  <2>2. CASE a[1] \notin seen
    <3>1. /\ seen' = seen \cup {a[1]} /\ marked' = marked \cup {a}
          /\ phase[a] = "dispatching" /\ a[1] \in Delivery
          /\ UNCHANGED <<phase, queue, working, processed, crashes>>
      BY <1>2, <2>2 DEF Mark, vars, requestVars, Attempt
    <3>2. ~InFlight(a[1]) /\ processed[a[1]] = 0
      BY <2>2, <3>1 DEF Counted
    <3>3. ReceiverTypeOK'
      BY <3>1 DEF ReceiverTypeOK
    <3>4. OnePlace'
      BY <3>1, <3>2 DEF OnePlace, InFlight
    <3>5. Counted' /\ ProcessedOncePerRun'
      BY <3>1, <3>2 DEF Counted, InFlight, ProcessedOncePerRun
    <3> QED
      BY <1>0, <3>3, <3>4, <3>5
  <2> QED
    BY <2>1, <2>2
<1>3. ASSUME NEW a \in Attempt, Enqueue(a) PROVE ReceiverInv'
  <2>1. /\ a \in marked /\ marked' = marked \ {a} /\ a[1] \in Delivery
        /\ UNCHANGED <<seen, working, processed, crashes>>
    BY <1>3 DEF Enqueue, OnEventReturns, Attempt
  <2>2. \E p : phase' = [phase EXCEPT ![a] = p]
    BY <1>3 DEF Enqueue, OnEventReturns, Answer, Fail
  <2>3. \A b \in marked' : phase'[b] = "dispatching" /\ b[1] \in seen'
    BY <1>t, <2>1, <2>2 DEF ReceiverTypeOK
  <2>4. CASE Len(queue) < QueueCap
    <3>1. queue' = Append(queue, a[1])
      BY <1>3, <2>4 DEF Enqueue
    <3>2. /\ queue \in Seq(Delivery) /\ queue' \in Seq(Delivery)
          /\ Len(queue') = Len(queue) + 1 /\ Len(queue) \in Nat /\ queue'[Len(queue) + 1] = a[1]
          /\ \A i \in 1..Len(queue) : queue'[i] = queue[i]
      BY <2>1, <3>1 DEF ReceiverTypeOK
    <3>3. ReceiverTypeOK'
      BY <2>1, <2>3, <2>4, <3>2, ReceiverAssumption DEF ReceiverTypeOK
    <3>4. OnePlace'
      BY <2>1, <3>2 DEF OnePlace
    <3>5. \A d \in Delivery : InFlight(d)' => InFlight(d)
      BY <2>1, <3>2 DEF InFlight
    <3> QED
      BY <1>0, <2>1, <3>3, <3>4, <3>5 DEF Counted, ProcessedOncePerRun
  <2>5. CASE ~(Len(queue) < QueueCap)
    <3>1. UNCHANGED queue
      BY <1>3, <2>5 DEF Enqueue
    <3>2. ReceiverTypeOK' /\ OnePlace'
      BY <2>1, <2>3, <3>1 DEF ReceiverTypeOK, OnePlace
    <3>3. \A d \in Delivery : InFlight(d)' => InFlight(d)
      BY <2>1, <3>1 DEF InFlight
    <3> QED
      BY <1>0, <2>1, <3>2, <3>3 DEF Counted, ProcessedOncePerRun
  <2> QED
    BY <2>4, <2>5
<1>4. CASE TakeWork
  <2>1. /\ working = Idle /\ working' = queue[1] /\ queue # <<>> /\ queue' = Tail(queue)
        /\ UNCHANGED <<seen, marked, processed, phase, crashes>>
    BY <1>4 DEF TakeWork, vars, requestVars
  <2>2. /\ queue \in Seq(Delivery) /\ queue' \in Seq(Delivery)
        /\ Len(queue) \in Nat \ {0} /\ Len(queue') = Len(queue) - 1
        /\ \A i \in 1..Len(queue') : queue'[i] = queue[i + 1]
    BY <2>1 DEF ReceiverTypeOK
  <2>3. ReceiverTypeOK'
    BY <2>1, <2>2, ReceiverAssumption DEF ReceiverTypeOK
  <2>4. OnePlace'
    BY <2>1, <2>2 DEF OnePlace
  <2>5. \A d \in Delivery : InFlight(d)' => InFlight(d)
    BY <2>1, <2>2 DEF InFlight
  <2> QED
    BY <1>0, <2>1, <2>3, <2>4, <2>5 DEF Counted, ProcessedOncePerRun
<1>5. CASE FinishWork
  <2>1. /\ working \in Delivery /\ working' = Idle
        /\ processed' = [processed EXCEPT ![working] = @ + 1]
        /\ UNCHANGED <<seen, marked, queue, phase, crashes>>
    BY <1>5 DEF FinishWork, vars, requestVars, ReceiverTypeOK
  <2>2. InFlight(working) /\ processed[working] = 0
    BY <2>1 DEF InFlight, Counted
  <2>3. ReceiverTypeOK'
    BY <2>1 DEF ReceiverTypeOK
  <2>4. OnePlace'
    BY <2>1, <2>3, ReceiverAssumption DEF OnePlace, ReceiverTypeOK, Attempt
  <2>5. \A d \in Delivery : InFlight(d)' => InFlight(d) /\ d # working
    BY <2>1, ReceiverAssumption DEF InFlight, OnePlace
  <2>6. working \in seen
    BY <2>1, <2>2 DEF Counted
  <2>7. Counted' /\ ProcessedOncePerRun'
    BY <1>t, <2>1, <2>2, <2>5, <2>6 DEF Counted, ProcessedOncePerRun, ReceiverTypeOK
  <2> QED
    BY <1>0, <2>3, <2>4, <2>7
<1>6. CASE Restart
  <2>1. /\ seen' = {} /\ marked' = {} /\ queue' = <<>> /\ working' = Idle
        /\ processed' = [d \in Delivery |-> 0]
    BY <1>6 DEF Restart
  <2>2. ReceiverTypeOK' /\ OnePlace'
    BY <2>1, ReceiverAssumption DEF ReceiverTypeOK, OnePlace
  <2>3. Counted' /\ ProcessedOncePerRun'
    BY <1>t, <2>1, ReceiverAssumption DEF Counted, InFlight, ProcessedOncePerRun, ReceiverTypeOK
  <2> QED
    BY <1>0, <2>2, <2>3
<1>7. CASE UNCHANGED allVars
  BY <1>0, <1>7 DEF allVars, vars, receiverVars, memory, requestVars, ReceiverTypeOK, OnePlace, Counted, InFlight,
                   ProcessedOncePerRun
<1> QED
  BY <1>1, <1>2, <1>3, <1>4, <1>5, <1>6, <1>7 DEF ReceiverNext

\* The invariant of the receiver holds for any constants.
LEMMA ReceiverInvariance == ReceiverSpec => []ReceiverInv
BY InitReceiverInv, StepReceiverInv, PTL DEF ReceiverSpec

\* The receiver's variables keep their types, and an attempt that left the mutex is still in OnEvent.
THEOREM ReceiverTypeCorrectness == ReceiverSpec => []ReceiverTypeOK
<1>1. ReceiverInv => ReceiverTypeOK
  BY DEF ReceiverInv
<1> QED
  BY <1>1, ReceiverInvariance, PTL

\* Every run of the process handles an event at most once, for any number of deliveries, of attempts
\* that overlap and of restarts, and whether or not the queue is ever full.
THEOREM HandledOncePerRun == ReceiverSpec => []ProcessedOncePerRun
<1>1. ReceiverInv => ProcessedOncePerRun
  BY DEF ReceiverInv
<1> QED
  BY <1>1, ReceiverInvariance, PTL

-------------------------------------------------------------------------------
\* The channel has room for every delivery there is.
QueueIsLarge == IsFiniteSet(Delivery) /\ Cardinality(Delivery) <= QueueCap

\* Until the process dies, what OnEvent was handed was seen, and what was seen is still somewhere.
NothingDropped ==
    crashes = 0 => (\A a \in handed : a[1] \in seen) /\ (\A d \in seen : Held(d))

\* The deliveries in the queue are distinct, so one that is not in it finds room.
LEMMA RoomInQueue ==
    ASSUME QueueIsLarge, ReceiverTypeOK, OnePlace, NEW d \in Delivery,
           \A i \in 1..Len(queue) : queue[i] # d
    PROVE  Len(queue) < QueueCap
<1> DEFINE Others == Delivery \ {d}
<1>1. IsFiniteSet(Others) /\ Cardinality(Others) = Cardinality(Delivery) - 1
  BY FS_RemoveElement DEF QueueIsLarge
<1>2. queue \in Seq(Delivery) /\ Len(queue) \in Nat
  BY DEF ReceiverTypeOK
<1>3. [i \in 1..Len(queue) |-> queue[i]] \in Injection(1..Len(queue), Others)
  BY <1>2 DEF OnePlace, Injection, IsInjective
<1>4. Cardinality(1..Len(queue)) <= Cardinality(Others)
  BY <1>1, <1>3, FS_Injection
<1>5. Cardinality(1..Len(queue)) = Len(queue)
  BY <1>2, FS_Interval
<1>6. Cardinality(Delivery) \in Nat
  BY FS_CardinalityType DEF QueueIsLarge
<1> QED
  BY <1>1, <1>2, <1>4, <1>5, <1>6, ReceiverAssumption DEF QueueIsLarge

\* With room for every delivery no step drops an event, except a restart.
LEMMA StepNothingDropped ==
    ASSUME QueueIsLarge, ReceiverInv, NothingDropped, [ReceiverNext]_allVars
    PROVE  NothingDropped'
<1> USE DEF ReceiverInv
<1>t. crashes \in Nat
  BY HandlerAssumption DEF IInv, TypeOK
<1>1. CASE ServeAndDeliver /\ UNCHANGED receiverVars
  <2>1. UNCHANGED <<handed, crashes>>
    BY <1>1 DEF ServeAndDeliver, Probe, Send, Receive, TimeOut, Conclude, Lose, Arrive, ReadBody, Verify,
                requestVars
  <2> QED
    BY <1>1, <2>1 DEF NothingDropped, Held, receiverVars, memory
<1>2. ASSUME NEW a \in Attempt, Mark(a) PROVE NothingDropped'
  <2>1. CASE a[1] \in seen
    <3>1. handed' = handed \cup {a} /\ UNCHANGED <<seen, marked, queue, working, processed, crashes>>
      BY <1>2, <2>1 DEF Mark, OnEventReturns, receiverVars, memory
    <3> QED
      BY <2>1, <3>1 DEF NothingDropped, Held
  <2>2. CASE a[1] \notin seen
    BY <1>2, <2>2 DEF Mark, NothingDropped, Held, vars, requestVars
  <2> QED
    BY <2>1, <2>2
<1>3. ASSUME NEW a \in Attempt, Enqueue(a) PROVE NothingDropped'
  <2>1. /\ a \in marked /\ marked' = marked \ {a} /\ a[1] \in Delivery
        /\ UNCHANGED <<seen, working, processed, crashes>>
    BY <1>3 DEF Enqueue, OnEventReturns, Attempt
  <2>2. Len(queue) < QueueCap
    BY <2>1, RoomInQueue DEF OnePlace
  <2>3. OnEventReturns(a, "nil") /\ queue' = Append(queue, a[1])
    BY <1>3, <2>2 DEF Enqueue
  <2>4. handed' = handed \cup {a} /\ a[1] \in seen
    BY <2>1, <2>3 DEF OnEventReturns, ReceiverTypeOK
  <2>5. /\ Len(queue) \in Nat /\ Len(queue') = Len(queue) + 1 /\ queue'[Len(queue) + 1] = a[1]
        /\ \A i \in 1..Len(queue) : queue'[i] = queue[i]
    BY <2>1, <2>3 DEF ReceiverTypeOK
  <2>6. \A d \in Delivery : Held(d) => Held(d)'
    BY <2>1, <2>5 DEF Held
  <2> QED
    BY <2>1, <2>4, <2>6 DEF NothingDropped, ReceiverTypeOK
<1>4. CASE TakeWork
  <2>1. /\ working = Idle /\ working' = queue[1] /\ queue # <<>> /\ queue' = Tail(queue)
        /\ UNCHANGED <<seen, marked, processed, handed, crashes>>
    BY <1>4 DEF TakeWork, vars, requestVars
  <2>2. /\ Len(queue) \in Nat \ {0} /\ Len(queue') = Len(queue) - 1
        /\ \A i \in 1..Len(queue') : queue'[i] = queue[i + 1]
    BY <2>1 DEF ReceiverTypeOK
  <2>3. ASSUME NEW d \in Delivery, Held(d) PROVE Held(d)'
    <3>1. CASE \E i \in 1..Len(queue) : queue[i] = d
      <4>1. PICK i \in 1..Len(queue) : queue[i] = d
        BY <3>1
      <4>2. i = 1 \/ (i - 1 \in 1..Len(queue') /\ queue'[i - 1] = d)
        BY <2>2, <4>1
      <4> QED
        BY <2>1, <4>1, <4>2 DEF Held
    <3>2. CASE ~\E i \in 1..Len(queue) : queue[i] = d
      BY <2>1, <2>3, <3>2, ReceiverAssumption DEF Held
    <3> QED
      BY <3>1, <3>2
  <2> QED
    BY <2>1, <2>3 DEF NothingDropped, ReceiverTypeOK
<1>5. CASE FinishWork
  <2>1. /\ working \in Delivery /\ processed' = [processed EXCEPT ![working] = @ + 1]
        /\ UNCHANGED <<seen, marked, queue, handed, crashes>>
    BY <1>5 DEF FinishWork, vars, requestVars, ReceiverTypeOK
  <2>2. \A d \in Delivery : Held(d) => Held(d)'
    BY <2>1 DEF Held, ReceiverTypeOK
  <2> QED
    BY <2>1, <2>2 DEF NothingDropped, ReceiverTypeOK
<1>6. CASE Restart
  BY <1>t, <1>6 DEF Restart, Crash, NothingDropped
<1>7. CASE UNCHANGED allVars
  BY <1>7 DEF allVars, vars, receiverVars, memory, requestVars, NothingDropped, Held
<1> QED
  BY <1>1, <1>2, <1>3, <1>4, <1>5, <1>6, <1>7 DEF ReceiverNext

\* If the channel has room for every delivery and OnError never answers 2xx, then until the process
\* dies an event the platform counts as accepted is held, however its attempts overlap.  That the
\* channel needs the room is what a queue of one shows.
THEOREM AcceptedHeld == ASSUME OnErrorRefuses, QueueIsLarge PROVE ReceiverSpec => []AcceptedIsHeld
<1>1. ReceiverInit => NothingDropped
  BY DEF ReceiverInit, Init, NothingDropped
<1>2. ReceiverInv /\ NothingDropped /\ [ReceiverNext]_allVars => NothingDropped'
  BY StepNothingDropped
<1>3. NothingDropped /\ AcceptedWasHanded => AcceptedIsHeld
  BY DEF NothingDropped, AcceptedWasHanded, AcceptedIsHeld
<1> QED
  BY <1>1, <1>2, <1>3, ReceiverInvariance, ReceiverImplementsHandler, AcceptedHanded, PTL DEF ReceiverSpec
===============================================================================
