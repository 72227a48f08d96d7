---------------------------- MODULE WebhookReceiver ---------------------------
(***************************************************************************)
(* The receiver of examples/webhook_receiver_http.go on top of             *)
(* WebhookHandler: OnEvent is enqueue, which deduplicates on Event.ID      *)
(* under a mutex and hands the event to a bounded channel without waiting; *)
(* one goroutine, process, empties the channel.  Everything it keeps is in *)
(* memory.                                                                 *)
(***************************************************************************)
EXTENDS WebhookHandler, Sequences

CONSTANTS
    QueueCap,   \* make(chan *mailkube.Event, 128)
    Idle        \* process waits for an event

ASSUME ReceiverAssumption == QueueCap \in Nat \ {0} /\ Idle \notin Delivery

VARIABLES
    seen,       \* the ids enqueue has seen
    marked,     \* attempts that left the mutex as the first of their id
    queue,      \* the channel
    working,    \* the event process is handling, or Idle
    processed   \* history: how often this run of the process handled each event

memory == <<seen, marked, queue, working>>
receiverVars == <<memory, processed>>
allVars == <<vars, receiverVars>>

ReceiverInit ==
    /\ Init
    /\ seen = {} /\ marked = {}
    /\ queue = <<>> /\ working = Idle
    /\ processed = [d \in Delivery |-> 0]

\* The critical section of enqueue, and the return of a duplicate after it.
MarkForgetsId(a) ==
    /\ phase[a] = "dispatching" /\ a \notin marked
    /\ IF a[1] \in seen
       THEN OnEventReturns(a, "nil") /\ UNCHANGED receiverVars
       ELSE /\ marked' = marked \cup {a}
            /\ UNCHANGED <<vars, seen, queue, working, processed>>
MarkOutsideLock(a) ==
    /\ phase[a] = "dispatching" /\ a \notin marked
    /\ IF a[1] \in seen /\ \A b \in marked : b[1] # a[1]
       THEN OnEventReturns(a, "nil") /\ UNCHANGED receiverVars
       ELSE /\ seen' = seen \cup {a[1]}
            /\ marked' = marked \cup {a}
            /\ UNCHANGED <<vars, queue, working, processed>>
Mark(a) ==
    /\ phase[a] = "dispatching" /\ a \notin marked
    /\ IF a[1] \in seen
       THEN OnEventReturns(a, "nil") /\ UNCHANGED receiverVars
       ELSE /\ seen' = seen \cup {a[1]}
            /\ marked' = marked \cup {a}
            /\ UNCHANGED <<vars, queue, working, processed>>

\* The select with a default: a full channel is an error, and the id stays seen.
EnqueueDropsWhenFull(a) ==
    /\ a \in marked
    /\ OnEventReturns(a, "nil")
    /\ queue' = IF Len(queue) < QueueCap - 1 THEN Append(queue, a[1]) ELSE queue
    /\ marked' = marked \ {a}
    /\ UNCHANGED <<seen, working, processed>>
Enqueue(a) ==
    /\ a \in marked
    /\ IF Len(queue) < QueueCap
       THEN OnEventReturns(a, "nil") /\ queue' = Append(queue, a[1])
       ELSE OnEventReturns(a, "error") /\ UNCHANGED queue
    /\ marked' = marked \ {a}
    /\ UNCHANGED <<seen, working, processed>>

\* process ranges over the channel.
TakeWaitsForTwo ==
    /\ working = Idle /\ Len(queue) > 1
    /\ working' = Head(queue) /\ queue' = Tail(queue)
    /\ UNCHANGED <<vars, seen, marked, processed>>
TakeWork ==
    /\ working = Idle /\ queue # <<>>
    /\ working' = Head(queue) /\ queue' = Tail(queue)
    /\ UNCHANGED <<vars, seen, marked, processed>>

FinishWork ==
    /\ working # Idle
    /\ processed' = [processed EXCEPT ![working] = @ + 1]
    /\ working' = Idle
    /\ UNCHANGED <<vars, seen, marked, queue>>

\* The process dies and starts again with nothing in memory; its history is that of the new run.
Restart ==
    /\ Crash
    /\ seen' = {} /\ marked' = {} /\ queue' = <<>> /\ working' = Idle
    /\ processed' = [d \in Delivery |-> 0]

ReceiverNext ==
    \/ ServeAndDeliver /\ UNCHANGED receiverVars
    \/ \E a \in Attempt : Mark(a) \/ Enqueue(a)
    \/ TakeWork \/ FinishWork
    \/ Restart

ReceiverSpec == ReceiverInit /\ [][ReceiverNext]_allVars

\* The goroutines that serve requests and the one that processes events are scheduled.
ReceiverFairness ==
    /\ WF_allVars(TakeWork) /\ WF_allVars(FinishWork)
    /\ \A a \in Attempt : WF_allVars(Mark(a)) /\ WF_allVars(Enqueue(a))

FairReceiverSpec == ReceiverSpec /\ ReceiverFairness

-------------------------------------------------------------------------------
\* The receiver's own variables keep their types, and an attempt that left the mutex to enqueue is
\* still in OnEvent and its id is seen.
ReceiverTypeOK ==
    /\ seen \subseteq Delivery
    /\ marked \subseteq Attempt
    /\ queue \in Seq(Delivery) /\ Len(queue) <= QueueCap
    /\ working \in Delivery \cup {Idle}
    /\ processed \in [Delivery -> Nat]
    /\ \A a \in marked : phase[a] = "dispatching" /\ a[1] \in seen

\* However often the platform retries a delivery and however its attempts overlap, every single run
\* of the process handles its event at most once ("Event.ID ... is the dedup key"), the first run
\* and each one after a restart.
ProcessedOncePerRun == \A d \in Delivery : processed[d] <= 1

\* The receiver holds the event of d: an attempt is about to queue it, or it is queued or handled.
Held(d) ==
    \/ \E a \in marked : a[1] = d
    \/ \E i \in 1..Len(queue) : queue[i] = d
    \/ working = d
    \/ processed[d] > 0

\* While the process runs, an event the platform counts as accepted, and will not send again, is
\* held ("Returning an error answers 500 and the platform retries").
AcceptedIsHeld == crashes = 0 => \A d \in Delivery : outcome[d] = "accepted" => Held(d)

\* An accepted event is handled in the end, unless the process dies with it in memory.
AcceptedIsProcessed ==
    \A d \in Delivery : outcome[d] = "accepted" ~> processed[d] > 0 \/ crashes > 0
===============================================================================
