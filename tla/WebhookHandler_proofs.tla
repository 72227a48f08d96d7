------------------------ MODULE WebhookHandler_proofs -------------------------
(***************************************************************************)
(* Proofs about WebhookHandler for any deliveries, number of attempts,     *)
(* crashes, conditions of arrival and OnError.  IInv is inductive without  *)
(* a condition on OnError; the two theorems about answers add one.         *)
(***************************************************************************)
EXTENDS WebhookHandler, TLAPS

\* OnError never answers a failed delivery with a 2xx.
OnErrorRefuses == \A s \in FailStatus : ~Accepts(OnErrorStatus[s])

\* OnError is nil.
OnErrorIsNil == \A s \in FailStatus : OnErrorStatus[s] = s

\* What the platform's bookkeeping says of the attempts: only a pending delivery is awaited, one
\* that is neither awaited nor settled has attempts left, and none beyond the last is under way.
Issued ==
    \A d \in Delivery :
        /\ awaiting[d] => attempts[d] > 0 /\ outcome[d] = "pending"
        /\ outcome[d] = "pending" /\ ~awaiting[d] => attempts[d] < MaxAttempts
        /\ \A n \in 1..MaxAttempts : n > attempts[d] => phase[<<d, n>>] = "unsent"

\* What the place of a goroutine says of its request, and what its answer says of both.
Served ==
    \A a \in Attempt :
        /\ phase[a] = "verifying" => shape[a].body = "whole"
        /\ phase[a] = "dispatching" => shape[a] = Intact
        /\ a \in handed => phase[a] = "answered" /\ shape[a] = Intact
        /\ phase[a] = "answered" =>
               status[a] = IF a \in handed THEN 204 ELSE OnErrorStatus[DocumentedStatus(a)]

\* The inductive invariant: whatever OnError does, the status written for a request is decided by
\* the first check it fails, and a request is issued, served and answered once.
IInv == TypeOK /\ Issued /\ Served

-------------------------------------------------------------------------------
LEMMA InitIInv == Init => IInv
<1> SUFFICES ASSUME Init PROVE IInv
  OBVIOUS
<1> USE HandlerAssumption
<1>1. Intact \in Shape
  BY DEF Intact, Shape
<1>2. awaiting \in [Delivery -> BOOLEAN] /\ \A d \in Delivery : ~awaiting[d]
  BY Zenon DEF Init
<1>3. registered \in BOOLEAN
  BY Zenon DEF Init
<1>4. TypeOK
  BY <1>1, <1>2, <1>3 DEF Init, TypeOK, Outcome, Phase
<1>5. \A d \in Delivery : \A n \in 1..MaxAttempts : <<d, n>> \in Attempt
  BY DEF Attempt
<1>6. Issued
  <2>1. ASSUME NEW d \in Delivery PROVE attempts[d] < MaxAttempts
    BY DEF Init
  <2>2. ASSUME NEW d \in Delivery, NEW n \in 1..MaxAttempts PROVE phase[<<d, n>>] = "unsent"
    BY <1>5 DEF Init
  <2>3. QED
    BY <1>2, <2>1, <2>2 DEF Issued
<1>7. Served
  BY DEF Init, Served
<1>8. QED
  BY <1>4, <1>6, <1>7 DEF IInv

\* Answering a request being served with the status of its failure preserves the invariant.
LEMMA AnswerFailed ==
    ASSUME NEW a \in Attempt, IInv, phase[a] \in Running, a \notin handed,
           DocumentedStatus(a) \in FailStatus,
           Answer(a, OnErrorStatus[DocumentedStatus(a)]),
           UNCHANGED <<platformVars, shape, handed, crashes>>
    PROVE  IInv'
<1> USE HandlerAssumption DEF IInv
<1>1. OnErrorStatus[DocumentedStatus(a)] \in 200..599
  OBVIOUS
<1>2. TypeOK'
  BY <1>1 DEF Answer, TypeOK, Phase, platformVars
<1>3. Issued'
  BY DEF Answer, TypeOK, Issued, Running, Attempt, platformVars
<1>4. (DocumentedStatus(a))' = DocumentedStatus(a)
  BY DEF DocumentedStatus
<1>5. Served'
  BY <1>4 DEF Answer, TypeOK, Served, DocumentedStatus
<1>6. QED
  BY <1>2, <1>3, <1>5

LEMMA StepIInv == IInv /\ [Next]_vars => IInv'
<1> SUFFICES ASSUME IInv, [Next]_vars PROVE IInv'
  OBVIOUS
<1> USE HandlerAssumption DEF IInv
<1>1. CASE Probe
  BY <1>1 DEF Probe, Handshake, Accepts, TypeOK, Issued, Served, requestVars, DocumentedStatus
<1>2. ASSUME NEW d \in Delivery, Send(d) PROVE IInv'
  <2> DEFINE b == <<d, attempts[d] + 1>>
  <2>1. attempts[d] \in Nat /\ attempts[d] + 1 \in 1..MaxAttempts
    BY <1>2 DEF Send, TypeOK, Issued
  <2>2. b \in Attempt /\ phase[b] = "unsent" /\ b \notin handed
    BY <2>1 DEF TypeOK, Issued, Served, Attempt
  <2>3. TypeOK'
    BY <1>2, <2>1, <2>2 DEF Send, TypeOK, Phase
  <2>4. Issued'
    BY <1>2, <2>1, <2>2 DEF Send, TypeOK, Issued, Attempt
  <2>5. Served'
    <3>1. phase' = [phase EXCEPT ![b] = "network"] /\ UNCHANGED <<shape, status, handed>>
      BY <1>2 DEF Send
    <3>2. QED
      BY <2>2, <3>1 DEF TypeOK, Served, DocumentedStatus
  <2>6. QED
    BY <2>3, <2>4, <2>5
<1>3. ASSUME NEW d \in Delivery, NEW ok \in BOOLEAN, awaiting[d], Conclude(d, ok) PROVE IInv'
  <2>1. TypeOK'
    BY <1>3 DEF Conclude, TypeOK, Outcome, requestVars
  <2>2. Issued'
    BY <1>3 DEF Conclude, TypeOK, Issued, Outcome, requestVars
  <2>3. Served'
    BY <1>3 DEF Conclude, Served, requestVars, DocumentedStatus
  <2>4. QED
    BY <2>1, <2>2, <2>3
<1>4. ASSUME NEW a \in Attempt, Lose(a) PROVE IInv'
  BY <1>4 DEF Lose, TypeOK, Issued, Served, Phase, Attempt, platformVars, DocumentedStatus
<1>5. ASSUME NEW a \in Attempt, Arrive(a) PROVE IInv'
  BY <1>5 DEF Arrive, TypeOK, Issued, Served, Phase, Running, Attempt, platformVars, DocumentedStatus
<1>6. ASSUME NEW a \in Attempt, ReadBody(a) PROVE IInv'
  <2>1. phase[a] = "reading" /\ a \notin handed
    BY <1>6 DEF ReadBody, Served
  <2>2. CASE shape[a].body = "whole"
    <3>1. Advance(a, "verifying") /\ UNCHANGED <<platformVars, shape, handed, crashes>>
      BY <1>6, <2>2 DEF ReadBody
    <3>2. TypeOK'
      BY <2>1, <3>1 DEF Advance, TypeOK, Phase, Running, platformVars
    <3>3. Issued'
      BY <2>1, <3>1 DEF Advance, TypeOK, Issued, Attempt, platformVars
    <3>4. Served'
      BY <2>1, <2>2, <3>1 DEF Advance, TypeOK, Served, DocumentedStatus
    <3>5. QED
      BY <3>2, <3>3, <3>4
  <2>3. CASE shape[a].body # "whole"
    <3>1. /\ DocumentedStatus(a) = BodyStatus(shape[a].body)
          /\ BodyStatus(shape[a].body) \in FailStatus
      BY <2>1, <2>3 DEF TypeOK, Shape, DocumentedStatus, BodyStatus, FailStatus, Intact
    <3>2. Answer(a, OnErrorStatus[DocumentedStatus(a)]) /\ UNCHANGED <<platformVars, shape, handed, crashes>>
      BY <1>6, <2>3, <3>1 DEF ReadBody, Fail
    <3>3. DocumentedStatus(a) \in FailStatus
      BY <3>1
    <3>4. QED
      BY <2>1, <3>2, <3>3, AnswerFailed DEF Running
  <2>4. QED
    BY <2>2, <2>3
<1>7. ASSUME NEW a \in Attempt, Verify(a) PROVE IInv'
  <2>1. phase[a] = "verifying" /\ a \notin handed /\ shape[a].body = "whole" /\ shape[a] \in Shape
    BY <1>7 DEF Verify, Served, TypeOK
  <2>2. CASE SignatureVerifies(shape[a]) /\ shape[a].parses
    <3>1. shape[a] = Intact
      BY <2>1, <2>2 DEF SignatureVerifies, Shape, Intact
    <3>2. Advance(a, "dispatching") /\ UNCHANGED <<platformVars, shape, handed, crashes>>
      BY <1>7, <2>2 DEF Verify
    <3>3. TypeOK'
      BY <2>1, <3>2 DEF Advance, TypeOK, Phase, Running, platformVars
    <3>4. Issued'
      BY <2>1, <3>2 DEF Advance, TypeOK, Issued, Attempt, platformVars
    <3>5. Served'
      BY <2>1, <3>1, <3>2 DEF Advance, TypeOK, Served, DocumentedStatus
    <3>6. QED
      BY <3>3, <3>4, <3>5
  <2>3. CASE ~SignatureVerifies(shape[a])
    <3>1. DocumentedStatus(a) = 401 /\ 401 \in FailStatus
      BY <2>1, <2>3 DEF SignatureVerifies, DocumentedStatus, FailStatus, Intact
    <3>2. Answer(a, OnErrorStatus[DocumentedStatus(a)]) /\ UNCHANGED <<platformVars, shape, handed, crashes>>
      BY <1>7, <2>3, <3>1 DEF Verify, Fail
    <3>3. QED
      BY <2>1, <3>1, <3>2, AnswerFailed DEF Running
  <2>4. CASE SignatureVerifies(shape[a]) /\ ~shape[a].parses
    <3>1. DocumentedStatus(a) = 400 /\ 400 \in FailStatus
      BY <2>1, <2>4 DEF SignatureVerifies, DocumentedStatus, FailStatus, Intact
    <3>2. Answer(a, OnErrorStatus[DocumentedStatus(a)]) /\ UNCHANGED <<platformVars, shape, handed, crashes>>
      BY <1>7, <2>4, <3>1 DEF Verify, Fail
    <3>3. QED
      BY <2>1, <3>1, <3>2, AnswerFailed DEF Running
  <2>5. QED
    BY <2>2, <2>3, <2>4
<1>8. ASSUME NEW a \in Attempt, NEW result \in {"nil", "error", "panic"}, OnEventReturns(a, result)
      PROVE  IInv'
  <2>1. phase[a] = "dispatching" /\ a \notin handed /\ shape[a] = Intact
    BY <1>8 DEF OnEventReturns, Served
  <2>2. CASE result = "nil"
    <3>1. /\ Answer(a, 204) /\ handed' = handed \cup {a}
          /\ UNCHANGED <<platformVars, shape, crashes>>
      BY <1>8, <2>2 DEF OnEventReturns
    <3>2. TypeOK'
      BY <2>1, <3>1 DEF Answer, TypeOK, Phase, platformVars
    <3>3. Issued'
      BY <2>1, <3>1 DEF Answer, TypeOK, Issued, Attempt, platformVars
    <3>4. Served'
      BY <2>1, <3>1 DEF Answer, TypeOK, Served, DocumentedStatus
    <3>5. QED
      BY <3>2, <3>3, <3>4
  <2>3. CASE result = "error"
    <3>1. DocumentedStatus(a) = 500 /\ 500 \in FailStatus
      BY <2>1 DEF DocumentedStatus, FailStatus
    <3>2. Answer(a, OnErrorStatus[DocumentedStatus(a)]) /\ UNCHANGED <<platformVars, shape, handed, crashes>>
      BY <1>8, <2>3, <3>1 DEF OnEventReturns, Fail
    <3>3. QED
      BY <2>1, <3>1, <3>2, AnswerFailed DEF Running
  <2>4. CASE result = "panic"
    <3>1. Advance(a, "aborted") /\ UNCHANGED <<platformVars, shape, handed, crashes>>
      BY <1>8, <2>4 DEF OnEventReturns
    <3>2. QED
      BY <2>1, <3>1 DEF Advance, TypeOK, Issued, Served, Phase, Attempt, platformVars, DocumentedStatus
  <2>5. QED
    BY <2>2, <2>3, <2>4
<1>9. CASE Crash
  <2>1. TypeOK'
    BY <1>9 DEF Crash, TypeOK, Phase, Running, platformVars
  <2>2. Issued'
    BY <1>9 DEF Crash, TypeOK, Issued, Running, Attempt, platformVars
  <2>3. Served'
    BY <1>9 DEF Crash, TypeOK, Served, Running, DocumentedStatus
  <2>4. QED
    BY <2>1, <2>2, <2>3
<1>10. CASE UNCHANGED vars
  BY <1>10 DEF vars, requestVars, platformVars, TypeOK, Issued, Served, DocumentedStatus
<1>11. ASSUME NEW d \in Delivery, Receive(d) \/ TimeOut(d) PROVE IInv'
  <2>1. CASE TimeOut(d)
    BY <2>1, <1>3 DEF TimeOut
  <2>2. CASE Receive(d)
    <3>1. awaiting[d] /\ Conclude(d, Accepts(status[<<d, attempts[d]>>]))
      BY <2>2 DEF Receive
    <3>2. Accepts(status[<<d, attempts[d]>>]) \in BOOLEAN
      BY DEF Accepts
    <3>3. QED
      BY <3>1, <3>2, <1>3
  <2>3. QED
    BY <1>11, <2>1, <2>2
<1>12. QED
  BY <1>1, <1>2, <1>4, <1>5, <1>6, <1>7, <1>8, <1>9, <1>10, <1>11 DEF Next, ServeAndDeliver

\* The inductive invariant holds for any constants.
LEMMA Invariance == Spec => []IInv
BY InitIInv, StepIInv, PTL DEF Spec

\* Every variable keeps its type, for any constants.
THEOREM TypeCorrectness == Spec => []TypeOK
<1>1. IInv => TypeOK
  BY DEF IInv
<1>2. QED
  BY <1>1, Invariance, PTL

\* With no OnError set, every answer is the one the comment of ServeHTTP documents, and OnEvent is
\* handed only whole, fresh, correctly signed bodies that parse.
THEOREM AnswersDocumented == ASSUME OnErrorIsNil PROVE Spec => []AnswerIsDocumented
<1>1. ASSUME IInv PROVE AnswerIsDocumented
  <2>1. ASSUME NEW a \in Attempt, phase[a] = "answered" PROVE status[a] = DocumentedStatus(a)
    <3>1. CASE a \in handed
      BY <1>1, <2>1, <3>1 DEF IInv, Served, DocumentedStatus
    <3>2. CASE a \notin handed
      <4>1. DocumentedStatus(a) \in FailStatus
        BY <3>2 DEF DocumentedStatus, FailStatus
      <4>2. QED
        BY <1>1, <2>1, <3>2, <4>1, OnErrorIsNil DEF IInv, Served, OnErrorIsNil
    <3>3. QED
      BY <3>1, <3>2
  <2>2. ASSUME NEW a \in handed PROVE shape[a] = Intact
    BY <1>1, <2>2 DEF IInv, TypeOK, Served
  <2>3. QED
    BY <2>1, <2>2 DEF AnswerIsDocumented
<1>2. QED
  BY <1>1, Invariance, PTL

-------------------------------------------------------------------------------
\* An answer that accepts a delivery was written after OnEvent returned nil.
LEMMA AcceptingAnswer ==
    ASSUME OnErrorRefuses, IInv, NEW a \in Attempt, phase[a] = "answered", Accepts(status[a])
    PROVE  a \in handed
<1> SUFFICES ASSUME a \notin handed PROVE FALSE
  OBVIOUS
<1>1. DocumentedStatus(a) \in FailStatus
  BY DEF DocumentedStatus, FailStatus
<1>2. status[a] = OnErrorStatus[DocumentedStatus(a)]
  BY DEF IInv, Served
<1>3. QED
  BY <1>1, <1>2 DEF OnErrorRefuses

\* What a step does to the two variables of the contract: it leaves both alone, or OnEvent returns
\* nil for one attempt, or the platform accepts one delivery that was handed before.
LEMMA ContractStep ==
    ASSUME OnErrorRefuses, IInv, [Next]_vars
    PROVE  \/ /\ handed' = handed
              /\ \A d \in Delivery : outcome'[d] = "accepted" <=> outcome[d] = "accepted"
           \/ /\ \E a \in Attempt : handed' = handed \cup {a}
              /\ outcome' = outcome
           \/ /\ handed' = handed
              /\ \E d \in Delivery :
                    /\ outcome[d] # "accepted"
                    /\ \E n \in 1..MaxAttempts : <<d, n>> \in handed
                    /\ \A e \in Delivery : outcome'[e] = "accepted" <=> (outcome[e] = "accepted" \/ e = d)
<1>1. ASSUME NEW d \in Delivery, awaiting[d], Conclude(d, FALSE)
      PROVE  /\ handed' = handed
             /\ \A e \in Delivery : outcome'[e] = "accepted" <=> outcome[e] = "accepted"
  BY <1>1 DEF Conclude, requestVars, IInv, TypeOK, Issued
<1>2. ASSUME NEW d \in Delivery, Receive(d), Accepts(status[<<d, attempts[d]>>])
      PROVE  /\ handed' = handed
             /\ outcome[d] # "accepted"
             /\ \E n \in 1..MaxAttempts : <<d, n>> \in handed
             /\ \A e \in Delivery : outcome'[e] = "accepted" <=> (outcome[e] = "accepted" \/ e = d)
  <2> DEFINE a == <<d, attempts[d]>>
  <2>1. awaiting[d] /\ phase[a] = "answered" /\ Conclude(d, TRUE)
    BY <1>2 DEF Receive
  <2>2. attempts[d] \in 1..MaxAttempts /\ outcome[d] = "pending"
    BY <2>1, HandlerAssumption DEF IInv, TypeOK, Issued
  <2>3. a \in handed
    BY <1>2, <2>1, <2>2, AcceptingAnswer DEF Attempt
  <2>4. QED
    BY <2>1, <2>2, <2>3 DEF Conclude, requestVars, IInv, TypeOK
<1>3. CASE Probe \/ Crash \/ UNCHANGED vars
  BY <1>3 DEF Probe, Crash, vars, platformVars, requestVars
<1>4. CASE \E d \in Delivery : Send(d)
  BY <1>4 DEF Send
<1>5. CASE \E d \in Delivery : TimeOut(d)
  BY <1>1, <1>5 DEF TimeOut
<1>6. CASE \E d \in Delivery : Receive(d)
  <2>1. PICK d \in Delivery : Receive(d)
    BY <1>6
  <2>2. CASE Accepts(status[<<d, attempts[d]>>])
    BY <1>2, <2>1, <2>2
  <2>3. CASE ~Accepts(status[<<d, attempts[d]>>])
    <3>1. awaiting[d] /\ Conclude(d, Accepts(status[<<d, attempts[d]>>]))
      BY <2>1 DEF Receive
    <3>2. Accepts(status[<<d, attempts[d]>>]) = FALSE
      BY <2>3 DEF Accepts
    <3>3. awaiting[d] /\ Conclude(d, FALSE)
      BY Zenon, <3>1, <3>2
    <3>4. QED
      BY <1>1, <3>3
  <2>4. QED
    BY <2>2, <2>3
<1>7. CASE \E a \in Attempt : Lose(a) \/ Arrive(a) \/ ReadBody(a) \/ Verify(a)
  BY <1>7 DEF Lose, Arrive, ReadBody, Verify, platformVars
<1>8. CASE \E a \in Attempt, result \in {"nil", "error", "panic"} : OnEventReturns(a, result)
  BY <1>8 DEF OnEventReturns, platformVars
<1>9. QED
  BY <1>3, <1>4, <1>5, <1>6, <1>7, <1>8 DEF Next, ServeAndDeliver

\* If OnError never answers a failed delivery with a 2xx, the endpoint implements DeliveryContract:
\* the platform accepts nothing that OnEvent did not take, however its attempts overlap.
THEOREM ImplementsContract == ASSUME OnErrorRefuses PROVE Spec => ContractSpec
<1>1. Init => Contract!Init
  BY DEF Init, Contract!Init
<1>2. ASSUME IInv, [Next]_vars PROVE [Contract!Next]_(Contract!vars)
  <2>1. IInv /\ [Next]_vars
    BY <1>2
  <2>2. CASE /\ handed' = handed
             /\ \A d \in Delivery : outcome'[d] = "accepted" <=> outcome[d] = "accepted"
    BY <2>2 DEF Contract!vars
  <2>3. CASE outcome' = outcome /\ \E a \in Attempt : handed' = handed \cup {a}
    <3>1. PICK d \in Delivery, n \in 1..MaxAttempts : handed' = handed \cup {<<d, n>>}
      BY <2>3 DEF Attempt
    <3>2. Contract!Take(d)
      BY <2>3, <3>1 DEF Contract!Take
    <3>3. QED
      BY <3>2 DEF Contract!Next
  <2>4. CASE /\ handed' = handed
             /\ \E d \in Delivery :
                   /\ outcome[d] # "accepted"
                   /\ \E n \in 1..MaxAttempts : <<d, n>> \in handed
                   /\ \A e \in Delivery : outcome'[e] = "accepted" <=> (outcome[e] = "accepted" \/ e = d)
    <3>1. PICK d \in Delivery :
                   /\ outcome[d] # "accepted"
                   /\ \E n \in 1..MaxAttempts : <<d, n>> \in handed
                   /\ \A e \in Delivery : outcome'[e] = "accepted" <=> (outcome[e] = "accepted" \/ e = d)
      BY <2>4
    <3>2. Contract!Accept(d)
      BY <2>4, <3>1 DEF Contract!Accept
    <3>3. QED
      BY <3>2 DEF Contract!Next
  <2>5. QED
    BY <2>1, <2>2, <2>3, <2>4, ContractStep
<1>3. QED
  BY <1>1, <1>2, Invariance, PTL DEF ContractSpec, Contract!Spec, Spec

\* If OnError never answers a failed delivery with a 2xx, a delivery the platform counts as accepted
\* is one whose OnEvent returned nil.
THEOREM AcceptedHanded == ASSUME OnErrorRefuses PROVE Spec => []AcceptedWasHanded
<1>1. Init => AcceptedWasHanded
  BY DEF Init, AcceptedWasHanded
<1>2. ASSUME IInv, AcceptedWasHanded, [Next]_vars PROVE AcceptedWasHanded'
  BY <1>2, ContractStep DEF AcceptedWasHanded
<1>3. QED
  BY <1>1, <1>2, Invariance, PTL DEF Spec
===============================================================================
