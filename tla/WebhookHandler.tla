---------------------------- MODULE WebhookHandler ----------------------------
(***************************************************************************)
(* A webhook endpoint (webhooks_http.go, webhooks.go) and the platform     *)
(* that delivers to it.  net/http runs one goroutine per request; the      *)
(* platform gives an attempt ten seconds and retries with the same id, so  *)
(* several goroutines may be serving the same delivery, and one of them    *)
(* may still answer after the platform stopped listening.                  *)
(***************************************************************************)
EXTENDS Integers

CONSTANTS
    Delivery,       \* delivery ids, X-Webhook-Id
    MaxAttempts,    \* attempts the platform makes per delivery
    MaxCrashes,     \* bound: crashes of the receiving process
    Arrival,        \* the conditions in which requests arrive, see Shape
    OnErrorStatus   \* what fail writes for each status it is given

\* The statuses deliver and handshake hand to fail.
FailStatus == {400, 401, 413, 500}

\* What the checks of one request depend on: how far the body can be read, whether the three
\* headers are there, whether the timestamp is fresh when the clock is read, whether the signature
\* is that of the bytes read, and whether those bytes decode as an event.
Shape == [body : {"whole", "cutShort", "tooLarge"}, headers : BOOLEAN,
          fresh : BOOLEAN, signed : BOOLEAN, parses : BOOLEAN]

ASSUME HandlerAssumption ==
    /\ MaxAttempts \in Nat \ {0}
    /\ MaxCrashes \in Nat
    /\ Arrival \subseteq Shape
    /\ OnErrorStatus \in [FailStatus -> 200..599]

VARIABLES
    registered,     \* the platform saved the endpoint
    attempts,       \* attempts issued per delivery
    awaiting,       \* the platform waits for the answer to the last attempt
    outcome,        \* what the platform decided per delivery
    phase,          \* where each attempt is
    shape,          \* the condition each attempt arrived in
    status,         \* the status written for each attempt, 0 before
    handed,         \* history: the attempts whose OnEvent returned nil
    crashes         \* crashes so far

platformVars == <<registered, attempts, awaiting, outcome>>
requestVars == <<phase, shape, status, handed>>
vars == <<platformVars, requestVars, crashes>>

Attempt == Delivery \X (1..MaxAttempts)
Running == {"reading", "verifying", "dispatching"}
Phase == Running \cup {"unsent", "network", "lost", "answered", "aborted"}
Outcome == {"pending", "accepted", "exhausted"}

\* A request as the platform sends it.
Intact == [body |-> "whole", headers |-> TRUE, fresh |-> TRUE, signed |-> TRUE, parses |-> TRUE]

\* Only a 2xx answer accepts a delivery.
Accepts(s) == s \in 200..299

Init ==
    /\ registered = FALSE
    /\ attempts = [d \in Delivery |-> 0]
    /\ awaiting = [d \in Delivery |-> FALSE]
    /\ outcome = [d \in Delivery |-> "pending"]
    /\ phase = [a \in Attempt |-> "unsent"]
    /\ shape = [a \in Attempt |-> Intact]
    /\ status = [a \in Attempt |-> 0]
    /\ handed = {}
    /\ crashes = 0

-------------------------------------------------------------------------------
\* The handler.

Answer(a, s) == /\ phase' = [phase EXCEPT ![a] = "answered"]
                /\ status' = [status EXCEPT ![a] = s]

Advance(a, p) == phase' = [phase EXCEPT ![a] = p] /\ UNCHANGED status

\* fail: an OnError that is set owns the response.  It answers with a status of its own, or writes
\* nothing, and net/http then answers 200.
FailWithoutReturn(a, s) == status' = [status EXCEPT ![a] = OnErrorStatus[s]] /\ UNCHANGED phase
Fail(a, s) == Answer(a, OnErrorStatus[s])

\* handshake: a challenge, given by its length, is echoed unless it is empty or too long.
HandshakeWantsLonger(mode, length) ==
    IF mode = "subscribe" /\ length > 256
    THEN [status |-> 200, echo |-> length]
    ELSE [status |-> OnErrorStatus[400], echo |-> 0]
Handshake(mode, length) ==
    IF mode = "subscribe" /\ length \in 1..256
    THEN [status |-> 200, echo |-> length]
    ELSE [status |-> OnErrorStatus[400], echo |-> 0]

\* readBody, and the two ways deliver answers when it fails.
BodyStatus(body) == IF body = "tooLarge" THEN 413 ELSE 400

ReadBody(a) ==
    /\ phase[a] = "reading"
    /\ IF shape[a].body = "whole" THEN Advance(a, "verifying")
                                  ELSE Fail(a, BodyStatus(shape[a].body))
    /\ UNCHANGED <<platformVars, shape, handed, crashes>>

\* VerifySignature returns nil, not an error that wraps ErrSignatureVerification.
SignatureVerifiesStale(s) == s.headers /\ s.signed
SignatureVerifies(s) == s.headers /\ s.fresh /\ s.signed

\* Verify, and the two ways deliver answers when it fails.
Verify(a) ==
    /\ phase[a] = "verifying"
    /\ IF ~SignatureVerifies(shape[a]) THEN Fail(a, 401)
       ELSE IF ~shape[a].parses THEN Fail(a, 400)
       ELSE Advance(a, "dispatching")
    /\ UNCHANGED <<platformVars, shape, handed, crashes>>

\* OnEvent returns and deliver answers; a nil OnEvent answers as one that returns nil.  net/http
\* recovers a panic and closes the connection without an answer.
ReturnIgnoresError(a, result) ==
    /\ phase[a] = "dispatching"
    /\ IF result = "panic" THEN Advance(a, "aborted") ELSE Answer(a, 204)
    /\ handed' = handed \cup IF result = "nil" THEN {a} ELSE {}
    /\ UNCHANGED <<platformVars, shape, crashes>>
OnEventReturns(a, result) ==
    /\ phase[a] = "dispatching"
    /\ CASE result = "nil" -> Answer(a, 204)
         [] result = "error" -> Fail(a, 500)
         [] result = "panic" -> Advance(a, "aborted")
    /\ handed' = handed \cup IF result = "nil" THEN {a} ELSE {}
    /\ UNCHANGED <<platformVars, shape, crashes>>

\* The receiving process dies: every goroutine goes with it.
Crash ==
    /\ crashes < MaxCrashes
    /\ crashes' = crashes + 1
    /\ phase' = [a \in Attempt |-> IF phase[a] \in Running THEN "aborted" ELSE phase[a]]
    /\ UNCHANGED <<platformVars, shape, status, handed>>

-------------------------------------------------------------------------------
\* The platform and the network, as the comments and the rules of the SDK describe them.

\* The platform probes the URL with 32 hex characters and saves the endpoint if they come back.
Probe ==
    /\ ~registered
    /\ LET answer == Handshake("subscribe", 32)
       IN  registered' = (Accepts(answer.status) /\ answer.echo = 32)
    /\ UNCHANGED <<attempts, awaiting, outcome, requestVars, crashes>>

Send(d) ==
    /\ registered /\ outcome[d] = "pending" /\ ~awaiting[d]
    /\ attempts' = [attempts EXCEPT ![d] = @ + 1]
    /\ awaiting' = [awaiting EXCEPT ![d] = TRUE]
    /\ phase' = [phase EXCEPT ![<<d, attempts[d] + 1>>] = "network"]
    /\ UNCHANGED <<registered, outcome, shape, status, handed, crashes>>

Lose(a) ==
    /\ phase[a] = "network"
    /\ phase' = [phase EXCEPT ![a] = "lost"]
    /\ UNCHANGED <<platformVars, shape, status, handed, crashes>>

Arrive(a) ==
    /\ phase[a] = "network"
    /\ phase' = [phase EXCEPT ![a] = "reading"]
    /\ \E s \in Arrival : shape' = [shape EXCEPT ![a] = s]
    /\ UNCHANGED <<platformVars, status, handed, crashes>>

\* The last attempt at d ended, with a 2xx answer or without one.
Conclude(d, accepted) ==
    /\ awaiting' = [awaiting EXCEPT ![d] = FALSE]
    /\ outcome' = [outcome EXCEPT ![d] = IF accepted THEN "accepted"
                                         ELSE IF attempts[d] = MaxAttempts THEN "exhausted"
                                         ELSE "pending"]
    /\ UNCHANGED <<registered, attempts, requestVars, crashes>>

Receive(d) == LET a == <<d, attempts[d]>> IN
    /\ awaiting[d] /\ phase[a] = "answered"
    /\ Conclude(d, Accepts(status[a]))

\* Ten seconds passed, or the connection broke.
TimeOut(d) == awaiting[d] /\ Conclude(d, FALSE)

-------------------------------------------------------------------------------
\* Everything but what the application does.
ServeAndDeliver ==
    \/ Probe
    \/ \E d \in Delivery : Send(d) \/ Receive(d) \/ TimeOut(d)
    \/ \E a \in Attempt : Lose(a) \/ Arrive(a) \/ ReadBody(a) \/ Verify(a)

Next ==
    \/ ServeAndDeliver
    \/ \E a \in Attempt, result \in {"nil", "error", "panic"} : OnEventReturns(a, result)
    \/ Crash

Spec == Init /\ [][Next]_vars

\* The platform probes, sends and gives an attempt up on its own timer.  Nothing is assumed of the
\* network, of a body that is being read or of OnEvent: neither has a deadline in the handler.
Fairness ==
    /\ WF_vars(Probe)
    /\ \A d \in Delivery : WF_vars(Send(d)) /\ WF_vars(TimeOut(d))

FairSpec == Spec /\ Fairness

-------------------------------------------------------------------------------
\* Every variable keeps its type, and a status is written exactly when serving a request ends.
TypeOK ==
    /\ registered \in BOOLEAN
    /\ attempts \in [Delivery -> 0..MaxAttempts]
    /\ awaiting \in [Delivery -> BOOLEAN]
    /\ outcome \in [Delivery -> Outcome]
    /\ phase \in [Attempt -> Phase]
    /\ shape \in [Attempt -> Shape]
    /\ status \in [Attempt -> {0} \cup 200..599]
    /\ handed \subseteq Attempt
    /\ crashes \in 0..MaxCrashes
    /\ \A a \in Attempt : status[a] # 0 <=> phase[a] = "answered"

\* A delivery the platform counts as accepted is one whose OnEvent returned nil, whatever was
\* lost, retried, answered late or crashed in between (deliver writes 204 after OnEvent only).
AcceptedWasHanded ==
    \A d \in Delivery : outcome[d] = "accepted" => \E n \in 1..MaxAttempts : <<d, n>> \in handed

\* The answer the comment of ServeHTTP gives for an attempt: 204 once OnEvent returns, 401 for a
\* signature or freshness failure, 413 for an oversized body, 400 for a body that is not a
\* webhook, and 500 when OnEvent returns an error.
DocumentedStatus(a) ==
    LET s == shape[a] IN
    IF a \in handed THEN 204
    ELSE IF s = Intact THEN 500
    ELSE IF s.body = "tooLarge" THEN 413
    ELSE IF s.body = "whole" /\ ~(s.fresh /\ s.headers /\ s.signed) THEN 401
    ELSE 400

\* Every answer is the documented one for what happened to its request, and OnEvent was handed
\* only requests with nothing wrong with them.
AnswerIsDocumented ==
    /\ \A a \in Attempt : phase[a] = "answered" => status[a] = DocumentedStatus(a)
    /\ \A a \in handed : shape[a] = Intact

\* An endpoint that answers the handshake is registered, and every delivery is then accepted or
\* exhausts its attempts, whatever becomes of the requests (TimeOut).
DeliveriesSettle == \A d \in Delivery : <>[](outcome[d] # "pending")

\* The endpoint implements DeliveryContract: nothing is accepted that was not taken.
Contract == INSTANCE DeliveryContract WITH
    taken <- {d \in Delivery : \E n \in 1..MaxAttempts : <<d, n>> \in handed},
    accepted <- {d \in Delivery : outcome[d] = "accepted"}
ContractSpec == Contract!Spec
===============================================================================
