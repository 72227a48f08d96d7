------------------------------ MODULE ClientCalls -----------------------------
(***************************************************************************)
(* Calls on one client (transport.go, emails.go, scheduled_emails.go,      *)
(* errors.go) and the API they reach.  Each job is one thing an            *)
(* application asks for: a send, a read, a change, perhaps of what another *)
(* job sent.  The SDK never retries, so a job that gets an error may call  *)
(* again with the same parameters; a request the client gave up on may     *)
(* still be on its way and be served later, out of order with its retry.   *)
(***************************************************************************)
EXTENDS Integers, FiniteSets

CONSTANTS
    Job,            \* what the application asks for
    Verbs,          \* the verbs each job may call
    KeyOf,          \* SendEmailParams.IdempotencyKey of each job, or NoKey
    NoKey,
    MaxTries,       \* calls an application makes for each job
    After,          \* the sends whose success each job waits for, and whose emails it manages
    Scheduling,     \* sends with ScheduledAt and BatchID: their emails join the one batch
    Unbuildable,    \* jobs for which newRequest fails
    Refusals,       \* statuses with which the API refuses without an effect
    Bodies          \* bodies a 2xx response carries

Key == {KeyOf[j] : j \in Job} \ {NoKey}
Try == UNION {{j} \X (1..MaxTries[j]) : j \in Job}   \* one call, and the id of its email
NoEmail == <<>>
Batch == {"updateBatch", "cancelBatch"}
Verb == Batch \cup {"send", "get", "update", "cancel"}

ASSUME ClientAssumption ==
    /\ Verbs \in [Job -> SUBSET Verb]
    /\ DOMAIN KeyOf = Job
    /\ MaxTries \in [Job -> Nat \ {0}]
    /\ Unbuildable \subseteq Job
    /\ After \in [Job -> SUBSET Job] /\ Scheduling \subseteq Job
    /\ \A j \in Job : \A p \in After[j] : Verbs[p] \subseteq {"send"}
    /\ \A s \in Refusals : s \in Nat /\ s >= 400
    /\ Bodies \subseteq {"model", "emptyObject", "null", "malformed"}

VARIABLES
    verb,           \* what each job calls
    builtClient,    \* New built the http.Client; an injected one follows redirects
    client,         \* where the goroutine of each call is
    result,         \* what each call returned
    wire,           \* the request or the response of each call on the network
    method,         \* the method of that request
    resp,           \* that response
    created,        \* emails the API accepted
    stored,         \* the email remembered for each idempotency key
    status,         \* what became of each email in the collection of scheduled emails
    effect          \* history: the emails each call canceled or moved

given == <<verb, builtClient>>
callVars == <<client, result>>
wireVars == <<wire, method, resp>>
emailVars == <<status, effect>>
serverVars == <<created, stored, emailVars>>
vars == <<given, callVars, wireVars, serverVars>>

\* A 2xx response carries the id of the email it is about, for a batch that of the call, whether it
\* was replayed and how many emails it affected; others carry a status.
Response(s, b, e, r, n) == [status |-> s, body |-> b, id |-> e, replayed |-> r, count |-> n]
Bare(s) == Response(s, "malformed", NoEmail, FALSE, 0)
Result(k, e, r, n) == [kind |-> k, id |-> e, replayed |-> r, count |-> n]
Err(k) == Result(k, NoEmail, FALSE, 0)

Init ==
    /\ verb \in [Job -> Verb] /\ \A j \in Job : verb[j] \in Verbs[j]
    /\ builtClient \in BOOLEAN
    /\ client = [t \in Try |-> "idle"]
    /\ result = [t \in Try |-> Err("none")]
    /\ wire = [t \in Try |-> "none"]
    /\ method = [t \in Try |-> "none"]
    /\ resp = [t \in Try |-> Bare(0)]
    /\ created = {}
    /\ stored = [k \in Key |-> NoEmail]
    /\ status = [e \in Try |-> "none"]
    /\ effect = [t \in Try |-> {}]

-------------------------------------------------------------------------------
\* The client.

\* sendSpec sets Idempotency-Key when the parameters have one.
SentKeyDropped(j) == NoKey
SentKey(j) == KeyOf[j]

\* The method of each verb's requestSpec; an empty one means POST.
MethodOf(j) == CASE verb[j] = "send" -> "POST"
                 [] verb[j] = "get" -> "GET"
                 [] verb[j] \in {"update", "updateBatch"} -> "PATCH"
                 [] verb[j] \in {"cancel", "cancelBatch"} -> "DELETE"

\* sentinelFor: the category of a status that is not 2xx.
statusSentinelsConfused ==
    [s \in {400, 403, 404, 409, 422, 429} |->
        CASE s = 400 -> "ErrBadRequest"
          [] s = 403 -> "ErrAuthentication"
          [] s \in {404, 409} -> "ErrConflict"
          [] s = 422 -> "ErrInvalidRequest"
          [] s = 429 -> "ErrRateLimit"]
statusSentinels ==
    [s \in {400, 403, 404, 409, 422, 429} |->
        CASE s = 400 -> "ErrBadRequest"
          [] s = 403 -> "ErrAuthentication"
          [] s = 404 -> "ErrNotFound"
          [] s = 409 -> "ErrConflict"
          [] s = 422 -> "ErrInvalidRequest"
          [] s = 429 -> "ErrRateLimit"]
sentinelFor(s) == IF s \in DOMAIN statusSentinels THEN statusSentinels[s]
                  ELSE IF s >= 500 THEN "ErrServer" ELSE "ErrAPI"

\* What sendEmail and fetch return for a response read in full.  sendEmail wants an id; fetch
\* wants a JSON object, and an object without any field is a zero-valued model.
DecodeTrustsBody(j, r) ==
    IF r.status \notin 200..299 THEN Err(sentinelFor(r.status))
    ELSE Result("ok", IF r.body = "model" THEN r.id ELSE NoEmail, r.replayed,
                IF r.body = "model" THEN r.count ELSE 0)
DecodeBodyFirst(j, r) ==
    IF r.body # "model" THEN Err("ErrUnexpectedResponse")
    ELSE IF r.status \notin 200..299 THEN Err(sentinelFor(r.status))
    ELSE Result("ok", r.id, r.replayed, r.count)
DecodeIgnoresReplay(j, r) ==
    IF r.status \notin 200..299 THEN Err(sentinelFor(r.status))
    ELSE IF r.body = "model" THEN Result("ok", r.id, FALSE, r.count)
    ELSE Err("ErrUnexpectedResponse")
DecodeUnreadableIsRefused(j, r) ==
    IF r.status \notin 200..299 THEN Err(sentinelFor(r.status))
    ELSE IF r.body = "model" THEN Result("ok", r.id, r.replayed, r.count)
    ELSE Err("ErrBadRequest")
Decode(j, r) ==
    IF r.status \notin 200..299 THEN Err(sentinelFor(r.status))
    ELSE IF r.body = "model" THEN Result("ok", r.id, r.replayed, r.count)
    ELSE IF r.body = "emptyObject" /\ verb[j] # "send" THEN Result("ok", NoEmail, FALSE, 0)
    ELSE Err("ErrUnexpectedResponse")

ReturnShadowsError(t, r) == client' = [client EXCEPT ![t] = "returned"] /\ UNCHANGED result
Return(t, r) == /\ client' = [client EXCEPT ![t] = "returned"]
                /\ result' = [result EXCEPT ![t] = r]

\* A job calls again after an error, and with a key even after a success.
Again(t) ==
    \A n \in 1..(t[2] - 1) :
        /\ client[<<t[1], n>>] = "returned"
        /\ result[<<t[1], n>>].kind = "ok" => KeyOf[t[1]] # NoKey

\* A program makes its calls in order, and those after a send only if it returned no error.
InOrder(j) == \A p \in After[j] : \E t \in Try : t[1] = p /\ result[t].kind = "ok"

\* The emails a job manages: it was given their ids by the sends before it.
Known(j) == {e \in Try : \E t \in Try : t[1] \in After[j] /\ result[t].kind = "ok" /\ result[t].id = e}

\* newRequest fails before anything is sent, or httpClient.Do sends the request.
Call(t) ==
    /\ client[t] = "idle" /\ Again(t) /\ InOrder(t[1])
    /\ IF t[1] \in Unbuildable
       THEN Return(t, Err("local")) /\ UNCHANGED wireVars
       ELSE /\ client' = [client EXCEPT ![t] = "waiting"]
            /\ wire' = [wire EXCEPT ![t] = "request"]
            /\ method' = [method EXCEPT ![t] = MethodOf(t[1])]
            /\ UNCHANGED <<result, resp>>
    /\ UNCHANGED <<given, serverVars>>

\* The headers of a response that is no redirect: Do returns and ReadAll starts.
Headers(t) ==
    /\ client[t] = "waiting" /\ wire[t] = "response" /\ resp[t].status \notin {302, 307}
    /\ client' = [client EXCEPT ![t] = "reading"]
    /\ UNCHANGED <<given, result, wireVars, serverVars>>

\* refuseRedirect ends the call with ErrConnection.  Go's own policy repeats the request: as it was
\* after a 307, as a GET without its body after a 302.
FollowRedirect(t) ==
    /\ wire' = [wire EXCEPT ![t] = "request"]
    /\ method' = [method EXCEPT ![t] = IF resp[t].status = 302 THEN "GET" ELSE @]
    /\ UNCHANGED <<callVars, resp>>
RedirectFollowed(t) ==
    /\ client[t] = "waiting" /\ wire[t] = "response" /\ resp[t].status \in {302, 307}
    /\ FollowRedirect(t)
    /\ UNCHANGED <<given, serverVars>>
Redirect(t) ==
    /\ client[t] = "waiting" /\ wire[t] = "response" /\ resp[t].status \in {302, 307}
    /\ IF builtClient THEN Return(t, Err("ErrConnection")) /\ UNCHANGED wireVars
                      ELSE FollowRedirect(t)
    /\ UNCHANGED <<given, serverVars>>

\* ReadAll returns the whole body, or its first 8 MiB, which is then malformed.
ReadBody(t) ==
    /\ client[t] = "reading"
    /\ Return(t, Decode(t[1], resp[t]))
    /\ UNCHANGED <<given, wireVars, serverVars>>

\* The timeout of the http.Client, the caller's context or the connection may end the call, in Do or
\* in ReadAll.  An injected client, or WithTimeout(0), has no timeout, so none is certain.
GiveUp(t) ==
    /\ client[t] \in {"waiting", "reading"}
    /\ Return(t, Err("ErrConnection"))
    /\ UNCHANGED <<given, wireVars, serverVars>>

-------------------------------------------------------------------------------
\* The API, as the comments, the examples and the tests of the SDK use it, and the network.

\* A request or a response that is lost is one that never gets further.  Nobody reads the response
\* to a call that has returned.
Respond(t, r) ==
    /\ wire' = [wire EXCEPT ![t] = "response"]
    /\ resp' = IF client[t] = "returned" THEN resp ELSE [resp EXCEPT ![t] = r]

\* No effect: a refusal, a failure, or, once per call, a redirect.  A redirect has a Location, for
\* http.Client returns one without it as it is, and sentinelFor makes ErrAPI of it.
Refuse(t) ==
    /\ \E s \in Refusals \cup (IF resp[t].status = 0 THEN {302, 307} ELSE {}) : Respond(t, Bare(s))
    /\ UNCHANGED serverVars

\* The first response for a key is remembered and replayed for the same body, and the key is
\* refused for another body.  The API may fail after it accepted an email.
ServeSend(t) == LET k == SentKey(t[1]) IN
    /\ method[t] = "POST" /\ UNCHANGED effect
    /\ IF k \in Key /\ stored[k] # NoEmail
       THEN /\ IF stored[k][1] = t[1]
               THEN \E b \in Bodies : Respond(t, Response(200, b, stored[k], TRUE, 0))
               ELSE Respond(t, Bare(409))
            /\ UNCHANGED <<created, stored, status>>
       ELSE /\ created' = created \cup {t}
            /\ stored' = [x \in Key |-> IF x = k THEN t ELSE stored[x]]
            /\ status' = [status EXCEPT ![t] = IF t[1] \in Scheduling THEN "scheduled" ELSE @]
            /\ \/ \E b \in Bodies : Respond(t, Response(200, b, t, FALSE, 0))
               \/ Respond(t, Bare(500))

Change(t, emails) ==
    /\ effect' = [effect EXCEPT ![t] = emails]
    /\ status' = [e \in Try |-> IF e \in emails /\ method[t] = "DELETE" THEN "canceled" ELSE status[e]]

\* An item that is not in the collection any more is not found, and one that is but is not pending
\* is refused to a change.
ServeItem(t) ==
    /\ verb[t[1]] \in {"get", "update", "cancel"} /\ method[t] # "POST" /\ UNCHANGED <<created, stored>>
    /\ \E e \in Known(t[1]) :
        \/ /\ status[e] \in {"none", "sent"}
           /\ Respond(t, Bare(404)) /\ UNCHANGED emailVars
        \/ /\ status[e] \in {"canceled", "failed"} /\ method[t] # "GET"
           /\ Respond(t, Bare(409)) /\ UNCHANGED emailVars
        \/ /\ status[e] \in {"scheduled", "canceled", "failed"} /\ method[t] = "GET" /\ UNCHANGED emailVars
           /\ \E b \in Bodies : Respond(t, Response(200, b, e, FALSE, 0))
        \/ /\ status[e] = "scheduled" /\ method[t] # "GET" /\ Change(t, {e})
           /\ \E b \in Bodies : Respond(t, Response(200, b, e, FALSE, 0))

\* A batch verb affects what is pending, and a batch without a pending email is nothing to do.
ServeBatch(t) == LET pending == {e \in Try : status[e] = "scheduled"} IN
    /\ verb[t[1]] \in Batch /\ method[t] \in {"PATCH", "DELETE"} /\ UNCHANGED <<created, stored>>
    /\ Change(t, pending)
    /\ \E b \in Bodies : Respond(t, Response(200, b, t, FALSE, Cardinality(pending)))

\* What a redirect made of a send or of a change to a batch.
ServeRedirected(t) ==
    /\ verb[t[1]] \in Batch \cup {"send"} /\ method[t] = "GET" /\ UNCHANGED serverVars
    /\ \E b \in Bodies : Respond(t, Response(200, b, t, FALSE, 0))

Serve(t) ==
    /\ wire[t] = "request"
    /\ Refuse(t) \/ ServeSend(t) \/ ServeItem(t) \/ ServeBatch(t) \/ ServeRedirected(t)
    /\ UNCHANGED <<given, callVars, method>>

\* A scheduled email is due: it goes out and leaves the collection, or it fails and stays in it.
Due(e) ==
    /\ status[e] = "scheduled"
    /\ \E s \in {"sent", "failed"} : status' = [status EXCEPT ![e] = s]
    /\ UNCHANGED <<given, callVars, wireVars, created, stored, effect>>

-------------------------------------------------------------------------------
Next ==
    \E t \in Try : Call(t) \/ Headers(t) \/ Redirect(t) \/ ReadBody(t) \/ GiveUp(t) \/ Serve(t) \/ Due(t)

Spec == Init /\ [][Next]_vars

-------------------------------------------------------------------------------
APIKinds == {"ErrBadRequest", "ErrAuthentication", "ErrNotFound", "ErrConflict", "ErrInvalidRequest",
             "ErrRateLimit", "ErrServer", "ErrAPI"}
Kinds == APIKinds \cup {"none", "ok", "local", "ErrConnection", "ErrUnexpectedResponse"}

\* errors.Is: what an error matches beside its own sentinel.  newRequest's own errors wrap none.
Is(kind, target) ==
    \/ kind = target
    \/ target = "ErrAPI" /\ kind \in APIKinds
    \/ target = "ErrMailkube" /\ kind \notin {"none", "ok", "local"}

Counts == {Cardinality(emails) : emails \in SUBSET Try}

\* Every variable keeps its type, and a call has a result exactly when it returned.
TypeOK ==
    /\ verb \in [Job -> Verb] /\ builtClient \in BOOLEAN
    /\ client \in [Try -> {"idle", "waiting", "reading", "returned"}]
    /\ result \in [Try -> [kind : Kinds, id : Try \cup {NoEmail}, replayed : BOOLEAN,
                           count : Counts \cup {0}]]
    /\ wire \in [Try -> {"none", "request", "response"}]
    /\ method \in [Try -> {"none", "POST", "PATCH", "DELETE", "GET"}]
    /\ resp \in [Try -> [status : {0, 200, 302, 307, 404, 409, 500} \cup Refusals,
                         body : {"model", "emptyObject", "null", "malformed"},
                         id : Try \cup {NoEmail}, replayed : BOOLEAN, count : Counts \cup {0}]]
    /\ created \subseteq Try
    /\ stored \in [Key -> Try \cup {NoEmail}]
    /\ status \in [Try -> {"none", "scheduled", "canceled", "sent", "failed"}]
    /\ effect \in [Try -> SUBSET Try]
    /\ \A t \in Try : client[t] = "returned" <=> result[t].kind # "none"

\* However often a job with an idempotency key is retried, and whenever its lost and late requests
\* are served, the API accepts at most one email for that key.
SendOncePerKey ==
    \A t, u \in created : KeyOf[t[1]] = KeyOf[u[1]] /\ KeyOf[t[1]] # NoKey => t = u

SendOk(t) == builtClient /\ result[t].kind = "ok" /\ verb[t[1]] = "send"

\* With the client New builds, a send that returns no error hands its caller the id of an email the
\* API accepted from that very job: never another caller's, never none, never the one of a key that
\* was used for another message.
SuccessIsOwnEmail ==
    \A t \in Try : SendOk(t) => result[t].id \in created /\ result[t].id[1] = t[1]

\* Of all calls with one key, however many goroutines and retries make them, those that return no
\* error return the same id, and they are calls of one message: "same id returned: the retry was
\* replayed, not resent", and a key reused for another message is never a success.
KeyHasOneAnswer ==
    \A t, u \in Try :
        SendOk(t) /\ SendOk(u) /\ KeyOf[t[1]] = KeyOf[u[1]] /\ KeyOf[t[1]] # NoKey =>
            t[1] = u[1] /\ result[t].id = result[u].id

\* Email.IdempotentReplayed is true exactly when an earlier call created the email.
ReplayedIsTrue ==
    \A t \in Try : SendOk(t) => (result[t].replayed <=> result[t].id # t)

\* What an error says of its call: one of newRequest's was never sent, a refusal had no effect, and
\* after ErrUnexpectedResponse the API did accept the email ("the request succeeded as far as the
\* server is concerned").
CategoryTellsEffect ==
    \A t \in Try : LET k == result[t].kind IN
        /\ k = "local" => wire[t] = "none" /\ t \notin created
        /\ Is(k, "ErrAPI") /\ k \notin {"ErrServer", "ErrAPI"} => t \notin created /\ effect[t] = {}
        /\ builtClient /\ k = "ErrUnexpectedResponse" /\ verb[t[1]] = "send" =>
               \E u \in created : u[1] = t[1]

\* With the client New builds, a change that returns no error was made: a redirect never turns it
\* into a read that answers 200 and "reports a cancellation that never happened".  A batch verb
\* reports as many emails as it affected, and leaves none as it was that its program had sent.
ChangeIsMade ==
    \A t \in Try : LET v == verb[t[1]] IN
        builtClient /\ result[t].kind = "ok" =>
            /\ v \in {"update", "cancel"} => effect[t] = {result[t].id}
            /\ v \in {"cancel", "cancelBatch"} => \A e \in effect[t] : status[e] = "canceled"
            /\ v \in Batch => /\ result[t].count = Cardinality(effect[t])
                              /\ \A e \in Known(t[1]) \ effect[t] : status[e] # "scheduled"

\* While the API refuses nothing else with these statuses, ErrNotFound tells a caller that the email
\* has gone out ("a send that has already gone out has left the collection") and ErrConflict that it
\* never will: it was canceled, perhaps by the caller's own earlier call, or it failed when it was due.
RefusalTellsState ==
    \A t \in Try : builtClient /\ verb[t[1]] \in {"get", "update", "cancel"} =>
        /\ Is(result[t].kind, "ErrNotFound") => \A e \in Known(t[1]) : status[e] = "sent"
        /\ Is(result[t].kind, "ErrConflict") =>
               \A e \in Known(t[1]) : status[e] \in {"canceled", "failed"}

\* What the package comment says: "Everything this package returns matches ErrMailkube."
EveryErrorMatchesBase ==
    \A t \in Try : result[t].kind \notin {"none", "ok"} => Is(result[t].kind, "ErrMailkube")

\* What transport.go says of fetch: a 2xx body "is ErrUnexpectedResponse, never a zero-valued
\* model".
FetchIsNeverZeroValued ==
    \A t \in Try : result[t].kind = "ok" => result[t].id # NoEmail
===============================================================================
