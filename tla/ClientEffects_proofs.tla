------------------------- MODULE ClientEffects_proofs --------------------------
(***************************************************************************)
(* Proofs about ClientCalls: what the result of a call says of its effect. *)
(* They rest on following each call by itself: until its request is served *)
(* it has no effect, it is served with an effect at most once, and what    *)
(* the response on its way to the caller says stays true.                  *)
(***************************************************************************)
EXTENDS ClientCalls_proofs

Success(s) == s \in 200..299
Refusing(k) == Is(k, "ErrAPI") /\ k \notin {"ErrServer", "ErrAPI"}
NoEffect(t) == t \notin created /\ effect[t] = {}

\* The response to a call that its goroutine has not read yet.
OnItsWay(t) == client[t] \in {"waiting", "reading"} /\ wire[t] = "response"

\* A call has no effect before its request is served, nor after it was refused.
Flow(t) ==
    /\ client[t] = "idle" => wire[t] = "none"
    /\ client[t] = "waiting" => wire[t] # "none"
    /\ client[t] = "reading" => wire[t] = "response"
    /\ wire[t] # "none" => method[t] # "none"
    /\ result[t].kind = "local" => wire[t] = "none"
    /\ wire[t] # "response" => NoEffect(t)
    /\ OnItsWay(t) /\ ~Success(resp[t].status) /\ resp[t].status # 500 => NoEffect(t)
    /\ result[t].kind \notin {"none", "local", "ErrConnection"} => wire[t] = "response"
    /\ Refusing(result[t].kind) => NoEffect(t)
Flows == \A t \in Try : Flow(t)

\* The collection of scheduled emails has the accepted ones of scheduling sends.
Listed == \A e \in Try :
    /\ status[e] # "none" => e \in created
    /\ e \in created /\ e[1] \in Scheduling => status[e] # "none"

\* Each job calls a verb of its own.
Chosen == \A j \in Job : verb[j] \in Verbs[j]

\* Whatever has called did so in its turn.
Ordered == \A t \in Try : client[t] # "idle" => Again(t) /\ InOrder(t[1])

\* A send's answer is replayed exactly when it is about an earlier email.
Replay(t) ==
    /\ OnItsWay(t) /\ Success(resp[t].status) => (resp[t].replayed <=> resp[t].id # t)
    /\ result[t].kind = "ok" => (result[t].replayed <=> result[t].id # t)
Replays == builtClient => \A t \in Try : verb[t[1]] = "send" => Replay(t)

\* What a success says of a change.
Made(t, id, count) == LET v == verb[t[1]] IN
    /\ v \in {"update", "cancel"} => effect[t] = {id}
    /\ v \in {"cancel", "cancelBatch"} => \A e \in effect[t] : status[e] = "canceled"
    /\ v \in Batch => /\ count = Cardinality(effect[t])
                      /\ \A e \in Known(t[1]) \ effect[t] : status[e] # "scheduled"
Making(t) ==
    /\ method[t] \in {"none", MethodOf(t[1])}
    /\ resp[t].body # "emptyObject"
    /\ OnItsWay(t) /\ Success(resp[t].status) => Made(t, resp[t].id, resp[t].count)
    /\ result[t].kind = "ok" => Made(t, result[t].id, result[t].count)
Makes == builtClient => \A t \in Try : Making(t)

\* What a refusal says of the email that its job manages.
Stopped == {"canceled", "failed"}
Settled(j, S) == \A e \in Known(j) : status[e] \in S
Telling(t) ==
    /\ method[t] \in {"none", MethodOf(t[1])}
    /\ OnItsWay(t) /\ resp[t].status = 404 => Settled(t[1], {"sent"})
    /\ OnItsWay(t) /\ resp[t].status = 409 => Settled(t[1], Stopped)
    /\ result[t].kind = "ErrNotFound" => Settled(t[1], {"sent"})
    /\ result[t].kind = "ErrConflict" => Settled(t[1], Stopped)
Tells == builtClient => \A t \in Try : verb[t[1]] \in {"get", "update", "cancel"} => Telling(t)

-------------------------------------------------------------------------------
\* How a request is served: the response to it, and its effect.
ByRefusal(t, r) == \E s :
    /\ r = Bare(s) /\ ~Success(s) /\ UNCHANGED serverVars
    /\ verb[t[1]] \in {"get", "update", "cancel"} /\ method[t] # "POST" /\ s \notin Refusals =>
          /\ s = 404 => \E e \in Known(t[1]) : status[e] \in {"none", "sent"}
          /\ s = 409 => \E e \in Known(t[1]) : status[e] \in Stopped
ByReplay(t, r) == LET k == SentKey(t[1]) IN
    /\ method[t] = "POST" /\ k \in Key /\ stored[k] # NoEmail /\ UNCHANGED serverVars
    /\ \E b \in Bodies : r = Response(200, b, stored[k], TRUE, 0)
ByAcceptance(t, r) ==
    /\ method[t] = "POST" /\ created' = created \cup {t} /\ UNCHANGED effect
    /\ status' = [status EXCEPT ![t] = IF t[1] \in Scheduling THEN "scheduled" ELSE @]
    /\ r = Bare(500) \/ \E b \in Bodies : r = Response(200, b, t, FALSE, 0)
ByReading(t, r) ==
    /\ method[t] = "GET" /\ UNCHANGED serverVars
    /\ \E b \in Bodies, e \in Try : r = Response(200, b, e, FALSE, 0)
ByChange(t, r) == \E emails \in SUBSET {e \in Try : status[e] = "scheduled"} :
    /\ method[t] \notin {"POST", "GET"} /\ Change(t, emails) /\ UNCHANGED created
    /\ \/ /\ verb[t[1]] \notin Batch
          /\ \E e \in Try, b \in Bodies : emails = {e} /\ r = Response(200, b, e, FALSE, 0)
       \/ /\ verb[t[1]] \in Batch /\ emails = {e \in Try : status[e] = "scheduled"}
          /\ \E b \in Bodies : r = Response(200, b, t, FALSE, Cardinality(emails))
By(t, r) == ByRefusal(t, r) \/ ByReplay(t, r) \/ ByAcceptance(t, r) \/ ByReading(t, r) \/ ByChange(t, r)

\* Every request is served in one of these ways.
LEMMA ServedBy ==
    ASSUME TypeOK, NEW t \in Try, Serve(t)
    PROVE  /\ wire[t] = "request" /\ UNCHANGED <<given, callVars, method>>
           /\ \E r : Respond(t, r) /\ By(t, r)
<1>1. wire[t] = "request" /\ UNCHANGED <<given, callVars, method>>
  BY Zenon DEF Serve
<1>2. CASE Refuse(t)
  <2>1. PICK s \in Refusals \cup (IF resp[t].status = 0 THEN {302, 307} ELSE {}) : Respond(t, Bare(s))
    BY <1>2 DEF Refuse
  <2>2. s \in Refusals \cup {302, 307}
    BY <2>1
  <2>3. ~Success(s) /\ (s \notin Refusals => s \notin {404, 409})
    BY <2>2, RefusalIsNoSuccess DEF Success
  <2>4. UNCHANGED serverVars
    BY <1>2 DEF Refuse
  <2>5. ByRefusal(t, Bare(s))
    BY <2>3, <2>4 DEF ByRefusal
  <2> QED
    BY <1>1, <2>1, <2>5 DEF By
<1>3. CASE ServeSend(t)
  <2> DEFINE k == SentKey(t[1])
  <2>1. method[t] = "POST" /\ UNCHANGED effect
    BY <1>3 DEF ServeSend
  <2>2. CASE k \in Key /\ stored[k] # NoEmail /\ stored[k][1] = t[1]
    <3>1. PICK b \in Bodies : Respond(t, Response(200, b, stored[k], TRUE, 0))
      BY <1>3, <2>2, Zenon DEF ServeSend
    <3>2. UNCHANGED serverVars
      BY <1>3, <2>1, <2>2 DEF ServeSend, serverVars, emailVars
    <3>3. ByReplay(t, Response(200, b, stored[k], TRUE, 0))
      BY <2>1, <2>2, <3>2 DEF ByReplay
    <3> QED
      BY <1>1, <3>1, <3>3 DEF By
  <2>3. CASE k \in Key /\ stored[k] # NoEmail /\ stored[k][1] # t[1]
    <3>1. Respond(t, Bare(409))
      BY <1>3, <2>3, Zenon DEF ServeSend
    <3>2. UNCHANGED serverVars
      BY <1>3, <2>1, <2>3 DEF ServeSend, serverVars, emailVars
    <3>3. ByRefusal(t, Bare(409))
      BY <2>1, <3>2 DEF ByRefusal, Success
    <3> QED
      BY <1>1, <3>1, <3>3 DEF By
  <2>4. CASE ~(k \in Key /\ stored[k] # NoEmail)
    <3>1. /\ created' = created \cup {t}
          /\ status' = [status EXCEPT ![t] = IF t[1] \in Scheduling THEN "scheduled" ELSE @]
      BY <1>3, <2>4 DEF ServeSend
    <3>2. PICK r : /\ r = Bare(500) \/ \E b \in Bodies : r = Response(200, b, t, FALSE, 0)
                   /\ Respond(t, r)
      BY <1>3, <2>4, Zenon DEF ServeSend
    <3>3. ByAcceptance(t, r)
      BY <2>1, <3>1, <3>2 DEF ByAcceptance
    <3> QED
      BY <1>1, <3>2, <3>3 DEF By
  <2> QED
    BY <2>2, <2>3, <2>4
<1>4. CASE ServeItem(t)
  <2>1. /\ verb[t[1]] \in {"get", "update", "cancel"} /\ verb[t[1]] \notin Batch /\ method[t] # "POST"
        /\ UNCHANGED <<created, stored>>
    BY <1>4 DEF ServeItem, Batch
  <2>2. PICK e \in Known(t[1]) :
          \/ /\ status[e] \in {"none", "sent"}
             /\ Respond(t, Bare(404)) /\ UNCHANGED emailVars
          \/ /\ status[e] \in Stopped /\ Respond(t, Bare(409)) /\ UNCHANGED emailVars
          \/ /\ method[t] = "GET" /\ UNCHANGED emailVars
             /\ \E b \in Bodies : Respond(t, Response(200, b, e, FALSE, 0))
          \/ /\ status[e] = "scheduled" /\ method[t] # "GET" /\ Change(t, {e})
             /\ \E b \in Bodies : Respond(t, Response(200, b, e, FALSE, 0))
    BY <1>4, Zenon DEF ServeItem, Stopped
  <2>3. e \in Try
    BY DEF Known
  <2>4. UNCHANGED emailVars => UNCHANGED serverVars
    BY <2>1 DEF serverVars
  <2>5. CASE status[e] \in {"none", "sent"} /\ Respond(t, Bare(404)) /\ UNCHANGED emailVars
    <3>1. ByRefusal(t, Bare(404))
      BY <2>4, <2>5 DEF ByRefusal, Success
    <3> QED
      BY <1>1, <2>5, <3>1 DEF By
  <2>6. CASE status[e] \in Stopped /\ Respond(t, Bare(409)) /\ UNCHANGED emailVars
    <3>1. ByRefusal(t, Bare(409))
      BY <2>4, <2>6 DEF ByRefusal, Success
    <3> QED
      BY <1>1, <2>6, <3>1 DEF By
  <2>7. CASE /\ method[t] = "GET" /\ UNCHANGED emailVars
             /\ \E b \in Bodies : Respond(t, Response(200, b, e, FALSE, 0))
    <3>1. PICK b \in Bodies : Respond(t, Response(200, b, e, FALSE, 0))
      BY <2>7
    <3>2. ByReading(t, Response(200, b, e, FALSE, 0))
      BY <2>3, <2>4, <2>7 DEF ByReading
    <3> QED
      BY <1>1, <3>1, <3>2 DEF By
  <2>8. CASE /\ status[e] = "scheduled" /\ method[t] # "GET" /\ Change(t, {e})
             /\ \E b \in Bodies : Respond(t, Response(200, b, e, FALSE, 0))
    <3>1. PICK b \in Bodies : Respond(t, Response(200, b, e, FALSE, 0))
      BY <2>8
    <3>2. {e} \in SUBSET {x \in Try : status[x] = "scheduled"}
      BY <2>3, <2>8
    <3>3. ByChange(t, Response(200, b, e, FALSE, 0))
      BY <2>1, <2>3, <2>8, <3>2 DEF ByChange
    <3> QED
      BY <1>1, <3>1, <3>3 DEF By
  <2> QED
    BY <2>2, <2>5, <2>6, <2>7, <2>8
<1>5. CASE ServeBatch(t)
  <2> DEFINE pending == {e \in Try : status[e] = "scheduled"}
  <2>1. /\ verb[t[1]] \in Batch /\ method[t] \notin {"POST", "GET"} /\ UNCHANGED created
        /\ Change(t, pending)
    BY <1>5 DEF ServeBatch
  <2>2. PICK b \in Bodies : Respond(t, Response(200, b, t, FALSE, Cardinality(pending)))
    BY <1>5, Zenon DEF ServeBatch
  <2>3. ByChange(t, Response(200, b, t, FALSE, Cardinality(pending)))
    BY <2>1 DEF ByChange
  <2> QED
    BY <1>1, <2>2, <2>3 DEF By
<1>6. CASE ServeRedirected(t)
  <2>1. PICK b \in Bodies : Respond(t, Response(200, b, t, FALSE, 0))
    BY <1>6, Zenon DEF ServeRedirected
  <2>2. ByReading(t, Response(200, b, t, FALSE, 0))
    BY <1>6 DEF ByReading, ServeRedirected
  <2> QED
    BY <1>1, <2>1, <2>2 DEF By
<1> QED
  BY <1>2, <1>3, <1>4, <1>5, <1>6 DEF Serve

\* What a response without a body says of itself.
LEMMA BareFields == \A s : Bare(s).status = s /\ Bare(s).body = "malformed"
BY DEF Bare, Response

-------------------------------------------------------------------------------
\* A step that is not of a call leaves it alone.
Same(t) ==
    /\ client'[t] = client[t] /\ result'[t] = result[t]
    /\ wire'[t] = wire[t] /\ method'[t] = method[t] /\ resp'[t] = resp[t]
    /\ effect'[t] = effect[t] /\ (t \in created' <=> t \in created)

\* The emails do not change.
Calm == UNCHANGED <<created, status, effect>>

\* What a call's own steps do to it.
Called(t) ==
    /\ client[t] = "idle" /\ Again(t) /\ InOrder(t[1]) /\ Calm /\ resp'[t] = resp[t]
    /\ \/ /\ client'[t] = "returned" /\ result'[t] = Err("local")
          /\ wire'[t] = wire[t] /\ method'[t] = method[t]
       \/ /\ client'[t] = "waiting" /\ result'[t] = result[t]
          /\ wire'[t] = "request" /\ method'[t] = MethodOf(t[1])
Reads(t) ==
    /\ client[t] = "waiting" /\ wire[t] = "response" /\ client'[t] = "reading" /\ Calm
    /\ result'[t] = result[t] /\ wire'[t] = wire[t] /\ method'[t] = method[t] /\ resp'[t] = resp[t]
Redirected(t) ==
    /\ client[t] = "waiting" /\ wire[t] = "response" /\ resp[t].status \in {302, 307} /\ Calm
    /\ client'[t] = client[t] /\ result'[t] = result[t] /\ wire'[t] = "request" /\ ~builtClient
    /\ resp'[t] = resp[t] /\ method'[t] \in {"GET", method[t]}
Returned(t) ==
    /\ \/ client[t] \in {"waiting", "reading"} /\ result'[t] = Err("ErrConnection")
       \/ client[t] = "reading" /\ result'[t] = Decode(t[1], resp[t])
    /\ client'[t] = "returned" /\ Calm
    /\ wire'[t] = wire[t] /\ method'[t] = method[t] /\ resp'[t] = resp[t]
Served(t) ==
    /\ wire[t] = "request" /\ wire'[t] = "response"
    /\ client'[t] = client[t] /\ result'[t] = result[t] /\ method'[t] = method[t]
    /\ \E r : By(t, r) /\ resp'[t] = IF client[t] = "returned" THEN resp[t] ELSE r

\* Serving a request touches no other call.
LEMMA ByTouches ==
    ASSUME TypeOK, NEW t \in Try, NEW r, By(t, r)
    PROVE  /\ created \subseteq created' /\ created' \subseteq created \cup {t}
           /\ \A u \in Try : u # t => effect'[u] = effect[u]
<1>1. CASE UNCHANGED serverVars
  BY <1>1 DEF serverVars, emailVars
<1>2. CASE ByAcceptance(t, r)
  BY <1>2 DEF ByAcceptance
<1>3. CASE ByChange(t, r)
  BY <1>3 DEF ByChange, Change, TypeOK
<1> QED
  BY <1>1, <1>2, <1>3 DEF By, ByRefusal, ByReplay, ByReading

\* Every step is one of a call's own, or leaves it alone.
LEMMA StepOf ==
    ASSUME TypeOK, [Next]_vars, NEW t \in Try
    PROVE  Same(t) \/ Called(t) \/ Reads(t) \/ Redirected(t) \/ Returned(t) \/ Served(t)
<1>1. ASSUME NEW u \in Try, NEW r, Return(u, r)
      PROVE  /\ client'[u] = "returned" /\ result'[u] = r
             /\ u # t => client'[t] = client[t] /\ result'[t] = result[t]
  BY <1>1 DEF Return, TypeOK
<1>2. ASSUME NEW u \in Try, Call(u) PROVE Same(t) \/ Called(t)
  <2>1. Calm /\ client[u] = "idle" /\ Again(u) /\ InOrder(u[1])
    BY <1>2 DEF Call, serverVars, emailVars, Calm
  <2>2. CASE u[1] \in Unbuildable
    <3>1. Return(u, Err("local")) /\ UNCHANGED <<wire, method, resp>>
      BY <1>2, <2>2 DEF Call, wireVars
    <3> QED
      BY <1>1, <2>1, <3>1 DEF Same, Called, Calm
  <2>3. CASE u[1] \notin Unbuildable
    <3>1. /\ client' = [client EXCEPT ![u] = "waiting"]
          /\ wire' = [wire EXCEPT ![u] = "request"]
          /\ method' = [method EXCEPT ![u] = MethodOf(u[1])]
          /\ UNCHANGED <<result, resp>>
      BY <1>2, <2>3 DEF Call
    <3> QED
      BY <2>1, <3>1 DEF Same, Called, Calm, TypeOK
  <2> QED
    BY <2>2, <2>3
<1>3. ASSUME NEW u \in Try, Headers(u) PROVE Same(t) \/ Reads(t)
  BY <1>3 DEF Headers, wireVars, serverVars, emailVars, Same, Reads, Calm, TypeOK
<1>4. ASSUME NEW u \in Try, Redirect(u) PROVE Same(t) \/ Redirected(t) \/ Returned(t)
  <2>1. /\ client[u] = "waiting" /\ wire[u] = "response" /\ resp[u].status \in {302, 307} /\ Calm
    BY <1>4 DEF Redirect, serverVars, emailVars, Calm
  <2>2. CASE builtClient
    <3>1. Return(u, Err("ErrConnection")) /\ UNCHANGED <<wire, method, resp>>
      BY <1>4, <2>2 DEF Redirect, wireVars
    <3> QED
      BY <1>1, <2>1, <3>1 DEF Same, Returned, Calm
  <2>3. CASE ~builtClient
    <3>1. FollowRedirect(u)
      BY <1>4, <2>3, Zenon DEF Redirect
    <3> QED
      BY <2>1, <2>3, <3>1 DEF FollowRedirect, callVars, Same, Redirected, Calm, TypeOK
  <2> QED
    BY <2>2, <2>3
<1>5. ASSUME NEW u \in Try, ReadBody(u) PROVE Same(t) \/ Returned(t)
  <2>1. /\ client[u] = "reading" /\ Return(u, Decode(u[1], resp[u])) /\ Calm
        /\ UNCHANGED <<wire, method, resp>>
    BY <1>5 DEF ReadBody, wireVars, serverVars, emailVars, Calm
  <2> QED
    BY <1>1, <2>1 DEF Same, Returned, Calm
<1>6. ASSUME NEW u \in Try, GiveUp(u) PROVE Same(t) \/ Returned(t)
  <2>1. /\ client[u] \in {"waiting", "reading"} /\ Return(u, Err("ErrConnection")) /\ Calm
        /\ UNCHANGED <<wire, method, resp>>
    BY <1>6 DEF GiveUp, wireVars, serverVars, emailVars, Calm
  <2> QED
    BY <1>1, <2>1 DEF Same, Returned, Calm
<1>7. ASSUME NEW u \in Try, Serve(u) PROVE Same(t) \/ Served(t)
  <2>1. wire[u] = "request" /\ UNCHANGED <<client, result, method>>
    BY <1>7, ServedBy DEF callVars
  <2>2. PICK r : Respond(u, r) /\ By(u, r)
    BY <1>7, ServedBy
  <2>3. CASE u = t
    BY <2>1, <2>2, <2>3 DEF Respond, Served, TypeOK
  <2>4. CASE u # t
    BY <2>1, <2>2, <2>4, ByTouches DEF Respond, Same, TypeOK
  <2> QED
    BY <2>3, <2>4
<1>8. CASE (\E u \in Try : Due(u)) \/ UNCHANGED vars
  BY <1>8 DEF Due, vars, callVars, wireVars, serverVars, emailVars, Same
<1> QED
  BY <1>2, <1>3, <1>4, <1>5, <1>6, <1>7, <1>8 DEF Next

-------------------------------------------------------------------------------
LEMMA GivenStays == [Next]_vars => UNCHANGED <<verb, builtClient>>
BY DEF Next, Call, Headers, Redirect, ReadBody, GiveUp, Serve, Due, vars, given

\* The errors that a client makes up itself.
LEMMA OwnErrors ==
    \A k \in {"local", "ErrConnection"} :
        Err(k).kind = k /\ ~Refusing(k) /\ k \notin {"none", "ok", "ErrUnexpectedResponse"}
BY DEF Err, Result, Refusing, Is, APIKinds

\* What a result says of the response it was decoded from.
LEMMA DecodeSays ==
    ASSUME NEW j, NEW r
    PROVE  LET k == Decode(j, r).kind
           IN  /\ k # "local"
               /\ k \in {"ok", "ErrUnexpectedResponse"} <=> Success(r.status)
               /\ Refusing(k) => ~Success(r.status) /\ r.status # 500
               /\ k = "ErrNotFound" => r.status = 404
               /\ k = "ErrConflict" => r.status = 409
               /\ k = "ok" => \/ Decode(j, r) = Result("ok", r.id, r.replayed, r.count)
                              \/ r.body = "emptyObject" /\ verb[j] # "send"
<1>1. Err("ErrUnexpectedResponse").kind = "ErrUnexpectedResponse" /\ ~Refusing("ErrUnexpectedResponse")
  BY DEF Err, Result, Refusing, Is, APIKinds
<1>2. \A i, x, n : Result("ok", i, x, n).kind = "ok" /\ ~Refusing("ok")
  BY DEF Result, Refusing, Is, APIKinds
<1>3. /\ sentinelFor(r.status) \in APIKinds
      /\ sentinelFor(r.status) \notin {"ErrServer", "ErrAPI"} => r.status # 500
      /\ sentinelFor(r.status) = "ErrNotFound" => r.status = 404
      /\ sentinelFor(r.status) = "ErrConflict" => r.status = 409
  BY DEF sentinelFor, statusSentinels, APIKinds
<1>4. Err(sentinelFor(r.status)).kind = sentinelFor(r.status)
  BY DEF Err, Result
<1>5. CASE ~Success(r.status)
  <2>1. Decode(j, r) = Err(sentinelFor(r.status))
    BY <1>5 DEF Decode, Success
  <2> QED
    BY <1>3, <1>4, <1>5, <2>1 DEF APIKinds, Refusing
<1>6. CASE Success(r.status)
  <2>1. \/ Decode(j, r) = Result("ok", r.id, r.replayed, r.count)
        \/ r.body = "emptyObject" /\ verb[j] # "send" /\ Decode(j, r) = Result("ok", NoEmail, FALSE, 0)
        \/ Decode(j, r) = Err("ErrUnexpectedResponse")
    BY <1>6 DEF Decode, Success
  <2>2. CASE Decode(j, r) = Result("ok", r.id, r.replayed, r.count)
    <3>1. Decode(j, r).kind = "ok"
      BY <1>2, <2>2
    <3> QED
      BY <1>2, <1>6, <2>2, <3>1
  <2>3. CASE r.body = "emptyObject" /\ verb[j] # "send" /\ Decode(j, r) = Result("ok", NoEmail, FALSE, 0)
    <3>1. Decode(j, r).kind = "ok"
      BY <1>2, <2>3
    <3> QED
      BY <1>2, <1>6, <2>3, <3>1
  <2>4. CASE Decode(j, r) = Err("ErrUnexpectedResponse")
    <3>1. Decode(j, r).kind = "ErrUnexpectedResponse"
      BY <1>1, <2>4
    <3> QED
      BY <1>1, <1>6, <3>1
  <2> QED
    BY <2>1, <2>2, <2>3, <2>4
<1> QED
  BY <1>5, <1>6

\* What is not refused is answered with a body, or not answered for.
LEMMA ByAnswer ==
    ASSUME NEW t, NEW r, By(t, r), ~ByRefusal(t, r)
    PROVE  r = Bare(500) \/ \E b \in Bodies : \E e, x, n : r = Response(200, b, e, x, n)
<1>1. CASE ByReplay(t, r)
  BY <1>1 DEF ByReplay
<1>2. CASE ByAcceptance(t, r)
  BY <1>2 DEF ByAcceptance
<1>3. CASE ByReading(t, r)
  BY <1>3 DEF ByReading
<1>4. CASE ByChange(t, r)
  BY <1>4 DEF ByChange
<1> QED
  BY <1>1, <1>2, <1>3, <1>4 DEF By

\* The status of a response with an effect, and what one without leaves alone.
LEMMA ByStatus ==
    ASSUME NEW t, NEW r, By(t, r)
    PROVE  ~Success(r.status) /\ r.status # 500 => UNCHANGED <<created, effect>>
<1>1. CASE ByRefusal(t, r)
  BY <1>1 DEF ByRefusal, serverVars, emailVars
<1>2. CASE r = Bare(500)
  <2>1. r.status = 500
    BY <1>2, BareFields
  <2> QED
    BY <2>1
<1>3. CASE \E b \in Bodies : \E e, x, n : r = Response(200, b, e, x, n)
  <2>1. r.status = 200
    BY <1>3 DEF Response
  <2>2. Success(r.status)
    BY <2>1 DEF Success
  <2> QED
    BY <2>2
<1> QED
  BY <1>1, <1>2, <1>3, ByAnswer

\* Every step keeps the flow of every call.
LEMMA StepFlows == TypeOK /\ Flows /\ [Next]_vars => Flows'
<1> SUFFICES ASSUME TypeOK, Flows, [Next]_vars, NEW t \in Try PROVE Flow(t)'
  BY DEF Flows
<1>1. Flow(t) /\ (client[t] = "returned" <=> result[t].kind # "none") /\ ~Refusing("none")
  BY DEF Flows, TypeOK, Refusing, Is, APIKinds
<1>2. CASE Same(t)
  BY <1>1, <1>2 DEF Same, Flow, NoEffect, OnItsWay
<1>3. CASE Called(t)
  <2>1. MethodOf(t[1]) # "none"
    BY TryIsOfJob DEF MethodOf, TypeOK, Verb, Batch
  <2> QED
    BY <1>1, <1>3, <2>1, OwnErrors DEF Called, Calm, Flow, NoEffect, OnItsWay
<1>4. CASE Reads(t)
  BY <1>1, <1>4 DEF Reads, Calm, Flow, NoEffect, OnItsWay
<1>5. CASE Redirected(t)
  BY <1>1, <1>5 DEF Redirected, Calm, Flow, NoEffect, OnItsWay, Success
<1>6. CASE Returned(t)
  <2>1. /\ client'[t] = "returned" /\ wire'[t] = wire[t] /\ method'[t] = method[t] /\ Calm
        /\ wire[t] # "none"
    BY <1>1, <1>6 DEF Returned, Flow
  <2>2. CASE result'[t] = Err("ErrConnection")
    BY <1>1, <2>1, <2>2, OwnErrors DEF Calm, Flow, NoEffect, OnItsWay
  <2>3. CASE client[t] = "reading" /\ result'[t] = Decode(t[1], resp[t])
    BY <1>1, <2>1, <2>3, DecodeSays DEF Calm, Flow, NoEffect, OnItsWay
  <2> QED
    BY <1>6, <2>2, <2>3 DEF Returned
<1>7. CASE Served(t)
  <2>1. PICK r : By(t, r) /\ resp'[t] = IF client[t] = "returned" THEN resp[t] ELSE r
    BY <1>7 DEF Served
  <2>2. NoEffect(t) /\ client[t] # "idle"
    BY <1>1, <1>7 DEF Served, Flow
  <2>3. client[t] # "returned" /\ ~Success(r.status) /\ r.status # 500 => NoEffect(t)'
    BY <2>1, <2>2, ByStatus DEF NoEffect
  <2>4. ~Refusing(result[t].kind)
    BY <1>1, <1>7 DEF Served, Flow, Refusing, Is, APIKinds
  <2> QED
    BY <1>1, <1>7, <2>1, <2>2, <2>3, <2>4 DEF Served, Flow, OnItsWay
<1> QED
  BY <1>2, <1>3, <1>4, <1>5, <1>6, <1>7, StepOf

\* The flow of every call is kept in every behaviour.
LEMMA FlowsInvariant == Spec => [](TypeOK /\ KeysKept /\ Flows)
<1>1. Init => Flows
  <2> SUFFICES ASSUME Init, NEW t \in Try PROVE Flow(t)
    BY DEF Flows
  <2>1. Err("none").kind = "none" /\ ~Refusing("none")
    BY DEF Err, Result, Refusing, Is, APIKinds
  <2> QED
    BY <2>1 DEF Init, Flow, NoEffect, OnItsWay
<1> QED
  BY <1>1, StepFlows, KeysKeptInvariant, PTL DEF Spec

-------------------------------------------------------------------------------
\* What an email's place in the collection may become.
LEMMA StatusSteps ==
    ASSUME TypeOK, Flows, [Next]_vars, NEW e \in Try
    PROVE  \/ status'[e] = status[e] /\ (e \in created' <=> e \in created)
           \/ /\ status[e] = "scheduled" /\ status'[e] \in {"canceled", "sent", "failed"}
              /\ (e \in created' <=> e \in created)
           \/ /\ e \notin created /\ e \in created'
              /\ status'[e] = IF e[1] \in Scheduling THEN "scheduled" ELSE status[e]
<1>1. ASSUME NEW t \in Try, Call(t) \/ Headers(t) \/ Redirect(t) \/ ReadBody(t) \/ GiveUp(t)
      PROVE  UNCHANGED <<created, status>>
  BY <1>1 DEF Call, Headers, Redirect, ReadBody, GiveUp, serverVars, emailVars
<1>2. CASE UNCHANGED vars
  BY <1>2 DEF vars, serverVars, emailVars
<1>3. ASSUME NEW t \in Try, Due(t)
      PROVE  /\ UNCHANGED created
             /\ status'[e] = status[e] \/ (status[e] = "scheduled" /\ status'[e] \in {"sent", "failed"})
  BY <1>3 DEF Due, TypeOK
<1>4. ASSUME NEW t \in Try, Serve(t)
      PROVE  \/ status'[e] = status[e] /\ (e \in created' <=> e \in created)
             \/ /\ status[e] = "scheduled" /\ status'[e] = "canceled"
                /\ (e \in created' <=> e \in created)
             \/ /\ e \notin created /\ e \in created'
                /\ status'[e] = IF e[1] \in Scheduling THEN "scheduled" ELSE status[e]
  <2>1. PICK r : By(t, r)
    BY <1>4, ServedBy
  <2>2. t \notin created
    BY <1>4, ServedBy DEF Flows, Flow, NoEffect
  <2>3. CASE UNCHANGED serverVars
    BY <2>3 DEF serverVars, emailVars
  <2>4. CASE ByAcceptance(t, r)
    BY <2>2, <2>4 DEF ByAcceptance, TypeOK
  <2>5. CASE ByChange(t, r)
    BY <2>5 DEF ByChange, Change
  <2> QED
    BY <2>1, <2>3, <2>4, <2>5 DEF By, ByRefusal, ByReplay, ByReading
<1> QED
  BY <1>1, <1>2, <1>3, <1>4 DEF Next

\* Every step keeps the collection listed.
LEMMA StepListed == TypeOK /\ Flows /\ Listed /\ [Next]_vars => Listed'
<1> SUFFICES ASSUME TypeOK, Flows, Listed, [Next]_vars, NEW e \in Try
             PROVE  /\ status'[e] # "none" => e \in created'
                    /\ e \in created' /\ e[1] \in Scheduling => status'[e] # "none"
  BY DEF Listed
<1> QED
  BY StatusSteps DEF Listed

\* What a call returned stays.
LEMMA ReturnedStays ==
    ASSUME TypeOK, [Next]_vars, NEW t \in Try, client[t] = "returned"
    PROVE  client'[t] = "returned" /\ result'[t] = result[t]
BY StepOf DEF Same, Called, Reads, Redirected, Returned, Served

LEMMA InOrderStays ==
    ASSUME TypeOK, [Next]_vars, NEW j, InOrder(j)
    PROVE  InOrder(j)'
<1>1. \A t \in Try : result[t].kind = "ok" => result'[t].kind = "ok"
  BY ReturnedStays DEF TypeOK
<1> QED
  BY <1>1 DEF InOrder

\* The earlier calls of a job are calls.
LEMMA EarlierTries ==
    ASSUME NEW t \in Try
    PROVE  /\ t = <<t[1], t[2]>> /\ t[2] \in Nat \ {0}
           /\ \A n \in 1..(t[2] - 1) : <<t[1], n>> \in Try
<1>1. PICK j \in Job : t \in {j} \X (1..MaxTries[j])
  BY DEF Try
<1>2. MaxTries[j] \in Nat
  BY ClientAssumption
<1>3. t = <<t[1], t[2]>> /\ t[1] = j /\ t[2] \in 1..MaxTries[j]
  BY <1>1
<1>4. ASSUME NEW n \in 1..(t[2] - 1) PROVE <<t[1], n>> \in Try
  <2>1. n \in 1..MaxTries[j]
    BY <1>2, <1>3
  <2>2. <<t[1], n>> \in {j} \X (1..MaxTries[j])
    BY <1>3, <2>1
  <2> QED
    BY <2>2 DEF Try
<1> QED
  BY <1>2, <1>3, <1>4

\* Every step keeps the order of calls.
LEMMA StepOrdered == TypeOK /\ Ordered /\ [Next]_vars => Ordered'
<1> SUFFICES ASSUME TypeOK, Ordered, [Next]_vars, NEW t \in Try, client'[t] # "idle"
             PROVE  Again(t)' /\ InOrder(t[1])'
  BY DEF Ordered
<1>1. Again(t) /\ InOrder(t[1])
  <2>1. client[t] # "idle" \/ Called(t)
    BY StepOf DEF Same, Reads, Redirected, Returned, Served
  <2> QED
    BY <2>1 DEF Ordered, Called
<1>2. Again(t)'
  BY <1>1, ReturnedStays, EarlierTries DEF Again
<1> QED
  BY <1>1, <1>2, InOrderStays

Emails == TypeOK /\ KeysKept /\ Flows /\ Listed /\ Chosen /\ Ordered

\* The collection and the order are kept in every behaviour.
LEMMA EmailsInvariant == Spec => []Emails
<1>1. Init => Listed /\ Chosen /\ Ordered
  BY DEF Init, Listed, Chosen, Ordered
<1>2. Chosen /\ [Next]_vars => Chosen'
  BY GivenStays DEF Chosen
<1> QED
  BY <1>1, <1>2, StepListed, StepOrdered, FlowsInvariant, PTL DEF Spec, Emails


-------------------------------------------------------------------------------
\* A send whose answer could not be read was accepted all the same.
Unreadable == builtClient => \A t \in Try :
    verb[t[1]] = "send" /\ result[t].kind = "ErrUnexpectedResponse" => \E u \in created : u[1] = t[1]

LEMMA StepUnreadable == TypeOK /\ KeysKept /\ SendsOwn /\ Unreadable /\ [Next]_vars => Unreadable'
<1> SUFFICES ASSUME TypeOK, SendsOwn, Unreadable, [Next]_vars, builtClient', NEW t \in Try,
                    verb'[t[1]] = "send", result'[t].kind = "ErrUnexpectedResponse"
             PROVE  \E u \in created' : u[1] = t[1]
  BY DEF Unreadable
<1>1. builtClient /\ verb[t[1]] = "send" /\ created \subseteq created'
  BY GivenStays, CreatedGrows
<1>2. CASE result'[t] = result[t]
  BY <1>1, <1>2 DEF Unreadable
<1>3. CASE result'[t] = Decode(t[1], resp[t])
  <2>1. Own(t, resp[t].id)
    BY <1>1, <1>3, DecodeSays DEF SendsOwn, SendOwns, Success
  <2> QED
    BY <1>1, <2>1 DEF Own
<1> QED
  BY <1>2, <1>3, StepOf, OwnErrors DEF Same, Called, Reads, Redirected, Returned, Served

\* The email of a send that returns no error is its own, in every behaviour.
LEMMA SendsOwnInvariant == Spec => []SendsOwn
<1>1. Init => SendsOwn
  BY DEF Init, SendsOwn, SendOwns, Err, Result, Bare, Response
<1> QED
  BY <1>1, StepSendsOwn, KeysKeptInvariant, PTL DEF Spec

\* What an error says of its call, for any jobs, statuses and bodies: newRequest's own was never sent,
\* a refusal had no effect with either kind of http.Client, and with the one New builds an email was
\* accepted when a send's answer could not be read.
THEOREM CategoriesTellEffects == Spec => []CategoryTellsEffect
<1>1. Init => Unreadable
  BY DEF Init, Unreadable, Err, Result
<1>2. TypeOK /\ Flows /\ Unreadable => CategoryTellsEffect
  <2> SUFFICES ASSUME TypeOK, Flows, Unreadable, NEW t \in Try
               PROVE  LET k == result[t].kind IN
                      /\ k = "local" => wire[t] = "none" /\ t \notin created
                      /\ Is(k, "ErrAPI") /\ k \notin {"ErrServer", "ErrAPI"} => t \notin created /\ effect[t] = {}
                      /\ builtClient /\ k = "ErrUnexpectedResponse" /\ verb[t[1]] = "send" =>
                             \E u \in created : u[1] = t[1]
    BY DEF CategoryTellsEffect
  <2> QED
    BY DEF Flows, Flow, NoEffect, Refusing, Unreadable
<1> QED
  BY <1>1, <1>2, StepUnreadable, SendsOwnInvariant, FlowsInvariant, PTL DEF Spec

-------------------------------------------------------------------------------
\* What a response to a send says of its email.
LEMMA ServedReplay ==
    ASSUME TypeOK, KeysKept, NEW t \in Try, NEW r, By(t, r), t \notin created,
           method[t] = "POST", Success(r.status)
    PROVE  r.replayed <=> r.id # t
<1>1. CASE ByRefusal(t, r)
  BY <1>1, BareFields DEF ByRefusal
<1>2. CASE ByReplay(t, r)
  <2>1. r.replayed /\ r.id = stored[SentKey(t[1])]
    BY <1>2 DEF ByReplay, Response
  <2>2. stored[SentKey(t[1])] \in created
    BY <1>2 DEF ByReplay, KeysKept
  <2> QED
    BY <2>1, <2>2
<1>3. CASE ByAcceptance(t, r)
  <2>1. r = Bare(500) \/ \E b : r = Response(200, b, t, FALSE, 0)
    BY <1>3 DEF ByAcceptance
  <2>2. r # Bare(500)
    BY BareFields DEF Success
  <2> QED
    BY <2>1, <2>2 DEF Response
<1>4. CASE ByReading(t, r) \/ ByChange(t, r)
  BY <1>4 DEF ByReading, ByChange
<1> QED
  BY <1>1, <1>2, <1>3, <1>4 DEF By


\* Every step keeps what a send's answer says of replays.
LEMMA StepReplays == TypeOK /\ KeysKept /\ Flows /\ SendsOwn /\ Replays /\ [Next]_vars => Replays'
<1> SUFFICES ASSUME TypeOK, KeysKept, Flows, SendsOwn, Replays, [Next]_vars, builtClient', NEW t \in Try,
                    verb'[t[1]] = "send"
             PROVE  Replay(t)'
  BY DEF Replays
<1>1. builtClient /\ verb[t[1]] = "send" /\ Replay(t) /\ SendOwns(t) /\ Flow(t)
  BY GivenStays DEF Replays, SendsOwn, Flows
<1>2. CASE Same(t)
  BY <1>1, <1>2 DEF Same, Replay, OnItsWay
<1>3. CASE Called(t)
  BY <1>1, <1>3, OwnErrors DEF Called, Replay, OnItsWay, Flow
<1>4. CASE Reads(t)
  BY <1>1, <1>4 DEF Reads, Replay, OnItsWay
<1>5. CASE Redirected(t)
  BY <1>1, <1>5 DEF Redirected
<1>6. CASE Returned(t)
  <2>1. client'[t] = "returned"
    BY <1>6 DEF Returned
  <2>2. CASE result'[t] = Err("ErrConnection")
    BY <2>1, <2>2, OwnErrors DEF Replay, OnItsWay
  <2>3. CASE client[t] = "reading" /\ result'[t] = Decode(t[1], resp[t])
    <3>1. ASSUME result'[t].kind = "ok" PROVE result'[t].replayed <=> result'[t].id # t
      <4>1. Success(resp[t].status) /\ result'[t] = Result("ok", resp[t].id, resp[t].replayed, resp[t].count)
        BY <1>1, <2>3, <3>1, DecodeSays
      <4>2. result'[t].replayed = resp[t].replayed /\ result'[t].id = resp[t].id
        BY <4>1 DEF Result
      <4> QED
        BY <1>1, <2>3, <4>1, <4>2 DEF Replay, OnItsWay, Flow
    <3> QED
      BY <2>1, <3>1 DEF Replay, OnItsWay
  <2> QED
    BY <1>6, <2>2, <2>3 DEF Returned
<1>7. CASE Served(t)
  <2>1. PICK r : By(t, r) /\ resp'[t] = IF client[t] = "returned" THEN resp[t] ELSE r
    BY <1>7 DEF Served
  <2>2. t \notin created /\ method[t] = "POST"
    BY <1>1, <1>7 DEF Served, Flow, NoEffect, SendOwns
  <2>3. Success(r.status) => (r.replayed <=> r.id # t)
    BY <2>1, <2>2, ServedReplay
  <2> QED
    BY <1>1, <1>7, <2>1, <2>3 DEF Served, Replay, OnItsWay
<1> QED
  BY <1>2, <1>3, <1>4, <1>5, <1>6, <1>7, StepOf

\* Email.IdempotentReplayed tells a caller truly whether an earlier call created the email: for any
\* jobs that share a key, any retries and any order in which they are served.
THEOREM ReplaysAreTrue == Spec => []ReplayedIsTrue
<1>1. Init => Replays
  BY DEF Init, Replays, Replay, OnItsWay, Err, Result
<1>2. Replays => ReplayedIsTrue
  BY DEF Replays, Replay, ReplayedIsTrue, SendOk
<1> QED
  BY <1>1, <1>2, StepReplays, SendsOwnInvariant, FlowsInvariant, PTL DEF Spec


-------------------------------------------------------------------------------
\* All successes of one send are one email: without a key there is one success at most.
OneEmail ==
    builtClient => \A t, u \in Try :
        t[1] = u[1] /\ verb[t[1]] = "send" /\ result[t].kind = "ok" /\ result[u].kind = "ok" =>
            result[t].id = result[u].id

LEMMA SendHasOneEmail == Emails /\ KeyHasOneAnswer => OneEmail
<1> SUFFICES ASSUME Emails, KeyHasOneAnswer, builtClient, NEW t \in Try, NEW u \in Try, t[1] = u[1],
                    verb[t[1]] = "send", result[t].kind = "ok", result[u].kind = "ok"
             PROVE  result[t].id = result[u].id
  BY DEF OneEmail
<1>1. CASE KeyOf[t[1]] # NoKey
  BY <1>1 DEF KeyHasOneAnswer, SendOk
<1>2. CASE KeyOf[t[1]] = NoKey
  <2>1. ASSUME NEW a \in Try, NEW b \in Try, a[1] = t[1], b[1] = t[1], a[2] < b[2],
               result[a].kind = "ok", result[b].kind = "ok"
        PROVE  FALSE
    <3>1. Again(b)
      BY <2>1 DEF Emails, Ordered, TypeOK
    <3>2. a[2] \in 1..(b[2] - 1) /\ a = <<b[1], a[2]>>
      BY <2>1, EarlierTries
    <3> QED
      BY <1>2, <2>1, <3>1, <3>2 DEF Again
  <2>2. t[2] \in Nat /\ u[2] \in Nat /\ t = <<t[1], t[2]>> /\ u = <<u[1], u[2]>>
    BY EarlierTries
  <2>3. t[2] = u[2]
    BY <2>1, <2>2
  <2> QED
    BY <2>2, <2>3
<1> QED
  BY <1>1, <1>2

\* What is proved of every reachable state so far.
Sound == Emails /\ SuccessIsOwnEmail /\ OneEmail

LEMMA SoundInvariant == Spec => []Sound
BY SendHasOneEmail, EmailsInvariant, SuccessesAreOwn, OneAnswerPerKey, PTL DEF Sound

\* The sends that a job waits for are sends.
LEMMA Awaited ==
    ASSUME Sound, NEW j \in Job, NEW p \in After[j]
    PROVE  p \in Job /\ verb[p] = "send"
BY ClientAssumption DEF Sound, Emails, Chosen

\* The emails that a job manages were accepted from the sends it waits for.
LEMMA KnownAre ==
    ASSUME Sound, builtClient, NEW j \in Job, NEW e \in Known(j)
    PROVE  e \in Try /\ e \in created /\ e[1] \in After[j]
<1>1. PICK u \in Try : u[1] \in After[j] /\ result[u].kind = "ok" /\ result[u].id = e
  BY DEF Known
<1>2. SendOk(u)
  BY <1>1, Awaited DEF SendOk
<1> QED
  BY <1>1, <1>2 DEF Sound, SuccessIsOwnEmail, Known

\* A job that has called manages the same emails ever after.
LEMMA KnownStays ==
    ASSUME Sound, Sound', [Next]_vars, builtClient, NEW t \in Try, client[t] # "idle"
    PROVE  Known(t[1])' = Known(t[1])
<1> DEFINE j == t[1]
<1>1. j \in Job /\ InOrder(j) /\ UNCHANGED <<verb, builtClient>>
  BY TryIsOfJob, GivenStays DEF Sound, Emails, Ordered
<1>2. \A u \in Try : result[u].kind = "ok" => result'[u] = result[u]
  BY ReturnedStays DEF Sound, Emails, TypeOK
<1>3. Known(j) \subseteq Known(j)'
  BY <1>2 DEF Known
<1>4. ASSUME NEW e \in Known(j)' PROVE e \in Known(j)
  <2>1. PICK u \in Try : u[1] \in After[j] /\ result'[u].kind = "ok" /\ result'[u].id = e
    BY <1>4 DEF Known
  <2>2. PICK w \in Try : w[1] = u[1] /\ result[w].kind = "ok"
    BY <1>1, <2>1 DEF InOrder
  <2>3. result'[w].id = result'[u].id
    <3>1. result'[w].kind = "ok" /\ verb'[w[1]] = "send" /\ builtClient'
      BY <1>1, <1>2, <2>1, <2>2, Awaited
    <3> QED
      BY <2>1, <2>2, <3>1 DEF Sound, OneEmail
  <2>4. e \in Try
    BY <1>4 DEF Known
  <2> QED
    BY <1>2, <2>1, <2>2, <2>3, <2>4 DEF Known
<1> QED
  BY <1>3, <1>4


-------------------------------------------------------------------------------
\* The verb that a method tells.
LEMMA MethodTells ==
    ASSUME TypeOK, NEW j \in Job
    PROVE  /\ MethodOf(j) # "none"
           /\ MethodOf(j) = "POST" <=> verb[j] = "send"
           /\ MethodOf(j) = "GET" <=> verb[j] = "get"
           /\ verb[j] \in {"cancel", "cancelBatch"} => MethodOf(j) = "DELETE"
BY DEF MethodOf, TypeOK, Verb, Batch

\* What a success said of a change stays true.
LEMMA MadeStays ==
    ASSUME Sound, Sound', [Next]_vars, builtClient, NEW t \in Try, NEW id, NEW n,
           client[t] # "idle", effect'[t] = effect[t], Made(t, id, n)
    PROVE  Made(t, id, n)'
<1> DEFINE j == t[1]
<1>1. verb' = verb /\ j \in Job /\ Known(j)' = Known(j) /\ effect[t] \subseteq Try
  BY GivenStays, KnownStays, TryIsOfJob DEF Sound, Emails, TypeOK
<1>2. ASSUME NEW e \in Try, status[e] = "canceled" PROVE status'[e] = "canceled"
  BY <1>2, StatusSteps DEF Sound, Emails, Listed
<1>3. ASSUME NEW e \in Known(j), status[e] # "scheduled" PROVE status'[e] # "scheduled"
  <2>1. e \in Try /\ e \in created
    BY <1>1, KnownAre
  <2> QED
    BY <1>3, <2>1, StatusSteps DEF Sound, Emails
<1> QED
  BY <1>1, <1>2, <1>3 DEF Made

\* What a response with a 2xx status says of the change it is about to confirm.
LEMMA ServedMade ==
    ASSUME Sound, Sound', [Next]_vars, builtClient, NEW t \in Try, NEW r,
           By(t, r), client[t] # "idle", method[t] = MethodOf(t[1]), Success(r.status)
    PROVE  Made(t, r.id, r.count)'
<1> DEFINE j == t[1]
<1>1. verb' = verb /\ j \in Job /\ Known(j)' = Known(j) /\ TypeOK /\ verb[j] \in Verb
  BY GivenStays, KnownStays, TryIsOfJob DEF Sound, Emails, TypeOK
<1>2. CASE ByRefusal(t, r)
  BY <1>2, BareFields DEF ByRefusal
<1>3. CASE ByReplay(t, r) \/ ByAcceptance(t, r) \/ ByReading(t, r)
  <2>1. verb[j] \in {"send", "get"}
    BY <1>1, <1>3, MethodTells DEF ByReplay, ByAcceptance, ByReading
  <2> QED
    BY <1>1, <2>1 DEF Made, Batch
<1>4. CASE ByChange(t, r)
  <2>1. PICK emails \in SUBSET {e \in Try : status[e] = "scheduled"} :
          /\ Change(t, emails)
          /\ \/ /\ verb[j] \notin Batch
                /\ \E e \in Try, b \in Bodies : emails = {e} /\ r = Response(200, b, e, FALSE, 0)
             \/ /\ verb[j] \in Batch /\ emails = {e \in Try : status[e] = "scheduled"}
                /\ \E b \in Bodies : r = Response(200, b, t, FALSE, Cardinality(emails))
    BY <1>4 DEF ByChange
  <2>2. /\ effect'[t] = emails
        /\ \A e \in Try : status'[e] = IF e \in emails /\ method[t] = "DELETE" THEN "canceled" ELSE status[e]
    BY <1>1, <2>1 DEF Change, TypeOK
  <2>3. verb[j] \in {"cancel", "cancelBatch"} => \A e \in effect'[t] : status'[e] = "canceled"
    BY <1>1, <2>2, MethodTells
  <2>4. CASE verb[j] \notin Batch
    <3>1. emails = {r.id}
      BY <2>1, <2>4 DEF Response
    <3> QED
      BY <1>1, <2>2, <2>3, <2>4, <3>1 DEF Made
  <2>5. CASE verb[j] \in Batch
    <3>1. r.count = Cardinality(emails) /\ emails = {e \in Try : status[e] = "scheduled"}
      BY <2>1, <2>5 DEF Response
    <3>2. \A e \in Known(j) \ effect'[t] : status'[e] # "scheduled"
      BY <2>2, <3>1 DEF Known
    <3> QED
      BY <1>1, <2>2, <2>3, <2>5, <3>1, <3>2 DEF Made, Batch
  <2> QED
    BY <2>4, <2>5
<1> QED
  BY <1>2, <1>3, <1>4 DEF By

\* The body of a response is one of those the API answers with.
LEMMA ByBody ==
    ASSUME NEW t, NEW r, By(t, r), "emptyObject" \notin Bodies
    PROVE  r.body # "emptyObject"
<1>1. (\E s : r = Bare(s)) \/ (\E b \in Bodies : \E e, x, n : r = Response(200, b, e, x, n))
  <2>1. CASE ByRefusal(t, r)
    BY <2>1 DEF ByRefusal
  <2> QED
    BY <2>1, ByAnswer
<1>2. CASE \E s : r = Bare(s)
  BY <1>2, BareFields
<1>3. CASE \E b \in Bodies : \E e, x, n : r = Response(200, b, e, x, n)
  BY <1>3 DEF Response
<1> QED
  BY <1>1, <1>2, <1>3

\* Every step keeps what successes say of changes.
LEMMA StepMakes ==
    ASSUME "emptyObject" \notin Bodies
    PROVE  Sound /\ Sound' /\ Makes /\ [Next]_vars => Makes'
<1> SUFFICES ASSUME Sound, Sound', Makes, [Next]_vars, builtClient', NEW t \in Try PROVE Making(t)'
  BY DEF Makes, Making
<1>1. /\ builtClient /\ verb' = verb /\ Making(t) /\ Flow(t) /\ TypeOK
      /\ client[t] = "returned" <=> result[t].kind # "none"
  BY GivenStays DEF Makes, Making, Sound, Emails, Flows, TypeOK
<1>2. UNCHANGED MethodOf(t[1])
  BY <1>1 DEF MethodOf
<1>3. ASSUME NEW id, NEW n, client[t] # "idle", effect'[t] = effect[t], Made(t, id, n)
      PROVE  Made(t, id, n)'
  BY <1>1, <1>3, MadeStays
<1>4. CASE Same(t)
  <2>1. OnItsWay(t)' = OnItsWay(t)
    BY <1>4 DEF Same, OnItsWay
  <2>2. OnItsWay(t) \/ result[t].kind = "ok" => client[t] # "idle"
    BY <1>1 DEF OnItsWay
  <2> QED
    BY <1>1, <1>2, <1>3, <1>4, <2>1, <2>2 DEF Same, Making
<1>5. CASE Called(t)
  BY <1>1, <1>2, <1>5, OwnErrors DEF Called, Making, OnItsWay, Flow
<1>6. CASE Reads(t)
  <2>1. result'[t].kind # "ok" /\ effect'[t] = effect[t] /\ OnItsWay(t) /\ client[t] # "idle"
    BY <1>1, <1>6 DEF Reads, Calm, OnItsWay
  <2> QED
    BY <1>1, <1>2, <1>3, <1>6, <2>1 DEF Reads, Making
<1>7. CASE Redirected(t)
  BY <1>1, <1>7 DEF Redirected
<1>8. CASE Returned(t)
  <2>1. /\ client'[t] = "returned" /\ effect'[t] = effect[t] /\ client[t] # "idle"
        /\ method'[t] = method[t] /\ resp'[t] = resp[t]
    BY <1>8 DEF Returned, Calm
  <2>2. CASE result'[t] = Err("ErrConnection")
    BY <1>1, <1>2, <2>1, <2>2, OwnErrors DEF Making, OnItsWay
  <2>3. CASE client[t] = "reading" /\ result'[t] = Decode(t[1], resp[t])
    <3>1. ASSUME NEW id, NEW n, result'[t].kind = "ok", id = result'[t].id, n = result'[t].count
          PROVE  Made(t, id, n)'
      <4>1. Success(resp[t].status) /\ result'[t] = Result("ok", resp[t].id, resp[t].replayed, resp[t].count)
        BY <1>1, <2>3, <3>1, DecodeSays DEF Making
      <4>2. id = resp[t].id /\ n = resp[t].count
        BY <3>1, <4>1 DEF Result
      <4>3. Made(t, id, n)
        BY <1>1, <2>3, <4>1, <4>2 DEF Making, OnItsWay, Flow
      <4> QED
        BY <1>3, <2>1, <4>3
    <3> QED
      BY <1>1, <1>2, <2>1, <3>1 DEF Making, OnItsWay
  <2> QED
    BY <1>8, <2>2, <2>3 DEF Returned
<1>9. CASE Served(t)
  <2>1. PICK r : By(t, r) /\ resp'[t] = IF client[t] = "returned" THEN resp[t] ELSE r
    BY <1>9 DEF Served
  <2>2. /\ client[t] # "idle" /\ method[t] = MethodOf(t[1]) /\ method'[t] = method[t]
        /\ client'[t] = client[t] /\ result'[t] = result[t]
    BY <1>1, <1>9 DEF Served, Flow, Making
  <2>3. r.body # "emptyObject"
    BY <2>1, ByBody
  <2>4. Success(r.status) => Made(t, r.id, r.count)'
    BY <1>1, <2>1, <2>2, ServedMade
  <2>5. result[t].kind # "ok"
    BY <1>1, <1>9 DEF Served, Flow
  <2> QED
    BY <1>1, <1>2, <2>1, <2>2, <2>3, <2>4, <2>5 DEF Making, OnItsWay
<1> QED
  BY <1>1, <1>4, <1>5, <1>6, <1>7, <1>8, <1>9, StepOf


\* With the client New builds, a change that returns no error was made, a batch verb reports as many
\* emails as it affected, and a program's own emails are among them: for any jobs, retries and order.
\* An API that answers with an empty object is a finding of its own, see FetchIsNeverZeroValued.
THEOREM ChangesAreMade ==
    ASSUME "emptyObject" \notin Bodies
    PROVE  Spec => []ChangeIsMade
<1>1. Init => Makes
  BY BareFields DEF Init, Makes, Making, OnItsWay, Err, Result
<1>2. TypeOK /\ Makes => ChangeIsMade
  BY DEF Makes, Making, Made, ChangeIsMade
<1>3. Sound => TypeOK
  BY DEF Sound, Emails
<1> QED
  BY <1>1, <1>2, <1>3, StepMakes, SoundInvariant, PTL DEF Spec

-------------------------------------------------------------------------------
\* A program that reads or changes an email has scheduled one, and the API refuses nothing else
\* with the statuses of an email that is gone or stopped.
Item == {"get", "update", "cancel"}
OneEmailEach == \A j \in Job : Verbs[j] \cap Item # {} => \A p, q \in After[j] : p = q /\ p \in Scheduling
OwnRefusals == Refusals \cap {404, 409} = {}

\* Such a program manages one email.
LEMMA KnownIsOne ==
    ASSUME Sound, builtClient, OneEmailEach, NEW j \in Job, verb[j] \in Item,
           NEW e \in Known(j), NEW f \in Known(j)
    PROVE  e = f /\ status[e] # "none"
<1>1. PICK t \in Try : t[1] \in After[j] /\ result[t].kind = "ok" /\ result[t].id = e
  BY DEF Known
<1>2. PICK u \in Try : u[1] \in After[j] /\ result[u].kind = "ok" /\ result[u].id = f
  BY DEF Known
<1>3. Verbs[j] \cap Item # {}
  BY DEF Sound, Emails, Chosen
<1>4. t[1] = u[1] /\ t[1] \in Scheduling /\ verb[t[1]] = "send" /\ SendOk(t)
  BY <1>1, <1>2, <1>3, Awaited DEF OneEmailEach, SendOk
<1>5. e = f
  BY <1>1, <1>2, <1>4 DEF Sound, OneEmail
<1>6. e \in Try /\ e \in created /\ e[1] = t[1]
  BY <1>1, <1>4 DEF Sound, SuccessIsOwnEmail, Known
<1> QED
  BY <1>4, <1>5, <1>6 DEF Sound, Emails, Listed

\* An email that was sent, or that is stopped, stays so.
LEMMA SettledStays ==
    ASSUME Sound, Sound', [Next]_vars, builtClient, NEW t \in Try, client[t] # "idle",
           NEW S \in {{"sent"}, Stopped}, Settled(t[1], S)
    PROVE  Settled(t[1], S)'
<1>1. Known(t[1])' = Known(t[1]) /\ t[1] \in Job
  BY KnownStays, TryIsOfJob
<1>2. ASSUME NEW e \in Known(t[1]) PROVE status'[e] \in S
  <2>1. e \in Try /\ e \in created /\ status[e] \in S /\ "scheduled" \notin S
    BY <1>1, KnownAre DEF Settled, Stopped
  <2> QED
    BY <2>1, StatusSteps DEF Sound, Emails
<1> QED
  BY <1>1, <1>2 DEF Settled

\* What a refusal says when it is sent.
LEMMA ServedTells ==
    ASSUME Sound, OneEmailEach, OwnRefusals, builtClient, NEW t \in Try, NEW r,
           By(t, r), verb[t[1]] \in Item, method[t] = MethodOf(t[1])
    PROVE  /\ r.status = 404 => Settled(t[1], {"sent"})
           /\ r.status = 409 => Settled(t[1], Stopped)
<1>1. t[1] \in Job /\ TypeOK /\ method[t] # "POST"
  BY TryIsOfJob, MethodTells DEF Sound, Emails, Item
<1>2. CASE ByRefusal(t, r)
  <2>1. PICK s :
          /\ r = Bare(s)
          /\ verb[t[1]] \in {"get", "update", "cancel"} /\ method[t] # "POST" /\ s \notin Refusals =>
                /\ s = 404 => \E e \in Known(t[1]) : status[e] \in {"none", "sent"}
                /\ s = 409 => \E e \in Known(t[1]) : status[e] \in Stopped
    BY <1>2 DEF ByRefusal
  <2>2. r.status = s
    BY <2>1, BareFields
  <2>3. ASSUME s = 404 PROVE Settled(t[1], {"sent"})
    <3>1. PICK e \in Known(t[1]) : status[e] \in {"none", "sent"}
      BY <1>1, <2>1, <2>3 DEF OwnRefusals, Item
    <3> QED
      BY <1>1, <3>1, KnownIsOne DEF Settled
  <2>4. ASSUME s = 409 PROVE Settled(t[1], Stopped)
    <3>1. PICK e \in Known(t[1]) : status[e] \in Stopped
      BY <1>1, <2>1, <2>4 DEF OwnRefusals, Item
    <3> QED
      BY <1>1, <3>1, KnownIsOne DEF Settled
  <2> QED
    BY <2>1, <2>2, <2>3, <2>4
<1>3. CASE ~ByRefusal(t, r)
  <2>1. r = Bare(500) \/ \E b, e, x, n : r = Response(200, b, e, x, n)
    BY <1>3, ByAnswer
  <2>2. CASE r = Bare(500)
    BY <2>2, BareFields
  <2>3. CASE \E b, e, x, n : r = Response(200, b, e, x, n)
    BY <2>3 DEF Response
  <2> QED
    BY <2>1, <2>2, <2>3
<1> QED
  BY <1>2, <1>3 DEF By

\* Every step keeps what refusals say of the email.
LEMMA StepTells ==
    ASSUME OneEmailEach, OwnRefusals
    PROVE  Sound /\ Sound' /\ Tells /\ [Next]_vars => Tells'
<1> SUFFICES ASSUME Sound, Sound', Tells, [Next]_vars, builtClient', NEW t \in Try, verb'[t[1]] \in Item
             PROVE  Telling(t)'
  BY DEF Tells, Item
<1>1. /\ builtClient /\ verb' = verb /\ verb[t[1]] \in Item /\ Telling(t) /\ Flow(t)
      /\ client[t] = "returned" <=> result[t].kind # "none"
  BY GivenStays DEF Tells, Item, Sound, Emails, Flows, TypeOK
<1>2. UNCHANGED MethodOf(t[1])
  BY <1>1 DEF MethodOf
<1>3. ASSUME client[t] # "idle", NEW S \in {{"sent"}, Stopped}, Settled(t[1], S)
      PROVE  Settled(t[1], S)'
  BY <1>1, <1>3, SettledStays
<1>4. CASE Same(t)
  <2>1. OnItsWay(t)' = OnItsWay(t)
    BY <1>4 DEF Same, OnItsWay
  <2>2. OnItsWay(t) \/ result[t].kind # "none" => client[t] # "idle"
    BY <1>1 DEF OnItsWay
  <2> QED
    BY <1>1, <1>2, <1>3, <1>4, <2>1, <2>2 DEF Same, Telling
<1>5. CASE Called(t)
  BY <1>1, <1>2, <1>5, OwnErrors DEF Called, Telling, OnItsWay, Flow
<1>6. CASE Reads(t)
  <2>1. result'[t].kind = "none" /\ OnItsWay(t) /\ client[t] # "idle"
    BY <1>1, <1>6 DEF Reads, OnItsWay
  <2> QED
    BY <1>1, <1>2, <1>3, <1>6, <2>1 DEF Reads, Telling
<1>7. CASE Redirected(t)
  BY <1>1, <1>7 DEF Redirected
<1>8. CASE Returned(t)
  <2>1. client'[t] = "returned" /\ client[t] # "idle" /\ method'[t] = method[t]
    BY <1>8 DEF Returned
  <2>2. CASE result'[t] = Err("ErrConnection")
    BY <1>1, <1>2, <2>1, <2>2, OwnErrors DEF Telling, OnItsWay
  <2>3. CASE client[t] = "reading" /\ result'[t] = Decode(t[1], resp[t])
    <3>1. /\ result'[t].kind = "ErrNotFound" => resp[t].status = 404
          /\ result'[t].kind = "ErrConflict" => resp[t].status = 409
      BY <2>3, DecodeSays
    <3> QED
      BY <1>1, <1>2, <1>3, <2>1, <2>3, <3>1 DEF Telling, OnItsWay, Flow
  <2> QED
    BY <1>8, <2>2, <2>3 DEF Returned
<1>9. CASE Served(t)
  <2>1. PICK r : By(t, r) /\ resp'[t] = IF client[t] = "returned" THEN resp[t] ELSE r
    BY <1>9 DEF Served
  <2>2. /\ client[t] # "idle" /\ method[t] = MethodOf(t[1]) /\ method'[t] = method[t]
        /\ client'[t] = client[t] /\ result'[t] = result[t]
    BY <1>1, <1>9 DEF Served, Flow, Telling
  <2>3. /\ r.status = 404 => Settled(t[1], {"sent"})
        /\ r.status = 409 => Settled(t[1], Stopped)
    BY <1>1, <2>1, <2>2, ServedTells
  <2> QED
    BY <1>1, <1>2, <1>3, <2>1, <2>2, <2>3 DEF Telling, OnItsWay
<1> QED
  BY <1>1, <1>4, <1>5, <1>6, <1>7, <1>8, <1>9, StepOf DEF Sound, Emails

\* With the client New builds, ErrNotFound tells the caller of an item that its email has gone out,
\* and ErrConflict that it was canceled or failed and never will, however calls and retries of several
\* programs interleave with emails that are due.
THEOREM RefusalsTellStates ==
    ASSUME OneEmailEach, OwnRefusals
    PROVE  Spec => []RefusalTellsState
<1>1. Init => Tells
  BY DEF Init, Tells, Telling, OnItsWay, Err, Result
<1>2. Tells => RefusalTellsState
  BY DEF Tells, Telling, Settled, Stopped, RefusalTellsState, Is
<1> QED
  BY <1>1, <1>2, StepTells, SoundInvariant, PTL DEF Spec
===============================================================================
