-------------------------- MODULE ClientCalls_proofs --------------------------
(***************************************************************************)
(* Proofs about ClientCalls for any jobs, verbs, keys, number of calls,    *)
(* refusals and bodies: types, one email per idempotency key, and the      *)
(* email a send returns.                                                   *)
(***************************************************************************)
EXTENDS ClientCalls, TLAPS

Responses == [status : {0, 200, 302, 307, 404, 409, 500} \cup Refusals,
              body : {"model", "emptyObject", "null", "malformed"},
              id : Try \cup {NoEmail}, replayed : BOOLEAN, count : Counts \cup {0}]
Results == [kind : Kinds, id : Try \cup {NoEmail}, replayed : BOOLEAN, count : Counts \cup {0}]

\* The API keeps, for each key, the one email it accepted for it.
KeysKept ==
    /\ \A k \in Key : stored[k] # NoEmail => stored[k] \in created
    /\ \A t \in created : KeyOf[t[1]] \in Key => stored[KeyOf[t[1]]] = t

Own(t, id) == id \in created /\ id[1] = t[1]

\* The same, after the step.
OwnNext(t, id) == id \in created' /\ id[1] = t[1]

\* A send stays a POST, and the email of a success on its way to it, or read from it, is its own.
SendOwns(t) ==
    /\ method[t] \in {"none", "POST"}
    /\ resp[t].status \in 200..299 => Own(t, resp[t].id)
    /\ result[t].kind = "ok" => Own(t, result[t].id)

\* So it is for every send on the client New builds.
SendsOwn == builtClient => \A t \in Try : verb[t[1]] = "send" => SendOwns(t)

-------------------------------------------------------------------------------
\* A call is of one of the jobs.
LEMMA TryIsOfJob == \A t \in Try : t[1] \in Job /\ t # NoEmail
BY DEF Try, NoEmail

\* Every kind of error is a result of a call.
LEMMA ErrIsResult == \A k \in Kinds : Err(k) \in Results
BY DEF Err, Result, Results

\* Every status the API answers with makes a response.
LEMMA BareIsResponse ==
    \A s \in {0, 200, 302, 307, 404, 409, 500} \cup Refusals : Bare(s) \in Responses
BY DEF Bare, Response, Responses

\* The statuses of refusals are not 2xx.
LEMMA RefusalIsNoSuccess == \A s \in Refusals : s \notin 200..299
BY ClientAssumption

\* The API answers with a response of some kind.
Responds(t) == \E r \in Responses : Respond(t, r)

\* So it does when it accepts or replays an email.
LEMMA RespondsModel ==
    ASSUME NEW t, NEW e \in Try \cup {NoEmail}, NEW r \in BOOLEAN, NEW n \in Counts \cup {0},
           \E b \in Bodies : Respond(t, Response(200, b, e, r, n))
    PROVE  Responds(t)
<1>1. PICK b \in Bodies : Respond(t, Response(200, b, e, r, n))
  OBVIOUS
<1>2. Response(200, b, e, r, n) \in Responses
  BY ClientAssumption DEF Response, Responses
<1>3. QED
  BY <1>1, <1>2, Zenon DEF Responds

\* So it does when it refuses.
LEMMA RespondsBare ==
    ASSUME NEW t, NEW s \in {0, 200, 302, 307, 404, 409, 500} \cup Refusals, Respond(t, Bare(s))
    PROVE  Responds(t)
<1>1. Bare(s) \in Responses
  BY BareIsResponse
<1>2. QED
  BY <1>1, Zenon DEF Responds

\* Every response read in full is decoded to a result.
LEMMA DecodeIsResult ==
    ASSUME NEW j, NEW r \in Responses
    PROVE  Decode(j, r) \in Results /\ Decode(j, r).kind # "none"
<1>1. ASSUME NEW s PROVE sentinelFor(s) \in Kinds \ {"none"}
  BY DEF sentinelFor, statusSentinels, Kinds, APIKinds
<1>2. ASSUME NEW s PROVE Err(sentinelFor(s)) \in Results /\ Err(sentinelFor(s)).kind # "none"
  BY <1>1, ErrIsResult DEF Err, Result
<1>3. r.id \in Try \cup {NoEmail} /\ r.replayed \in BOOLEAN /\ r.count \in Counts \cup {0}
  BY DEF Responses
<1>4. Result("ok", r.id, r.replayed, r.count) \in Results /\ Result("ok", r.id, r.replayed, r.count).kind # "none"
  BY <1>3 DEF Result, Results, Kinds
<1>5. /\ Result("ok", NoEmail, FALSE, 0) \in Results /\ Result("ok", NoEmail, FALSE, 0).kind # "none"
      /\ Err("ErrUnexpectedResponse") \in Results /\ Err("ErrUnexpectedResponse").kind # "none"
  BY DEF Err, Result, Results, Kinds
<1>6. QED
  BY <1>2, <1>4, <1>5 DEF Decode

\* A call that returns a result keeps the types of the two variables of the caller.
LEMMA ReturnKeepsTypes ==
    ASSUME TypeOK, NEW t \in Try, NEW r \in Results, r.kind # "none", Return(t, r)
    PROVE  /\ client' \in [Try -> {"idle", "waiting", "reading", "returned"}]
           /\ result' \in [Try -> Results]
           /\ \A u \in Try : client'[u] = "returned" <=> result'[u].kind # "none"
BY DEF Return, TypeOK, Results

-------------------------------------------------------------------------------
\* The initial states have their types.
LEMMA InitTypeOK == Init => TypeOK
<1> SUFFICES ASSUME Init PROVE TypeOK
  OBVIOUS
<1>1. builtClient \in BOOLEAN /\ verb \in [Job -> Verb]
  BY Zenon DEF Init
<1>2. result \in [Try -> Results] /\ \A t \in Try : result[t].kind = "none"
  <2>1. Err("none") \in Results /\ Err("none").kind = "none"
    BY ErrIsResult DEF Err, Result, Kinds
  <2>2. QED
    BY <2>1 DEF Init
<1>3. resp \in [Try -> Responses]
  BY BareIsResponse DEF Init
<1>4. status \in [Try -> {"none", "scheduled", "canceled", "sent", "failed"}] /\ effect \in [Try -> SUBSET Try]
  BY DEF Init
<1>5. QED
  BY <1>1, <1>2, <1>3, <1>4 DEF Init, TypeOK, Results, Responses

\* A change to emails keeps the types of what the collection is.
LEMMA ChangeKeepsTypes ==
    ASSUME TypeOK, NEW t \in Try, NEW emails \in SUBSET Try, Change(t, emails)
    PROVE  /\ status' \in [Try -> {"none", "scheduled", "canceled", "sent", "failed"}]
           /\ effect' \in [Try -> SUBSET Try]
BY DEF Change, TypeOK

\* Serving a request keeps the types of what it touches.
LEMMA ServeKeepsTypes ==
    ASSUME TypeOK, NEW t \in Try, Serve(t)
    PROVE  /\ wire' \in [Try -> {"none", "request", "response"}]
           /\ resp' \in [Try -> Responses]
           /\ created' \subseteq Try
           /\ stored' \in [Key -> Try \cup {NoEmail}]
           /\ status' \in [Try -> {"none", "scheduled", "canceled", "sent", "failed"}]
           /\ effect' \in [Try -> SUBSET Try]
<1>1. resp \in [Try -> Responses] /\ wire \in [Try -> {"none", "request", "response"}]
  BY DEF TypeOK, Responses
<1>2. ASSUME Responds(t)
      PROVE  /\ wire' \in [Try -> {"none", "request", "response"}]
             /\ resp' \in [Try -> Responses]
  BY <1>1, <1>2 DEF Responds, Respond
<1>3. CASE Refuse(t)
  <2>1. PICK s \in Refusals \cup (IF resp[t].status = 0 THEN {302, 307} ELSE {}) : Respond(t, Bare(s))
    BY <1>3 DEF Refuse
  <2>2. s \in {0, 200, 302, 307, 404, 409, 500} \cup Refusals
    BY <2>1
  <2>5. Responds(t)
    BY <2>1, <2>2, RespondsBare, Zenon
  <2>3. UNCHANGED <<created, stored, status, effect>>
    BY <1>3 DEF Refuse, serverVars, emailVars
  <2>4. QED
    BY <1>2, <2>5, <2>3 DEF TypeOK
<1>4. CASE ServeSend(t)
  <2> DEFINE k == SentKey(t[1])
  <2>1. UNCHANGED effect
    BY <1>4 DEF ServeSend
  <2>2. CASE k \in Key /\ stored[k] # NoEmail
    <3>1. stored[k] \in Try
      BY <2>2 DEF TypeOK
    <3>2. UNCHANGED <<created, stored, status>>
      BY <1>4, <2>2 DEF ServeSend
    <3>3. CASE stored[k][1] = t[1]
      <4>1. \E b \in Bodies : Respond(t, Response(200, b, stored[k], TRUE, 0))
        BY <1>4, <2>2, <3>3, Zenon DEF ServeSend
      <4>2. Responds(t)
        BY <3>1, <4>1, RespondsModel
      <4>3. QED
        BY <1>2, <2>1, <3>2, <4>2 DEF TypeOK
    <3>4. CASE stored[k][1] # t[1]
      <4>1. Respond(t, Bare(409))
        BY <1>4, <2>2, <3>4, Zenon DEF ServeSend
      <4>2. Responds(t)
        BY <4>1, RespondsBare
      <4>3. QED
        BY <1>2, <2>1, <3>2, <4>2 DEF TypeOK
    <3>5. QED
      BY <3>3, <3>4
  <2>3. CASE ~(k \in Key /\ stored[k] # NoEmail)
    <3>1. /\ created' = created \cup {t}
          /\ stored' = [x \in Key |-> IF x = k THEN t ELSE stored[x]]
          /\ status' = [status EXCEPT ![t] = IF t[1] \in Scheduling THEN "scheduled" ELSE @]
      BY <1>4, <2>3 DEF ServeSend
    <3>2. \/ \E b \in Bodies : Respond(t, Response(200, b, t, FALSE, 0))
          \/ Respond(t, Bare(500))
      BY <1>4, <2>3, Zenon DEF ServeSend
    <3>3. Responds(t)
      <4>1. CASE \E b \in Bodies : Respond(t, Response(200, b, t, FALSE, 0))
        BY <4>1, RespondsModel, Zenon
      <4>2. CASE Respond(t, Bare(500))
        BY <4>2, RespondsBare
      <4>3. QED
        BY <3>2, <4>1, <4>2
    <3>4. QED
      BY <1>2, <2>1, <3>1, <3>3 DEF TypeOK
  <2>4. QED
    BY <2>2, <2>3
<1>5. CASE ServeItem(t)
  <2>1. PICK e \in Known(t[1]) :
          \/ Respond(t, Bare(404)) /\ UNCHANGED emailVars
          \/ Respond(t, Bare(409)) /\ UNCHANGED emailVars
          \/ UNCHANGED emailVars /\ \E b \in Bodies : Respond(t, Response(200, b, e, FALSE, 0))
          \/ Change(t, {e}) /\ \E b \in Bodies : Respond(t, Response(200, b, e, FALSE, 0))
    BY <1>5, Zenon DEF ServeItem
  <2>2. e \in Try
    BY DEF Known
  <2>3. Responds(t)
    <3>1. CASE Respond(t, Bare(404))
      BY <3>1, RespondsBare
    <3>2. CASE Respond(t, Bare(409))
      BY <3>2, RespondsBare
    <3>3. CASE \E b \in Bodies : Respond(t, Response(200, b, e, FALSE, 0))
      BY <2>2, <3>3, RespondsModel
    <3>4. QED
      BY <2>1, <3>1, <3>2, <3>3
  <2>4. UNCHANGED <<created, stored>>
    BY <1>5 DEF ServeItem
  <2>5. /\ status' \in [Try -> {"none", "scheduled", "canceled", "sent", "failed"}]
        /\ effect' \in [Try -> SUBSET Try]
    <3>1. CASE UNCHANGED emailVars
      BY <3>1 DEF emailVars, TypeOK
    <3>2. CASE Change(t, {e})
      BY <2>2, <3>2, ChangeKeepsTypes
    <3>3. QED
      BY <2>1, <3>1, <3>2
  <2>6. QED
    BY <1>2, <2>3, <2>4, <2>5 DEF TypeOK
<1>6. CASE ServeBatch(t)
  <2> DEFINE pending == {e \in Try : status[e] = "scheduled"}
  <2>1. Change(t, pending) /\ UNCHANGED <<created, stored>>
    BY <1>6, Zenon DEF ServeBatch
  <2>2. \E b \in Bodies : Respond(t, Response(200, b, t, FALSE, Cardinality(pending)))
    BY <1>6, Zenon DEF ServeBatch
  <2>3. Cardinality(pending) \in Counts \cup {0}
    BY DEF Counts
  <2>4. Responds(t)
    BY <2>2, <2>3, RespondsModel
  <2>5. QED
    BY <1>2, <2>1, <2>4, ChangeKeepsTypes DEF TypeOK
<1>8. CASE ServeRedirected(t)
  <2>1. \E b \in Bodies : Respond(t, Response(200, b, t, FALSE, 0))
    BY <1>8, Zenon DEF ServeRedirected
  <2>2. UNCHANGED <<created, stored, status, effect>> /\ Responds(t)
    BY <1>8, <2>1, RespondsModel DEF ServeRedirected, serverVars, emailVars
  <2>3. QED
    BY <1>2, <2>2 DEF TypeOK
<1>7. QED
  BY <1>3, <1>4, <1>5, <1>6, <1>8 DEF Serve

\* Every step keeps the types.
LEMMA StepTypeOK == TypeOK /\ [Next]_vars => TypeOK'
<1> SUFFICES ASSUME TypeOK, [Next]_vars PROVE TypeOK'
  OBVIOUS
<1>1. ASSUME NEW t \in Try, Call(t) PROVE TypeOK'
  <2>1. CASE t[1] \in Unbuildable
    <3>1. Return(t, Err("local")) /\ UNCHANGED <<verb, builtClient, wire, method, resp, created, stored, status, effect>>
      BY <1>1, <2>1 DEF Call, given, wireVars, serverVars, emailVars
    <3>2. Err("local") \in Results /\ Err("local").kind # "none"
      BY ErrIsResult DEF Err, Result, Kinds
    <3>3. QED
      BY <3>1, <3>2, ReturnKeepsTypes DEF TypeOK, Results
  <2>2. CASE t[1] \notin Unbuildable
    <3>1. /\ client' = [client EXCEPT ![t] = "waiting"] /\ client[t] = "idle"
          /\ wire' = [wire EXCEPT ![t] = "request"]
          /\ method' = [method EXCEPT ![t] = MethodOf(t[1])]
          /\ UNCHANGED <<verb, builtClient, result, resp, created, stored, status, effect>>
      BY <1>1, <2>2 DEF Call, given, serverVars, emailVars
    <3>2. MethodOf(t[1]) \in {"POST", "PATCH", "DELETE", "GET"}
      BY TryIsOfJob DEF MethodOf, TypeOK, Verb, Batch
    <3>3. QED
      BY <3>1, <3>2 DEF TypeOK
  <2>3. QED
    BY <2>1, <2>2
<1>2. ASSUME NEW t \in Try, Headers(t) PROVE TypeOK'
  BY <1>2 DEF Headers, TypeOK, given, wireVars, serverVars, emailVars
<1>3. ASSUME NEW t \in Try, NEW r \in Results, r.kind # "none", Return(t, r),
             UNCHANGED <<given, wireVars, serverVars>>
      PROVE  TypeOK'
  <2>1. UNCHANGED <<verb, builtClient, wire, method, resp, created, stored, status, effect>>
    BY <1>3 DEF given, wireVars, serverVars, emailVars
  <2>2. QED
    BY <1>3, <2>1, ReturnKeepsTypes DEF TypeOK, Results
<1>4. Err("ErrConnection") \in Results /\ Err("ErrConnection").kind # "none"
  BY ErrIsResult DEF Err, Result, Kinds
<1>5. ASSUME NEW t \in Try, Redirect(t) PROVE TypeOK'
  <2>1. CASE builtClient
    <3>1. Return(t, Err("ErrConnection")) /\ UNCHANGED wireVars /\ UNCHANGED <<given, serverVars>>
      BY <1>5, <2>1, Zenon DEF Redirect
    <3>2. UNCHANGED <<given, wireVars, serverVars>>
      BY <3>1
    <3>3. QED
      BY <1>3, <1>4, <3>1, <3>2, Zenon
  <2>2. CASE ~builtClient
    <3>1. FollowRedirect(t) /\ UNCHANGED <<given, serverVars>>
      BY <1>5, <2>2, Zenon DEF Redirect
    <3>2. QED
      BY <3>1 DEF FollowRedirect, TypeOK, given, callVars, serverVars, emailVars
  <2>3. QED
    BY <2>1, <2>2
<1>6. ASSUME NEW t \in Try, ReadBody(t) PROVE TypeOK'
  <2>1. resp[t] \in Responses
    BY DEF TypeOK, Responses
  <2>2. QED
    BY <1>3, <1>6, <2>1, DecodeIsResult DEF ReadBody
<1>7. ASSUME NEW t \in Try, GiveUp(t) PROVE TypeOK'
  BY <1>3, <1>4, <1>7 DEF GiveUp
<1>8. ASSUME NEW t \in Try, Serve(t) PROVE TypeOK'
  BY <1>8, ServeKeepsTypes DEF Serve, TypeOK, Responses, given, callVars
<1>9. ASSUME NEW t \in Try, Due(t) PROVE TypeOK'
  BY <1>9 DEF Due, TypeOK, given, callVars, wireVars
<1>10. CASE UNCHANGED vars
  BY <1>10 DEF vars, TypeOK, given, callVars, wireVars, serverVars, emailVars
<1>11. QED
  BY <1>1, <1>2, <1>5, <1>6, <1>7, <1>8, <1>9, <1>10 DEF Next

\* Every variable keeps its type, and a call has a result exactly when it returned.
THEOREM TypeCorrectness == Spec => []TypeOK
BY InitTypeOK, StepTypeOK, PTL DEF Spec

-------------------------------------------------------------------------------
\* Only an email the API accepts changes what it remembers.
LEMMA AcceptsOrKeeps ==
    ASSUME [Next]_vars
    PROVE  \/ \E t \in Try : Serve(t) /\ ServeSend(t)
           \/ UNCHANGED <<created, stored>>
<1>1. ASSUME NEW t \in Try, Serve(t), ~ServeSend(t) PROVE UNCHANGED <<created, stored>>
  BY <1>1 DEF Serve, Refuse, ServeItem, ServeBatch, ServeRedirected, serverVars
<1>2. ASSUME NEW t \in Try, Call(t) \/ Headers(t) \/ Redirect(t) \/ ReadBody(t) \/ GiveUp(t)
      PROVE  UNCHANGED <<created, stored>>
  BY <1>2 DEF Call, Headers, Redirect, ReadBody, GiveUp, serverVars
<1>3. CASE (\E t \in Try : Due(t)) \/ UNCHANGED vars
  BY <1>3 DEF Due, vars, serverVars
<1>4. QED
  BY <1>1, <1>2, <1>3 DEF Next

\* An email is accepted for a key only while none is remembered for it.
LEMMA ServeSendCases ==
    ASSUME NEW t \in Try, ServeSend(t)
    PROVE  \/ UNCHANGED <<created, stored>>
           \/ /\ ~(SentKey(t[1]) \in Key /\ stored[SentKey(t[1])] # NoEmail)
              /\ created' = created \cup {t}
              /\ stored' = [x \in Key |-> IF x = SentKey(t[1]) THEN t ELSE stored[x]]
<1> DEFINE k == SentKey(t[1])
<1>1. CASE k \in Key /\ stored[k] # NoEmail
  BY <1>1 DEF ServeSend
<1>2. CASE ~(k \in Key /\ stored[k] # NoEmail)
  BY <1>2 DEF ServeSend
<1>3. QED
  BY <1>1, <1>2

\* Every step keeps one email per key.
LEMMA StepKeysKept == TypeOK /\ KeysKept /\ [Next]_vars => KeysKept'
<1> SUFFICES ASSUME TypeOK, KeysKept, [Next]_vars PROVE KeysKept'
  OBVIOUS
<1>1. CASE UNCHANGED <<created, stored>>
  BY <1>1 DEF KeysKept
<1>2. ASSUME NEW t \in Try, ServeSend(t) PROVE KeysKept'
  <2>1. CASE UNCHANGED <<created, stored>>
    BY <2>1 DEF KeysKept
  <2>2. CASE /\ ~(SentKey(t[1]) \in Key /\ stored[SentKey(t[1])] # NoEmail)
             /\ created' = created \cup {t}
             /\ stored' = [x \in Key |-> IF x = SentKey(t[1]) THEN t ELSE stored[x]]
    <3>1. ASSUME NEW x \in Key, stored'[x] # NoEmail PROVE stored'[x] \in created'
      BY <2>2, <3>1 DEF KeysKept
    <3>2. ASSUME NEW u \in created', KeyOf[u[1]] \in Key PROVE stored'[KeyOf[u[1]]] = u
      <4>1. CASE u = t
        BY <2>2, <3>2, <4>1 DEF SentKey
      <4>2. CASE u # t
        <5>1. u \in created /\ u # NoEmail /\ stored[KeyOf[u[1]]] = u
          BY <2>2, <3>2, <4>2, TryIsOfJob DEF KeysKept, TypeOK
        <5>2. QED
          BY <2>2, <3>2, <5>1
      <4>3. QED
        BY <4>1, <4>2
    <3>3. QED
      BY <3>1, <3>2 DEF KeysKept
  <2>3. QED
    BY <1>2, <2>1, <2>2, ServeSendCases
<1>3. QED
  BY <1>1, <1>2, AcceptsOrKeeps

\* Types and keys are kept in every behaviour.
LEMMA KeysKeptInvariant == Spec => [](TypeOK /\ KeysKept)
<1>1. Init => KeysKept
  BY DEF Init, KeysKept
<1>2. QED
  BY <1>1, InitTypeOK, StepTypeOK, StepKeysKept, PTL DEF Spec

\* The API accepts at most one email for a key, for any jobs that share keys and any retries.
THEOREM SendsOncePerKey == Spec => []SendOncePerKey
<1>1. TypeOK /\ KeysKept => SendOncePerKey
  BY TryIsOfJob DEF TypeOK, KeysKept, SendOncePerKey, Key
<1>2. QED
  BY <1>1, KeysKeptInvariant, PTL

-------------------------------------------------------------------------------
\* An email that is accepted stays accepted.
LEMMA CreatedGrows == [Next]_vars => created \subseteq created'
BY AcceptsOrKeeps, ServeSendCases

\* A step keeps a send its own email when the parts of the call that change are sound.
LEMMA OwnStays ==
    ASSUME [Next]_vars, NEW t, SendOwns(t),
           method'[t] \in {"none", "POST"},
           resp'[t] = resp[t] \/ (resp'[t].status \in 200..299 => OwnNext(t, resp'[t].id)),
           result'[t] = result[t] \/ (result'[t].kind = "ok" => OwnNext(t, result'[t].id))
    PROVE  SendOwns(t)'
<1>1. resp'[t].status \in 200..299 => OwnNext(t, resp'[t].id)
  BY CreatedGrows DEF SendOwns, Own, OwnNext
<1>2. result'[t].kind = "ok" => OwnNext(t, result'[t].id)
  BY CreatedGrows DEF SendOwns, Own, OwnNext
<1>3. QED
  BY <1>1, <1>2 DEF SendOwns, Own, OwnNext

\* Every answer to the POST of a send with a 2xx status carries an email of the same job.
LEMMA ServeIsOwn ==
    ASSUME TypeOK, KeysKept, NEW t \in Try, Serve(t), verb[t[1]] = "send", SendOwns(t)
    PROVE  resp'[t] = resp[t] \/ (resp'[t].status \in 200..299 => OwnNext(t, resp'[t].id))
<1>1. ASSUME NEW r, Respond(t, r) PROVE resp'[t] = resp[t] \/ resp'[t] = r
  BY <1>1 DEF Respond, TypeOK
<1>2. CASE Refuse(t)
  <2>1. PICK s \in Refusals \cup (IF resp[t].status = 0 THEN {302, 307} ELSE {}) : Respond(t, Bare(s))
    BY <1>2 DEF Refuse
  <2>2. s \notin 200..299
    <3>2. CASE s \in Refusals
      BY <3>2, RefusalIsNoSuccess
    <3>3. CASE s \in {302, 307}
      BY <3>3
    <3>4. QED
      BY <2>1, <3>2, <3>3
  <2>3. Bare(s).status = s
    BY DEF Bare, Response
  <2>4. QED
    BY <1>1, <2>1, <2>2, <2>3
<1>3. CASE ServeSend(t)
  <2> DEFINE k == SentKey(t[1])
  <2>1. CASE k \in Key /\ stored[k] # NoEmail
    <3>1. CASE stored[k][1] = t[1]
      <4>1. PICK b \in Bodies : Respond(t, Response(200, b, stored[k], TRUE, 0))
        BY <1>3, <2>1, <3>1, Zenon DEF ServeSend
      <4>2. UNCHANGED created
        BY <1>3, <2>1 DEF ServeSend
      <4>3. stored[k] \in created'
        BY <2>1, <4>2 DEF KeysKept
      <4>4. Response(200, b, stored[k], TRUE, 0).id = stored[k]
        BY DEF Response
      <4>5. QED
        BY <1>1, <3>1, <4>1, <4>3, <4>4 DEF OwnNext
    <3>2. CASE stored[k][1] # t[1]
      <4>1. Respond(t, Bare(409))
        BY <1>3, <2>1, <3>2, Zenon DEF ServeSend
      <4>2. Bare(409).status = 409
        BY DEF Bare, Response
      <4>3. QED
        BY <1>1, <4>1, <4>2
    <3>3. QED
      BY <3>1, <3>2
  <2>2. CASE ~(k \in Key /\ stored[k] # NoEmail)
    <3>1. t \in created'
      BY <1>3, <2>2 DEF ServeSend
    <3>2. \/ \E b \in Bodies : Respond(t, Response(200, b, t, FALSE, 0))
          \/ Respond(t, Bare(500))
      BY <1>3, <2>2, Zenon DEF ServeSend
    <3>3. CASE \E b \in Bodies : Respond(t, Response(200, b, t, FALSE, 0))
      <4>1. PICK b \in Bodies : Respond(t, Response(200, b, t, FALSE, 0))
        BY <3>3
      <4>2. Response(200, b, t, FALSE, 0).id = t
        BY DEF Response
      <4>3. QED
        BY <1>1, <3>1, <4>1, <4>2 DEF OwnNext
    <3>4. CASE Respond(t, Bare(500))
      <4>1. Bare(500).status = 500
        BY DEF Bare, Response
      <4>2. QED
        BY <1>1, <3>4, <4>1
    <3>5. QED
      BY <3>2, <3>3, <3>4
  <2>3. QED
    BY <2>1, <2>2
<1>4. CASE ServeItem(t) \/ ServeBatch(t) \/ ServeRedirected(t)
  BY <1>4 DEF ServeItem, ServeBatch, ServeRedirected, SendOwns, Batch
<1>5. QED
  BY <1>2, <1>3, <1>4 DEF Serve

\* A call that returns an error owes its caller no email.
LEMMA ErrIsNoSuccess ==
    ASSUME TypeOK, NEW t \in Try, NEW k, k # "ok", Return(t, Err(k))
    PROVE  result'[t].kind # "ok"
BY DEF Return, Err, Result, TypeOK

\* A send decodes to a success only a 2xx response with its model, and keeps the id.
LEMMA DecodeKeepsId ==
    ASSUME NEW j, NEW r, verb[j] = "send", Decode(j, r).kind = "ok"
    PROVE  r.status \in 200..299 /\ Decode(j, r).id = r.id
<1>1. ASSUME NEW s PROVE sentinelFor(s) # "ok"
  BY DEF sentinelFor, statusSentinels
<1>2. \A k : Err(k).kind = k
  BY DEF Err, Result
<1>3. r.status \in 200..299 /\ r.body = "model"
  BY <1>1, <1>2 DEF Decode
<1>4. QED
  BY <1>3 DEF Decode, Result

\* Every step keeps every send its own email.
LEMMA StepSendsOwn == TypeOK /\ KeysKept /\ SendsOwn /\ [Next]_vars => SendsOwn'
<1> SUFFICES ASSUME TypeOK, KeysKept, SendsOwn, [Next]_vars,
                    builtClient', NEW t \in Try, verb'[t[1]] = "send"
             PROVE  SendOwns(t)'
  BY DEF SendsOwn
<1>1. builtClient /\ verb[t[1]] = "send" /\ SendOwns(t)
  <2>1. UNCHANGED given
    BY DEF Next, Call, Headers, Redirect, ReadBody, GiveUp, Serve, Due, vars
  <2>2. QED
    BY <2>1 DEF given, SendsOwn
<1>2. CASE UNCHANGED <<method, resp, result>>
  BY <1>1, <1>2, OwnStays DEF SendOwns
<1>3. ASSUME NEW u \in Try, NEW r, Return(u, r), UNCHANGED wireVars,
             u = t => (r.kind = "ok" => OwnNext(t, r.id))
      PROVE  SendOwns(t)'
  <2>1. UNCHANGED <<method, resp>>
    BY <1>3 DEF wireVars
  <2>2. result'[t] = IF u = t THEN r ELSE result[t]
    BY <1>3 DEF Return, TypeOK
  <2>3. method'[t] \in {"none", "POST"}
    BY <1>1, <2>1 DEF SendOwns
  <2>4. QED
    BY <1>1, <1>3, <2>1, <2>2, <2>3, OwnStays
<1>4. \A k : Err(k).kind = k
  BY DEF Err, Result
<1>5. ASSUME NEW u \in Try, Call(u) PROVE SendOwns(t)'
  <2>1. CASE u[1] \in Unbuildable
    <3>1. Return(u, Err("local")) /\ UNCHANGED wireVars
      BY <1>5, <2>1 DEF Call
    <3>2. QED
      BY <1>3, <1>4, <3>1
  <2>2. CASE u[1] \notin Unbuildable
    <3>1. method' = [method EXCEPT ![u] = MethodOf(u[1])] /\ UNCHANGED <<result, resp>>
      BY <1>5, <2>2 DEF Call
    <3>2. MethodOf(t[1]) = "POST"
      BY <1>1, Zenon DEF MethodOf
    <3>3. method'[t] \in {"none", "POST"}
      BY <1>1, <3>1, <3>2 DEF SendOwns, TypeOK
    <3>4. QED
      BY <1>1, <3>1, <3>3, OwnStays
  <2>3. QED
    BY <2>1, <2>2
<1>6. ASSUME NEW u \in Try, Headers(u) PROVE SendOwns(t)'
  BY <1>2, <1>6 DEF Headers, wireVars
<1>7. ASSUME NEW u \in Try, Redirect(u) PROVE SendOwns(t)'
  <2>1. Return(u, Err("ErrConnection")) /\ UNCHANGED wireVars
    BY <1>1, <1>7, Zenon DEF Redirect
  <2>2. QED
    BY <1>3, <1>4, <2>1
<1>8. ASSUME NEW u \in Try, ReadBody(u) PROVE SendOwns(t)'
  <2>1. Return(u, Decode(u[1], resp[u])) /\ UNCHANGED wireVars /\ UNCHANGED created
    BY <1>8 DEF ReadBody, serverVars
  <2>2. ASSUME u = t, Decode(t[1], resp[t]).kind = "ok"
        PROVE  OwnNext(t, Decode(t[1], resp[t]).id)
    BY <1>1, <2>1, <2>2, DecodeKeepsId DEF SendOwns, Own, OwnNext
  <2>3. QED
    BY <1>3, <2>1, <2>2
<1>9. ASSUME NEW u \in Try, GiveUp(u) PROVE SendOwns(t)'
  BY <1>3, <1>4, <1>9 DEF GiveUp
<1>10. ASSUME NEW u \in Try, Serve(u) PROVE SendOwns(t)'
  <2>1. UNCHANGED <<result, method>>
    BY <1>10 DEF Serve, callVars
  <2>2. resp'[t] = resp[t] \/ (resp'[t].status \in 200..299 => OwnNext(t, resp'[t].id))
    <3>1. CASE u = t
      BY <1>1, <1>10, <3>1, ServeIsOwn
    <3>2. CASE u # t
      <4>1. \E r : Respond(u, r)
        BY <1>10 DEF Serve, Refuse, ServeSend, ServeItem, ServeBatch, ServeRedirected
      <4>2. QED
        BY <3>2, <4>1 DEF Respond, TypeOK
    <3>3. QED
      BY <3>1, <3>2
  <2>3. method'[t] \in {"none", "POST"}
    BY <1>1, <2>1 DEF SendOwns
  <2>4. QED
    BY <1>1, <2>1, <2>2, <2>3, OwnStays
<1>11. ASSUME NEW u \in Try, Due(u) PROVE SendOwns(t)'
  BY <1>2, <1>11 DEF Due, callVars, wireVars
<1>12. CASE UNCHANGED vars
  BY <1>2, <1>12 DEF vars, callVars, wireVars
<1>13. QED
  BY <1>5, <1>6, <1>7, <1>8, <1>9, <1>10, <1>11, <1>12 DEF Next

\* A send that returns no error returns the id of an email accepted from that very job, for any
\* jobs that share keys, any retries and any order in which the network serves them.
THEOREM SuccessesAreOwn == Spec => []SuccessIsOwnEmail
<1>1. Init => SendsOwn
  BY DEF Init, SendsOwn, SendOwns, Err, Result, Bare, Response
<1>2. SendsOwn => SuccessIsOwnEmail
  BY DEF SendsOwn, SendOwns, Own, SuccessIsOwnEmail, SendOk
<1>3. QED
  BY <1>1, <1>2, StepSendsOwn, KeysKeptInvariant, PTL DEF Spec

\* All successes with one key are one email of one message, for any number of jobs that share the
\* key and of calls that use it.
THEOREM OneAnswerPerKey == Spec => []KeyHasOneAnswer
<1>1. SendOncePerKey /\ SuccessIsOwnEmail => KeyHasOneAnswer
  <2> SUFFICES ASSUME SendOncePerKey, SuccessIsOwnEmail, NEW t \in Try, NEW u \in Try,
                      SendOk(t), SendOk(u), KeyOf[t[1]] = KeyOf[u[1]], KeyOf[t[1]] # NoKey
               PROVE  t[1] = u[1] /\ result[t].id = result[u].id
    BY DEF KeyHasOneAnswer
  <2>1. /\ result[t].id \in created /\ result[t].id[1] = t[1]
        /\ result[u].id \in created /\ result[u].id[1] = u[1]
    BY DEF SuccessIsOwnEmail
  <2>2. result[t].id = result[u].id
    BY <2>1 DEF SendOncePerKey
  <2>3. QED
    BY <2>1, <2>2
<1>2. QED
  BY <1>1, SendsOncePerKey, SuccessesAreOwn, PTL
===============================================================================
