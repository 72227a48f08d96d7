------------------------------ MODULE SignedEvents ----------------------------
(***************************************************************************)
(* Webhook deliveries as data (webhooks.go, events.go): Sign on one side,  *)
(* Verify on the other, of a request whose timestamp ages, whose headers   *)
(* and body may be damaged on the way, whose body a newer platform may     *)
(* have written, and lies in a buffer the server uses again for the next   *)
(* request.                                                                *)
(***************************************************************************)
EXTENDS Integers, Sequences, FiniteSets

CONSTANTS
    Delivery,           \* values of X-Webhook-Id
    BodiesOf,           \* the bodies each delivery may have
    Stamp,              \* instants a request may be signed with
    Secrets, Secret,    \* secrets requests are signed with, and the receiver's
    Tolerances,         \* what a receiver may pass as tolerance
    defaultTolerance,
    MaxDuration,        \* the longest time.Duration
    MaxSends,           \* bound: requests signed
    MaxEvents,          \* bound: events the application holds
    MaxClock,           \* bound: the receiver's clock
    Missing,            \* a header that is not there
    Malformed           \* a timestamp or a signature that cannot be decoded

\* The members of an event's data, as paths.
Block(name, members) == {<<name, m>> : m \in members}
messageContext ==
    {<<m>> : m \in {"email_id", "created_at", "domain", "subject", "to", "from", "tags"}}
deliveryContext == {"recipient", "timestamp"}
failureContext == deliveryContext \cup {"code", "reason"}
engagementContext == {"ipAddress", "userAgent", "timestamp", "country"}
clickContext == engagementContext \cup {"link"}
suppressionContext == {"recipients", "timestamp"}
scheduledContext == {"scheduled_at", "batch_id"}
sendFailureContext == {"reason", "timestamp"}

\* The payload structs and their members.
payloads == [
    SentData |-> messageContext \cup Block("sent", deliveryContext),
    DeliveredData |-> messageContext \cup Block("delivery", deliveryContext),
    BouncedData |-> messageContext \cup Block("bounce", failureContext),
    DelayedData |-> messageContext \cup Block("delay", failureContext),
    SuppressedData |-> messageContext \cup Block("suppression", suppressionContext),
    ScheduledData |-> messageContext \cup Block("scheduled", scheduledContext),
    FailedData |-> messageContext \cup Block("failed", sendFailureContext),
    OpenedData |-> messageContext \cup Block("open", engagementContext),
    ClickedData |-> messageContext \cup Block("click", clickContext),
    DomainStatusData |-> {<<"domain">>, <<"status">>, <<"onboarding_state">>}
                         \cup Block("previous", {"status", "onboarding_state"}),
    WebhookStatusData |->
        {<<"endpoint_url">>, <<"is_active">>, <<"is_deleted">>, <<"disabled_reason">>}
        \cup Block("previous", {"is_active", "is_deleted", "disabled_reason"})]

\* The catalogue: the struct each registered type decodes into.
registered == {
    <<"email.sent", "SentData">>, <<"email.delivered", "DeliveredData">>,
    <<"email.bounced", "BouncedData">>, <<"email.delivery_delayed", "DelayedData">>,
    <<"email.suppressed", "SuppressedData">>, <<"email.scheduled", "ScheduledData">>,
    <<"email.failed", "FailedData">>, <<"email.opened", "OpenedData">>,
    <<"email.clicked", "ClickedData">>, <<"domain.status", "DomainStatusData">>,
    <<"webhook.status", "WebhookStatusData">>}
eventTypes == [type \in {r[1] : r \in registered} |->
                  (CHOOSE r \in registered : r[1] = type)[2]]
Members(type) == payloads[eventTypes[type]]
\* What a struct has a field for: its members and the blocks they lie in.
Known(type) == Members(type) \cup {<<m[1]>> : m \in Members(type)}

\* The members that are pointers or slices, nil when they are null or absent.
Nilable(type) ==
    {m \in {<<"domain">>, <<"subject">>, <<"to">>, <<"from">>, <<"tags">>} : <<"email_id">> \in Members(type)}
    \cup {<<"scheduled", "batch_id">>, <<"suppression", "recipients">>}
\* The members encoded again only if they are not empty.
OmitEmptyForgotten == {<<b, m>> : b \in {"open", "click"}, m \in {"ipAddress", "userAgent"}}
OmitEmpty == {<<b, m>> : b \in {"open", "click"}, m \in {"ipAddress", "userAgent", "country"}}

\* A body: what it is as JSON, its envelope, its data block and the state of each member of it; a
\* block has one of its own where it is no object.
\* Its bytes change when it is decoded and encoded again.  "mistyped" is an object whose type or
\* created_at is no string.
Data(kind, members) == [kind |-> kind, members |-> members]
NoMembers == [m \in {} |-> "value"]
Body(json, type, createdAt, data) ==
    [json |-> json, type |-> type, createdAt |-> createdAt, data |-> data, bytes |-> "sent"]
Empty == Body("broken", "", "", Data("absent", NoMembers))
Encode(b) == [b EXCEPT !.bytes = "encoded again"]

\* What a hash is computed over, of any request that may arrive.
AnyBody == LET bodies == UNION {BodiesOf[d] : d \in Delivery} IN bodies \cup {Encode(b) : b \in bodies}
Hash == [id : Delivery, ts : Stamp, body : AnyBody, secret : Secrets]

ASSUME EventsAssumption ==
    /\ \A d \in Delivery : \A b \in BodiesOf[d] :
           /\ b.json \in {"object", "null", "array", "mistyped", "broken"} /\ b.bytes = "sent"
           /\ b.data.kind \in {"object", "null", "scalar", "absent"}
           /\ \A m \in DOMAIN b.data.members : b.data.members[m] \in {"value", "empty", "null", "misfit"}
           /\ b.data.kind # "object" => b.data.members = NoMembers
           /\ b.json = "null" => b = Body("null", "", "", Data("absent", NoMembers))
    /\ Stamp \subseteq Int /\ Tolerances \subseteq Int /\ Secret \in Secrets
    /\ MaxSends \in Nat /\ MaxEvents \in Nat /\ MaxClock \in Nat /\ MaxDuration \in Nat
    /\ defaultTolerance \in Int /\ \A n \in Tolerances \cup {defaultTolerance} : n < MaxDuration
    /\ {Missing, Malformed} \cap (Delivery \cup Stamp) = {}
    /\ Malformed \notin Hash /\ Missing \notin [prefix : BOOLEAN, hex : Hash]

VARIABLES
    clock,      \* the receiver's clock
    tolerance,  \* what the receiver passes to Verify
    body,       \* the body of each delivery
    sent,       \* the requests signed so far
    memory,     \* bodies by address; the server reads every request's into address 1
    events,     \* the events Verify returned, which the application keeps
    last        \* the last request verified, when, and the error

receiver == <<tolerance, body>>
vars == <<clock, receiver, sent, memory, events, last>>

Init ==
    /\ clock = 0 /\ tolerance \in Tolerances
    /\ body \in [Delivery -> UNION {BodiesOf[d] : d \in Delivery}]
    /\ \A d \in Delivery : body[d] \in BodiesOf[d]
    /\ sent = {} /\ memory = <<Empty>> /\ events = <<>>
    /\ last = [request |-> Missing, at |-> 0, err |-> "none"]

-------------------------------------------------------------------------------
\* The construction both sides share.

\* signatureMAC, the hash as an injective function of what it is computed over.
signatureMACWithoutTimestamp(id, timestamp, payload, secret) ==
    [id |-> id, ts |-> 0, body |-> payload, secret |-> secret]
signatureMAC(id, timestamp, payload, secret) ==
    [id |-> id, ts |-> timestamp, body |-> payload, secret |-> secret]

Sign(id, timestamp, payload, secret) ==
    [prefix |-> TRUE, hex |-> signatureMAC(id, timestamp, payload, secret)]

\* time.Since saturates.
Since(ts) == LET d == clock - ts IN
    IF d > MaxDuration THEN MaxDuration ELSE IF d < -MaxDuration THEN -MaxDuration ELSE d
Abs(n) == IF n < 0 THEN -n ELSE n

\* checkFreshness, with what VerifySignature makes of a tolerance that is not positive.
FreshIgnoresFuture(ts) == LET tol == IF tolerance <= 0 THEN defaultTolerance ELSE tolerance IN
    ts # Malformed /\ Since(ts) <= tol
checkFreshness(ts) == LET tol == IF tolerance <= 0 THEN defaultTolerance ELSE tolerance IN
    ts # Malformed /\ Abs(Since(ts)) <= tol

\* VerifySignature returns no error: the headers are there, then fresh, then the signature, with or
\* without its prefix, is that of the bytes received.
VerifySignature(r) ==
    /\ Missing \notin {r.id, r.ts, r.sig}
    /\ checkFreshness(r.ts)
    /\ r.sig.hex = signatureMAC(r.id, r.ts, r.body, Secret)

\* decodeEventData: a registered type whose members and blocks all fit, absent and null ones
\* becoming zero values, or else everything there is as UnknownData.
FitsIgnoringMembers(b) == b.type \in DOMAIN eventTypes /\ b.data.kind \in {"object", "null"}
Fits(b) ==
    /\ b.type \in DOMAIN eventTypes /\ b.data.kind \in {"object", "null"}
    /\ \A m \in DOMAIN b.data.members \cap Known(b.type) : b.data.members[m] # "misfit"
Zero(type, m) == IF m \in Nilable(type) THEN "nil" ELSE "empty"
decodeEventData(b) ==
    IF Fits(b)
    THEN [as |-> eventTypes[b.type],
          fields |-> [m \in Members(b.type) |->
              IF m \in DOMAIN b.data.members /\ b.data.members[m] \in {"value", "empty"}
              THEN b.data.members[m] ELSE Zero(b.type, m)]]
    ELSE [as |-> "UnknownData", fields |-> b.data.members]

\* ParseEvent fails on a body json.Unmarshal cannot decode into the envelope; null leaves it empty.
Parses(b) == b.json \in {"object", "null"}

\* Event.Raw: append to a nil slice allocates.
RawAliases(m, b) == [memory |-> m, at |-> 1]
Raw(m, b) == [memory |-> Append(m, b), at |-> Len(m) + 1]

\* What Verify returns for a request whose body is at the start of memory m.
Verify(r, m) ==
    IF ~VerifySignature(r) THEN [err |-> "ErrSignatureVerification", memory |-> m, events |-> events]
    ELSE IF ~Parses(r.body) THEN [err |-> "ErrUnexpectedResponse", memory |-> m, events |-> events]
    ELSE [err |-> "none", memory |-> Raw(m, r.body).memory,
          events |-> Append(events, [id |-> r.id, ts |-> r.ts, type |-> r.body.type,
                                     createdAt |-> r.body.createdAt,
                                     data |-> decodeEventData(r.body),
                                     raw |-> Raw(m, r.body).at])]

-------------------------------------------------------------------------------
Tick ==
    /\ clock < MaxClock /\ clock' = clock + 1
    /\ UNCHANGED <<receiver, sent, memory, events, last>>

\* The platform, or whoever replays a delivery, signs an attempt at it.
Send(d, ts, secret) ==
    /\ Cardinality(sent) < MaxSends
    /\ sent' = sent \cup {[id |-> d, ts |-> ts, body |-> body[d], sig |-> Sign(d, ts, body[d], secret)]}
    /\ UNCHANGED <<clock, receiver, memory, events, last>>

\* What a signed request arrives as, or is kept as in a fixture: as it was, without a header, with
\* one that cannot be decoded, with the bare hexadecimal, with a body that was decoded and encoded
\* again, or with an id, a timestamp or a signature that is not its own.
Arrivals(q) ==
    {q, [q EXCEPT !.id = Missing], [q EXCEPT !.ts = Missing], [q EXCEPT !.sig = Missing],
     [q EXCEPT !.ts = Malformed], [q EXCEPT !.sig.hex = Malformed], [q EXCEPT !.sig.prefix = FALSE],
     [q EXCEPT !.body = Encode(@)]}
    \cup {[q EXCEPT !.id = d] : d \in Delivery}
    \cup {[q EXCEPT !.ts = ts] : ts \in Stamp}
    \cup {[q EXCEPT !.sig = p.sig] : p \in sent}

\* A server reads a request into its buffer and hands it to Verify.
Receive(r) ==
    /\ Len(events) < MaxEvents
    /\ LET v == Verify(r, [memory EXCEPT ![1] = r.body]) IN
           /\ memory' = v.memory /\ events' = v.events
           /\ last' = [request |-> r, at |-> clock, err |-> v.err]
    /\ UNCHANGED <<clock, receiver, sent>>

Next ==
    \/ Tick
    \/ \E d \in Delivery, ts \in Stamp, secret \in Secrets : Send(d, ts, secret)
    \/ \E q \in sent : \E r \in Arrivals(q) : Receive(r)

Spec == Init /\ [][Next]_vars

-------------------------------------------------------------------------------
\* Every variable keeps its type, and every event its own place in memory.
EventsTypeOK ==
    /\ clock \in 0..MaxClock /\ tolerance \in Tolerances
    /\ \A q \in sent : q.id \in Delivery /\ q.ts \in Stamp /\ q.body = body[q.id]
    /\ Len(memory) = Len(events) + 1
    /\ \A i \in DOMAIN events : events[i].raw = i + 1
    /\ last.err \in {"none", "ErrSignatureVerification", "ErrUnexpectedResponse"}

\* Every event the application holds is one delivery that was signed with the receiver's secret:
\* its id, its timestamp and its bytes are those of one and the same request.  They stay so,
\* whatever was received since into the buffer the event was parsed from.
EventIsWhatWasSigned ==
    \A i \in DOMAIN events : \E q \in sent :
        /\ q.sig.hex.secret = Secret
        /\ events[i].id = q.id /\ events[i].ts = q.ts /\ memory[events[i].raw] = q.body

\* VerifySignature refuses exactly the requests that are not, byte for byte, one that was signed
\* with the receiver's secret at most the tolerance before or after it was read.  Only the prefix
\* of the signature may be gone.
VerdictIsRight ==
    last.request # Missing =>
        LET tol == IF tolerance > 0 THEN tolerance ELSE defaultTolerance
            r == last.request
        IN  last.err # "ErrSignatureVerification" <=>
                \E q \in sent : /\ q.sig.hex.secret = Secret
                                /\ r \in {q, [q EXCEPT !.sig.prefix = FALSE]}
                                /\ last.at - tol <= q.ts /\ q.ts <= last.at + tol

\* An event shows its receiver what the platform wrote, whatever version of it: the envelope as it
\* is, and either the struct of its own type, in which every modelled member that has a value
\* shows it and domain, subject and from tell unresolved from empty, or all members there are.
DataShowsBody ==
    \A i \in DOMAIN events : LET e == events[i]
                                 members == memory[e.raw].data.members IN
        /\ e.type = memory[e.raw].type /\ e.createdAt = memory[e.raw].createdAt
        /\ e.data.as = "UnknownData" => e.data.fields = members
        /\ e.data.as # "UnknownData" =>
             /\ e.data.as = eventTypes[e.type]
             /\ \A m \in DOMAIN e.data.fields \cap DOMAIN members :
                    members[m] # "null" => e.data.fields[m] = members[m]
             /\ <<"email_id">> \in DOMAIN e.data.fields =>
                    \A m \in {<<"domain">>, <<"subject">>, <<"from">>} :
                        e.data.fields[m] = "nil" <=>
                            ~(m \in DOMAIN members /\ members[m] # "null")

\* The members an event's data has when it is encoded again.
Encoded(data) == {m \in DOMAIN data.fields : m \in OmitEmpty => data.fields[m] # "empty"}

\* "A forwarder or an archiver must not manufacture data the sender chose not to record": of an
\* open or a click, address, client and country are encoded again only if they were sent.
ForwardInventsNothing ==
    \A i \in DOMAIN events :
        \A m \in Encoded(events[i].data) :
            m[Len(m)] \in {"ipAddress", "userAgent", "country"} =>
                m \in DOMAIN memory[events[i].raw].data.members
===============================================================================
