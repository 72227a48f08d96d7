# TLA+ models of mailkube-go

mailkube-go is a client SDK for an e-mail API and the receiving side of its
webhooks. It is small and mostly sequential; what is hard about it happens
between it and the other party: a send whose answer is lost, a retry that
overtakes the call it repeats, a webhook that is delivered again while the first
attempt is still being handled, pages that move while they are walked. The
modules in this directory model the SDK together with that other party and the
network. Line numbers refer to the repository at the commit this directory is
kept with.

## Inventory

| component | files | state it keeps | operations |
|---|---|---|---|
| Webhook handler | `webhooks_http.go`, `webhooks.go` | none: a request is a goroutine with its body, verdicts and response | `ServeHTTP`, `handshake`, `deliver`, `readBody`, `fail`, `Verify`, `VerifySignature` |
| Webhook receiver | `examples/webhook_receiver_http.go` | the set `seen` under a mutex, a channel of 128 events | `enqueue` (as `OnEvent`), `process`, an `OnError` |
| Transport | `transport.go` | none: the client is read-only after `New` | `do`, `newRequest`, `fetch`, `sendEmail` |
| Sends | `emails.go` | none | `Send`, `sendSpec` |
| Scheduled emails | `scheduled_emails.go`, `types.go` | the iterator `All` keeps its spec and its page | `List`, `All`, `Get`, `Update`, `Cancel`, `Batches.Update`, `Batches.Cancel` |
| Client | `client.go` | API key, base URL, `http.Client`, logger; all fixed by `New` | options, `New`, `buildURL`, `refuseRedirect`, `userAgent`, `Version` |
| Errors | `errors.go` | none | the category of a status, `APIError.Is`, `APIError.Error` |
| Signatures | `webhooks.go` | none | `Sign`, `VerifySignature`, `checkFreshness` |
| Events | `events.go` | the catalogue `eventTypes`, fixed; an event owns a copy of its body | `ParseEvent`, `decodeEventData`, `EventTypes` |
| Credential, logging, serialization | `credential.go`, `logging.go`, `serialization.go` | none | `Info`; `resolveLogger`, `redactHeaders`; `itemPath`, `renderTime` |
| Example programs | `examples/` | none beyond their local results | sends with a key, a batch, the life of a scheduled email, a walk, verification of captured deliveries |

How they interact: a service builds a `requestSpec` and hands it to the
transport, which builds the request (the client's headers, `buildURL`), makes one
round trip and returns raw bytes or an error of a category; the service decodes.
Nothing in the SDK retries: the caller does, with an idempotency key when it
wants the retry to be safe. In the other direction `net/http` runs one goroutine
per webhook request; `deliver` reads, verifies and parses it, calls `OnEvent` on
that goroutine and answers. The platform waits ten seconds for a 2xx and retries
up to 15 times with the same id.

What makes each part correct, and what is hard about it:

* **Handler.** The platform must count a delivery as accepted only if `OnEvent`
  took it, and every answer must be the documented one. Hard: attempts at one
  delivery overlap, answers come after the platform stopped listening, `OnEvent`
  panics, the process dies, and `OnError` may write anything or nothing.
* **Receiver.** An accepted event is handled, and not twice in one run of the
  process. Hard: two attempts in `enqueue` at once; the channel at its limit; what
  is in memory when the process dies.
* **Sends and transport.** A retried send with a key sends one message and returns
  its id. Hard: an error does not say whether the API accepted the message; the
  request the client gave up on may be served after its retry; a response may be
  unreadable though the request took effect; a redirect may change the method.
* **Scheduled emails.** A walk that ends without an error has yielded what matches,
  once. Hard: the collection changes between pages, any page may fail, the
  consumer may break off and range again.
* **Client.** Whatever options in whatever order, the client is the one the contract's
  table describes; a request reaches the route it names, on the configured origin.
  Hard: links that come from outside, identifiers with special characters.
* **Errors.** The category says what the caller may conclude about the effect.
* **Signatures.** Exactly what was signed with the endpoint's secret, and is fresh, is
  accepted. Hard: headers and bodies that were mixed up, damaged or encoded again, the
  boundaries of the window on both sides, a subtraction of instants that saturates.
* **Events.** An event shows what the platform wrote, also when the platform is newer or
  older than the receiver, and goes on showing it. Hard: members whose shape changed,
  absent, null and empty members, a body that lies in a buffer used for the next request.

`PROJECT.json` lists the hazards at their lines with the properties that cover
them.

## Modules

| module | what it is |
|---|---|
| `DeliveryContract` | what an endpoint promises the platform: nothing is accepted that was not taken |
| `WebhookHandler` | the handler, one action per step of a goroutine, with the platform and the network |
| `WebhookReceiver` | extends `WebhookHandler`: `OnEvent` is the example's `enqueue`, plus `process` |
| `ClientCalls` | calls on one client, the API they reach, and the network between them |
| `ClientConfig` | `New` applying options and resolving the rest, and the URL, headers and log line of a request |
| `SignedEvents` | requests that are signed, damaged, verified and parsed, and the events an application keeps |
| `ScheduledPages` | `All`, and the README's loop over `List`, on a collection that shrinks |
| `MC*` | instances for TLC |
| `WebhookHandler_proofs`, `WebhookReceiver_proofs`, `ClientCalls_proofs`, `ClientConfig_proofs`, `SignedEvents_proofs`, `ScheduledPages_proofs` | theorems about the module each is named after |
| `ClientEffects_proofs` | theorems about `ClientCalls`: what a result says of the effect of its call |
| `Induction` | induction over the natural numbers, for the proofs about sequences |

### WebhookHandler

`phase[a]` is where the goroutine of attempt `a` is: `reading` (in `readBody`),
`verifying` (in `Verify`), `dispatching` (in `OnEvent`), then `answered` with
`status[a]`, or `aborted` by a panic or a crash. An attempt is issued by `Send`,
lost by `Lose` or delivered by `Arrive`, which picks the condition of the request
from `Arrival`: how far its body can be read, whether its headers are there,
whether it is fresh and correctly signed, whether it parses. These are the
verdicts the code's checks depend on, so `ReadBody` and `Verify` are `deliver`'s
checks in `deliver`'s order. `Fail` is `fail`: the status is `OnErrorStatus[s]`,
a constant function, the identity when `OnError` is nil. `Handshake` is a function
of the mode and of the length of the challenge; `Probe` is the platform calling it.
`TimeOut` may happen at any moment of an attempt, because ten seconds may pass
anywhere; the goroutine goes on. `Crash` ends every goroutine. A method that is
neither GET nor POST (405) never comes from the platform and is left out.

### WebhookReceiver

Replaces the arbitrary `OnEvent` by `Mark` (the critical section of `enqueue`, and
the return of a duplicate after it), `Enqueue` (the `select`), `TakeWork` and
`FinishWork` (`process`), and `Crash` by `Restart`, which also empties the memory.
Between `Mark` and `Enqueue` other goroutines run, as in the code.
`OnErrorStatus` is 400 for everything, as in the example.

### SignedEvents

`Send` signs a request for a delivery with an instant and a secret; `Arrivals` is what
it may reach the receiver as: whole, without a header, with a timestamp or a signature
that cannot be decoded, with the bare hexadecimal, with a body that was decoded and encoded
again, or with the id of another delivery, another instant or the signature of another request;
an old signature under a new stamp is the case that the hash binds the timestamp for. `Receive` reads it into the server's
buffer, address 1 of `memory`, and calls `Verify`. The hash is an injective function:
`signatureMAC` is the record of what it is computed over. (The two separators are part
of that: neither an id nor a timestamp of the platform has a dot in front of the body.)
`checkFreshness` is the code's arithmetic with a difference that saturates at
`MaxDuration`, and the default for a tolerance that is not positive.

A body is what it is as JSON, its envelope, and for each member of its data block
whether it has a value, is empty, null, or of another shape than the struct's (`misfit`, which a
whole block may be too).
`payloads` has the members of every struct, embedded ones spelled out, and `eventTypes`
the catalogue, made of the pairs in `registered`; `decodeEventData` gives a member its value or the zero value of its type,
or keeps the whole block as `UnknownData`. `Raw` allocates a place for the copy.
The runnable verification of captured deliveries (`verify_webhook.go`) is a `Receive` too.

### ClientCalls

A job is one call an application wants made, and `<<job, n>>` its n-th attempt at it;
a job calls again after an error, and with a key also after a success, as
`send_with_idempotency.go` does. The jobs of a program run in its order: `After` names the
sends whose success a job waits for (`schedule_batch.go`, `manage_scheduled_emails.go`), and
`Known` is what it learnt from them, the ids it may manage. `Call` is `newRequest` and the
sending half of `Do`; `Headers` is the return of `Do`; `ReadBody` is `ReadAll` and the
decoding; `Redirect` is the redirect policy; `GiveUp` is a timeout, a canceled context or a
broken connection, in `Do` or in `ReadAll`; it may happen and need not, since an injected client
or `WithTimeout(0)` has no timeout. `builtClient` tells the client `New` builds from
one the application injects, which follows redirects. Each job's verb is chosen in `Init`
among those the instance allows (`Verbs`): a send, a read, `Update`, `Cancel`, or one of the
two batch verbs.

The API's part (`Serve` and what it is made of, `Due`) is modelled from what comments,
examples and tests say of it. It remembers the first response for an idempotency key,
replays it for the same message with `Idempotent-Replayed: true` and answers 409 for another
message. A send that schedules puts its email into the one batch; an email is then scheduled
until it is canceled, or is due and goes out or fails (`types.go:137`). Once it has gone out it
is gone and answered 404; one that is canceled or failed can still be read, and a change of it is
refused with 409. A batch verb affects what is pending and reports how many that were. The API may
refuse, fail after it accepted, redirect once, and answer with a body the client cannot read.
A redirect has a `Location`: `http.Client` hands back one without it as a plain response, which
is `ErrAPI` like any status without a category.
A request stays in the network until it is served, however long ago the client gave up on
it. An email is identified by the call that created it. `Is` is `APIError.Is` with the
wrapping of the sentinels.

### ClientConfig

`Apply` is one option of `New`'s loop, `New` the rest of it, `Request` one `newRequest`
with the log line `do` writes before it sends. `Configured` is what an option does to the
fields (a suffix that is blank or spans lines is ignored; every other value is taken, an
empty one too). `resolveLogger` picks the logger, and `Logs` says whether it takes a debug
line. `Build` is what the toolchain recorded of the process's modules, from which `Version`
takes the first released entry for the SDK. The constant `Content-Type` of a request with a body
and the URL in a log line are left out. A path is a sequence of characters and a URL an
origin and a sequence of segments: `ItemPath` escapes as `url.PathEscape` does, `Segments`
and `Below` are what `net/url` makes of a path when it is resolved, one character (`Cut`)
and one segment (`Enter`) at a time, `BuildURL` adds the code's two checks. Sites are given by what `url.Parse` makes of a base URL (`Site`), with
its trailing slash or without, `Invalid` for one that does not parse.

### ScheduledPages

The collection is a sequence, `matching` the emails the caller's filters select;
emails only leave, as they are sent or canceled. `InOrder` lists a set of emails in the
order of the collection: the i-th is the one with i - 1 of them ahead of it. `MCScheduledPages`
lets TLC compare that with a selection from the sequence. A request is abstracted to whether
it carries the filters, which page it names and whether its URL is on the client's
own origin (`buildURL` refuses another one: `FetchFails`). `FetchBlankPage` is a page of `{}`,
which has no items and no link; `body` remembers what the last page was, and what a walk
promises when it ends is said of the others. `params.Page` and emails that enter the listing
while it is walked are not modelled. `Consumer` is the loop of
`list_scheduled_emails.go`, which may break off after any item. `link` is the `Next`
link of the page in hand. `ByHand` selects the loop over `List` that the
repository's README gives for older modules; it differs in `NextSpec`.

## Runs

| run | bounds | shows |
|---|---|---|
| `handler` | 1 delivery, 3 attempts, 1 crash, 9 conditions of arrival, `OnError` nil | the safety and liveness properties of the handler, and that it implements `DeliveryContract` |
| `handler_log_only` | the same, no crash, an `OnError` that writes nothing | a failed delivery is accepted (finding) |
| `receiver` | 2 deliveries, 2 attempts each, 1 crash, a queue of 2 | an accepted event is held and handled, at most once per run of the process |
| `receiver_full_queue` | the same, no crash, a queue of 1 | an accepted event is lost (finding) |
| `client_sends` | a send with a key and one retry, another message with the same key, a send that cannot be built; statuses 422, 503 beside those of the API's part | one message and one answer per key, own ids, true replay flags, honest categories |
| `client_manage` | a scheduled send, then any change with one retry, beside a program that reads or cancels the email or sends a second one into the batch | a success was made, counts are true, and a 404 or a 409 tells the state of the email |
| `client_error_base` | a send, and one that cannot be built | an error outside the base error (finding) |
| `client_zero_model` | a scheduled send and a change, bodies `{}` | `{}` is a success (finding) |
| `client_config` | 3 options of 13, 4 environments and builds, 3 sites, items with up to 2 of 5 characters, one request | the client is as documented, requests stay on the origin and reach their route, the agent names a release, lines are written when asked for, without secrets |
| `signed_events` | 2 deliveries, 2 requests with any of 4 stamps and 2 secrets, 11 bodies, 3 tolerances, 2 events kept, a clock that ticks | the verdict is right, an event is and stays what was signed, and shows it |
| `pages` | 5 emails on pages of 2, any subset matching, any leaving, any page `{}`, 2 walks | complete, without duplicates, only what matches, no more passed over than left, and it ends |
| `pages_by_hand` | the same, 1 walk, the README's loop | filters are lost after the first page (finding) |

Why the bounds are enough. Deliveries share nothing in the handler, so one shows
what several would; three attempts let two late goroutines run beside a current
one. In the receiver deliveries share the queue and the set, so there are two; a
queue of 2 is never full then, and a queue of 1 is. In the client, two calls of one
job are a call and its retry, served in either order, and a third job with the same
key is the conflict. Three pages, the last one short, have a first, a middle and a
last page. Three options can set a field, set it again and set another; two characters
can be a dot segment, an escape or a separator at either end; requests share only the
client, so there is one. `MaxSends`, `MaxEvents` and `MaxClock` bound `SignedEvents`. `MaxCrashes`, `MaxTries`, `MaxOptions` and `MaxRanges` bound what the environment does
and appear in the guards; `MaxAttempts` is the platform's own limit (15).
In `client_sends` the refusals are one 4xx and one 5xx: as far as the properties can tell,
`sentinelFor` treats all statuses of a class alike. In `client_manage` the only refusal
beside 404 and 409 is a 503, because `RefusalTellsState` is about what those two mean when
the API uses them for nothing else. In `signed_events` there is a stamp at and one just
outside each end of the tolerance of 2 and of the default of 1, which zero and a negative one
stand for; ages that a duration cannot hold are left to the proof (`Freshness`). Two requests are a
delivery and its retry, a replay with another instant, or two deliveries that can be mixed
up, and a second event is one the buffer was used again for.

The runs do not check deadlock: every model ends when its deliveries, calls or walks
are over.

### Fairness

* Handler: the platform keeps probing, sending and timing out, each of which is a timer or a
  loop of its own. Nothing is assumed of the network, of crashes or of the endpoint: the body of a
  request may never end (`readBody` has no deadline), and `OnEvent` may never return. Deliveries
  settle all the same, by the timer of the platform.
* Receiver: `enqueue` never blocks and `process` ranges over the channel. Nothing is
  assumed of the platform.
* Client: none. That a call returns is up to the timeout of its `http.Client`, which an injected
  one may lack.
* `SignedEvents` and `ClientConfig` have safety properties alone: a verdict, and a client,
  are computed at once.
* Pages: the loop runs on the calling goroutine, and a fetch returns a page or an error. For the
  client `New` builds its timeout sees to that; with an injected one, or none, the application
  must, and `WalksEnd` is said under that condition.

### Findings

Each is a run that TLC must find violated, with the quoted text in `PROJECT.json`.

1. An `OnError` that only logs turns every failure into an accepted delivery
   (`webhooks_http.go:132`, recommended at `:55`).
2. The example receiver marks an id as seen before it has queued the event, so the
   retry that a full queue asks for is dropped as a duplicate
   (`webhook_receiver_http.go:83`). Its `OnError` also answers 400 where its comments
   say 500 and "as the handler would have".
3. Errors that are met before a request is sent do not match `ErrMailkube` (`client.go:187`,
   `transport.go:172`), though "everything this package returns" does (`doc.go:47`).
4. `fetch` returns a zero-valued model for `{}` (`transport.go:68`). A page of `{}` has no
   link, so `All` ends without an error and without the rest of the listing
   (`scheduled_emails.go:56`).
5. The hand-written paging loop of the repository's README drops the filters.

Observations that are not runs:

* `All` may pass over matching emails when others leave during the walk
  (`scheduled_emails.go:155`); `SkipsAreBounded` says by how many.
* `ErrConnection` also reports a response whose body broke off (`transport.go:132`), though
  it is documented as "no HTTP response" (`errors.go:26`).
* A JSON array, or an envelope whose `type` is no string, is an error of `ParseEvent`
  (`events.go:270`), whose comment says "Only a body that is not JSON at all is an error."
* `WithLogger(nil)` after `WithLogger(l)` takes `l` away again (`logging.go:28`), though
  "passing nil is the same as not passing the option at all" (`:26`); `LogsWhenAsked` leaves
  these clients out.
* The repository's README turns logging on with `slog.Default()` (`README.md:317`). All lines are
  debug lines, which that logger, at its default level of info, does not write.
* The identifiers `""`, `.` and `..` do not stay a path segment: `url.PathEscape` leaves them as
  they are and resolution takes them away, so the request goes to the collection or to what it is
  in. `serialization.go:10-12` says "so the identifier stays one path segment" of every identifier.
  `ItemKeepsItsRoute` claims of these three only that the request stays below the base URL.
* `verify_webhook.go:58` makes the name it looks up canonical, not the names in the fixture,
  so a fixture with `x-webhook-id` is rejected although its comment says both resolve.
* A `Retry-After` that is a date is reported as 0 (`transport.go:190`).

## Proofs

`WebhookHandler_proofs` proves, for every set of deliveries, number of attempts and
crashes, set of arrival conditions and `OnError` that `HandlerAssumption` admits:

* `TypeCorrectness`: `Spec => []TypeOK`. `TypeOK` alone is not inductive, and neither is
  `AcceptedWasHanded`: that an accepting answer comes from a handed attempt needs to
  know that each phase implies what was checked before it (`Served`), and that a
  retry is issued into an unused attempt (`Issued`). The inductive invariant `IInv` is the
  conjunction of the three. Its proof (`Invariance`) has one step per action; `AnswerFailed` is
  the part shared by the ways to fail.
* `AnswersDocumented`: if `OnError` is nil, `Spec => []AnswerIsDocumented`.
* `ImplementsContract`: if `OnError` never answers 2xx, `Spec => ContractSpec`.
  `ContractStep` says what a step does to the two variables of the contract.
* `AcceptedHanded`: under the same condition, `Spec => []AcceptedWasHanded`.

The condition of the last two is what the run `handler_log_only` shows to be needed.

`WebhookReceiver_proofs` proves, for every set of deliveries, capacity of the channel and
number of crashes:

* `ReceiverImplementsHandler`: `ReceiverSpec => Spec`. `enqueue` is one of the things `OnEvent`
  may do, and a restart is a crash, so whatever is proved of the handler holds of the receiver.
* `ReceiverImplementsContract`: if `OnError` never answers 2xx, `ReceiverSpec => ContractSpec`,
  from the refinement above and `ImplementsContract`.
* `ReceiverTypeCorrectness`: `ReceiverSpec => []ReceiverTypeOK`.
* `HandledOncePerRun`: `ReceiverSpec => []ProcessedOncePerRun`, for each run by itself. The invariant says that an event
  is in one place only: with one goroutine past the mutex, or once in the queue, or in hand
  (`OnePlace`), that only events in `seen` are in one of them, and that one that still is, or that
  this run of the process has not seen, was not handled in this run (`Counted`).
* `AcceptedHeld`: if `OnError` never answers 2xx and the channel has room for every delivery
  (`QueueIsLarge`), `ReceiverSpec => []AcceptedIsHeld`. The second hypothesis is the one that
  `receiver_full_queue` shows to be needed.

`ClientCalls_proofs` proves, for every set of jobs, verbs, shared keys, number of retries
and refusals that `ClientAssumption` admits:

* `TypeCorrectness`: `Spec => []TypeOK`.
* `SendsOncePerKey`: `Spec => []SendOncePerKey`. The property is not inductive: two emails
  with one key are excluded because the API remembers exactly the one it accepted
  (`KeysKept`), which only `ServeSend` can disturb.
* `OneAnswerPerKey`: `Spec => []KeyHasOneAnswer`. Two successes with one key name emails
  accepted from their own jobs, and there is only one with that key: the two properties
  around it meet in this one.
* `SuccessesAreOwn`: `Spec => []SuccessIsOwnEmail`. What a caller is told was decided when
  the request was served, so the invariant speaks of the response on its way too
  (`SendOwns`): a send on the client `New` builds is still a POST, every 2xx response to it
  carries an email accepted from its own job, and so does every success read from one.
  This is where `refuseRedirect` is needed: a redirect that is followed would make it a GET.

`ClientEffects_proofs` goes on from there. `Flows` follows each call by itself: it has no effect
until its request is served, none after a refusal, and what the client knows was on the wire
before. `ServedBy` says in which five ways a request is served. On these rest

* `CategoriesTellEffects`: `Spec => []CategoryTellsEffect`, with either kind of `http.Client`
  where the property speaks of both.
* `ReplaysAreTrue`: `Spec => []ReplayedIsTrue`. A response is marked as replayed exactly when the
  email it names is not the call's own (`Replays`).
* `ChangesAreMade`: `Spec => []ChangeIsMade`, if no body is the empty object: that one is the
  finding of `client_zero_model`. An email that was canceled stays canceled, and one that left
  the batch does not come back, so what a success says when it is made remains true (`Made`).
* `RefusalsTellStates`: `Spec => []RefusalTellsState` (404: it went out; 409: it was canceled or
  failed), if a program that reads or changes an email
  waits for one send, which schedules (`OneEmailEach`), and the API uses 404 and 409 for nothing
  else (`OwnRefusals`). Without the first, a refusal would be about one email and the property
  about all of them; the second is what the two sentinels are documented to mean. Both hold in
  `client_manage`. That a program knows one email needs `OneEmail`: all successes of a send
  name the same one, because without a key there is at most one (`Ordered`) and with a key
  `OneAnswerPerKey` holds.

All of these rest on what the model assumes of the API, which is not in the repository. That
`After` names only jobs that send is an assumption of the module, as in the examples.

`ClientConfig_proofs` proves, for every set of options, number of them, environment, build, table
of base URLs and target that `ConfigAssumption` admits:

* `TypeCorrectness`, `Configuration`, `LoggingOnRequest`, `KeyAtHome`: `TypeOK`,
  `ConfiguredAsDocumented`, `LogsWhenAsked` and `KeyStaysHome`. The properties say what a client is
  after `New`; the invariant says what a field is after each option (`Resolves`): the last one given
  for it that counts. `LastInAppend` is the step of that. `Requests` ties a request and its log line
  to the client that made them.
* `AgentOnRequest`: `Spec => []AgentNamesRelease`, for any list of modules.
* `SecretsStaySecret`: `Spec => []LogHidesSecrets`, if no key and no idempotency key is a word the
  headers show anyway (a suffix, a version, `json`, ...): hiding such a word is impossible.
* `ItemsAreReached`: `Spec => []ItemKeepsItsRoute`, for base URLs of any depth and identifiers of
  any length but the three above. `TwoSegments` is the heart: a path that has one separator and no query is cut into two
  segments, by induction over its characters. `Escaping` provides what it needs of the escaped
  identifier, `BelowTwo` and `ItemLeads` say where two segments lead from a directory.

`ConfigAssumption` takes the escapes for characters of their own that no identifier contains: an
identifier that has the three characters of an escape in it is one with a percent sign, which is
escaped in its turn.

`SignedEvents_proofs` proves, for every set of deliveries, bodies, instants, secrets and
tolerances that `EventsAssumption` admits (tolerances shorter than the longest duration):

* `TypeCorrectness`: `Spec => []EventsTypeOK`.
* `EventsAreSigned`: `Spec => []EventIsWhatWasSigned`. An event's bytes are found through
  `memory`, so the invariant needs that no event's place is the buffer and that places are
  given out in order (`Placed`), which is what the copy in `ParseEvent` is for, and that
  every request carries the hash of itself (`Signed`).
* `VerdictsAreRight`: `Spec => []VerdictIsRight`. `Freshness` shows that the saturating
  difference decides as the exact one does; `ValidWasSigned` that a request with a matching
  hash is one that was signed, but for its prefix, though its parts may come from several
  (`Arriving`); `Judged` keeps the verdict in hand true
  while time passes and other requests are signed.
* `EventsShowBodies` and `NothingInvented`: `DataShowsBody` and `ForwardInventsNothing`. Every
  event has the data that its own place in memory decodes to (`Decoded`), so both become
  statements about `decodeEventData` and one body (`DecodingIsFaithful`), which are proved
  over all structs, members and shapes.

They rest on the hash being injective.

`ScheduledPages_proofs` proves, for every collection, page size and number of walks:

* `TypeCorrectness`: `Spec => []TypeOK`, whoever walks.
* `FiltersHold`, `YieldedOnce`, `CompleteWhenDone`, `SkipsNoMoreThanLeft`: if `All` walks and not the
  README's loop, `OnlyMatching`, `NoDuplicates`, `DoneIsComplete` and `SkipsAreBounded`. The README's
  loop violates the first of them, see `pages_by_hand`.

The invariant has four parts. `Places`: a link leads to the following page of the same listing.
`Filtered`: every request carries the filters. `Ordered`: what was yielded is in the order of
the listing and before what is in hand, and both are before every email that has enough others
ahead of it to be on a page still to come; an email that leaves can only bring the others
nearer, which is why nothing comes twice. `Counted`: every page but the last was full, and at
the end at least as many came as match; so whatever is missing was made up for by one that
left. `InOrderIs` shows that `InOrder` lists a set once each and in order, from the number of
emails ahead of each (`RankOrder`, `RankAttained`).

`Induction` derives induction and least and greatest elements from the well-foundedness of the
natural numbers, with a set in the place of the predicate: the library's own theorems take
an operator as a parameter, which the provers cannot instantiate. A proof that uses it defines
the set of lengths or positions for which its claim holds.

Only model-checked: the liveness properties `DeliveriesSettle`, `AcceptedIsProcessed` and
`WalksEnd` (the prover handles neither fairness nor
ENABLED), and the findings, which are counterexamples of an instance. Every safety invariant that a
passing run checks is also a theorem, under the hypotheses named above.

## Not modelled

* The bytes of bodies, headers, queries and JSON; `renderTime`, the sorting of `EventTypes`
  and the text of errors: formatting, without state or order.
* The 405 of a method the platform never uses.
* The fields of `APIError` that are copied from a refusal (`Message`, `Body`, `RetryAfter`,
  `RequestID`) and the list of error names: nothing in the SDK reads them.
* Several batches, and moving an email from one to another: the verb is one field more in a
  body.
* Parameters of sends that only reach the API (recipients, templates, attachments, topics),
  and the example programs about them: one call each.
* A listing whose links form a cycle, which `All` would walk for ever.
* That a call, or the reading of a webhook's body, comes to an end: neither has a deadline that
  the SDK always sets.
* Header lookups that change under the application (`webhooks.go:123`): strings are values.

## Plan

Done, in the order of their importance: the delivery contract and the handler, its
proofs, the receiver, client calls, the listing, the configuration of a client, signed requests
and events, and proofs of every safety invariant that the passing runs check. What is left:

1. Action properties worth a run of their own, as what a response may never take back once the
   caller has read it, and their proofs from the invariants there are.
2. A weaker hypothesis for `RefusalsTellStates`: programs that manage several emails, with the
   email a refusal is about as part of the response.
