----------------------------- MODULE ClientConfig -----------------------------
(***************************************************************************)
(* How a client is configured and what its requests are made of            *)
(* (client.go, newRequest in transport.go, serialization.go, logging.go):  *)
(* New applies the options in order, resolves what they left open, and     *)
(* every request is then built from the result.                            *)
(***************************************************************************)
EXTENDS Integers, Sequences, SequencesExt

CONSTANTS
    Option,         \* options, as records of the field they set and its value
    MaxOptions,     \* bound: options given to New
    Environment,    \* what a process may find: apiKey, baseURL, log, and the build info, see Build
    Site,           \* [base URLs -> what url.Parse makes of them]
    Target          \* what requests are made for, see Item, Route and Link

\* What runtime/debug records of a build: the modules it depends on, then its main module.
Module(path, tag, version) == [path |-> path, tag |-> tag, version |-> version]
Build(deps, main) == deps \o <<main>>

\* A base URL's dir is all its segments, the last one empty after a trailing slash.
Invalid == [origin |-> "", dir |-> <<>>]
DefaultBaseURL == "default"
DefaultTimeout == 30
Idempotency == {"", "once"}     \* SendEmailParams.IdempotencyKey

\* A path is a sequence of characters; "c" stands for the letters of a collection.  A target is the
\* item of an identifier, a route without one, or a link the API issued, which is absolute.
Item(id) == [kind |-> "item", id |-> id, origin |-> ""]
Route == [kind |-> "route", id |-> <<>>, origin |-> ""]
Link(origin) == [kind |-> "link", id |-> <<>>, origin |-> origin]

ASSUME ConfigAssumption ==
    /\ MaxOptions \in Nat
    /\ DefaultBaseURL \in DOMAIN Site
    /\ \A b \in DOMAIN Site : Site[b].dir \in Seq(Seq(STRING)) /\ (Site[b] = Invalid \/ Site[b].dir # <<>>)
    /\ \A t \in Target : t.id \in Seq(STRING \ {"%2F", "%3F", "%25"})
    /\ \A e \in Environment :
          /\ e.baseURL \in DOMAIN Site \cup {""}
          /\ e.log \in {"", "debug", "info", "no level"}
          /\ e.build \in Seq([path : {"sdk", "other"}, tag : BOOLEAN, version : STRING])
    /\ \A o \in Option :
          /\ o.sets = "baseURL" => o.to \in DOMAIN Site \cup {""}
          /\ o.sets = "logger" => o.to \in {"", "at debug", "at info"}

VARIABLES
    pc,         \* "options", "ready" or "refused" when New has returned, "called" after a request
    env,        \* the environment
    given,      \* history: the options New has applied
    config,     \* the fields of the Client
    target,     \* what the last request was made for
    request,    \* that request: its URL and headers, Invalid and empty if it could not be built
    logged      \* the headers in its log line

vars == <<pc, env, given, config, target, request, logged>>

NoHeaders == [name \in {} |-> <<>>]
NoRequest == [url |-> Invalid, headers |-> NoHeaders]

Init ==
    /\ pc = "options" /\ env \in Environment /\ given = <<>>
    /\ config = [apiKey |-> "", baseURL |-> "", timeout |-> DefaultTimeout,
                 httpClient |-> "", suffix |-> "", logger |-> ""]
    /\ target = Route /\ request = NoRequest /\ logged = NoHeaders

-------------------------------------------------------------------------------
\* New.

\* One option.  A suffix that is blank or spans lines is ignored; other values are taken as given.
ConfiguredSkipsEmpty(c, o) ==
    IF o.sets # "timeout" /\ o.to \in {"", "two lines"} THEN c ELSE [c EXCEPT ![o.sets] = o.to]
Configured(c, o) ==
    IF o.sets = "suffix" /\ o.to \in {"", "two lines"} THEN c ELSE [c EXCEPT ![o.sets] = o.to]

Apply(o) ==
    /\ pc = "options" /\ Len(given) < MaxOptions
    /\ given' = Append(given, o)
    /\ config' = Configured(config, o)
    /\ UNCHANGED <<pc, env, target, request, logged>>

\* The first of the two that is set.
Or(a, b) == IF a # "" THEN a ELSE b

\* resolveLogger: the given one, or standard error at the level MAILKUBE_LOG names, debug if it names
\* none, or silence.  The lines of a client are debug lines, which the logger in use takes or not.
resolveLoggerOnlyLevels(logger) ==
    IF logger # "" THEN logger ELSE IF env.log \in {"", "no level"} THEN "discard" ELSE "stderr"
resolveLogger(logger) ==
    IF logger # "" THEN logger ELSE IF env.log = "" THEN "discard" ELSE "stderr"
Logs == config.logger = "at debug" \/ (config.logger = "stderr" /\ env.log # "info")

\* The rest of New: what no option set comes from the environment or the defaults.  The timeout goes
\* into the http.Client that New builds.
Resolved(c) ==
    [c EXCEPT !.apiKey = Or(@, env.apiKey),
              !.baseURL = Or(Or(@, env.baseURL), DefaultBaseURL),
              !.httpClient = Or(@, "built"),
              !.logger = resolveLogger(@)]
NewWithoutKey ==
    /\ pc = "options"
    /\ pc' = "ready" /\ config' = Resolved(config)
    /\ UNCHANGED <<env, given, target, request, logged>>
New ==
    /\ pc = "options"
    /\ IF Resolved(config).apiKey = ""
       THEN pc' = "refused" /\ UNCHANGED config
       ELSE pc' = "ready" /\ config' = Resolved(config)
    /\ UNCHANGED <<env, given, target, request, logged>>

-------------------------------------------------------------------------------
\* Requests.

\* url.PathEscape: what would end a segment or start an escape is escaped.
Escape(ch) == CASE ch = "/" -> "%2F" [] ch = "?" -> "%3F" [] ch = "%" -> "%25" [] OTHER -> ch
Unescape(ch) == CASE ch = "%2F" -> "/" [] ch = "%3F" -> "?" [] ch = "%25" -> "%" [] OTHER -> ch
Each(Op(_), s) == [i \in 1..Len(s) |-> Op(s[i])]

ItemPathUnescaped(base, id) == base \o <<"/">> \o id
ItemPath(base, id) == base \o <<"/">> \o Each(Escape, id)

\* The segments of a relative path up to its query.
Cut(segs, ch) == IF ch = "/" THEN Append(segs, <<>>)
                 ELSE [segs EXCEPT ![Len(segs)] = Append(@, ch)]
Segments(path) ==
    LET cut[n \in 0..Len(path)] == IF n = 0 THEN << <<>> >> ELSE Cut(cut[n - 1], path[n])
    IN  cut[SelectInSeq(path \o <<"?">>, LAMBDA ch : ch = "?") - 1]

\* A reference is resolved below the directory of the base URL, without what follows its last
\* slash; a dot segment at the end leaves a slash.
Directory(dir) == Front(dir)
DotSegments == {<<".">>, <<".", ".">>}
Enter(dir, seg) == CASE seg = <<".">> -> dir [] seg = <<".", ".">> -> Front(dir) [] OTHER -> Append(dir, seg)
Below(base, segs) ==
    LET up[n \in 0..Len(segs)] == IF n = 0 THEN Directory(base) ELSE Enter(up[n - 1], segs[n])
    IN  up[Len(segs)] \o (IF Last(segs) \in DotSegments THEN << <<>> >> ELSE <<>>)

\* buildURL: an unparsable base or path, or another origin, is an error.
BuildURLTrustsLinks(base, t) ==
    IF base = Invalid THEN Invalid
    ELSE [origin |-> IF t.kind = "link" THEN t.origin ELSE base.origin,
          dir |-> Below(base.dir,
                        Segments(IF t.kind = "item" THEN ItemPath(<<"c">>, t.id) ELSE <<"c">>))]
BuildURL(base, t) ==
    IF base = Invalid THEN Invalid
    ELSE IF t.kind = "link"
    THEN IF t.origin = base.origin
         THEN [origin |-> t.origin, dir |-> Below(base.dir, << <<"c">> >>)]
         ELSE Invalid
    ELSE LET path == IF t.kind = "item" THEN ItemPath(<<"c">>, t.id) ELSE <<"c">>
         IN  IF Contains(path, "%") THEN Invalid
             ELSE [origin |-> base.origin, dir |-> Below(base.dir, Segments(path))]

\* releaseVersion and readVersion: the first entry for this module with a tag names the version,
\* without the tag's v.
releaseVersion(m) == m.path = "sdk" /\ m.tag
Version == LET found == SelectInSeq(env.build, releaseVersion)
           IN  IF found = 0 THEN "0.0.0" ELSE env.build[found].version

userAgentSuffixFirst ==
    (IF config.suffix = "" THEN <<>> ELSE <<config.suffix>>) \o <<"mailkube-go", Version>>
userAgent ==
    <<"mailkube-go", Version>> \o (IF config.suffix = "" THEN <<>> ELSE <<config.suffix>>)

\* The client's headers, over which those of the request are laid.
Headers(key) ==
    [name \in {"Authorization", "User-Agent", "Accept"}
              \cup (IF key = "" THEN {} ELSE {"Idempotency-Key"}) |->
        CASE name = "Authorization" -> <<"Bearer", config.apiKey>>
          [] name = "User-Agent" -> userAgent
          [] name = "Accept" -> <<"json">>
          [] name = "Idempotency-Key" -> <<key>>]

\* redactHeaders.
RedactOnlyAuthorization(headers) ==
    [name \in DOMAIN headers |-> IF name = "Authorization" THEN <<"***">> ELSE headers[name]]
Redact(headers) ==
    [name \in DOMAIN headers |->
        IF name \in {"Authorization", "Idempotency-Key"} THEN <<"***">> ELSE headers[name]]

\* newRequest, and the log line of do.  Requests share nothing but the client, so there is one.
Request(t, key) ==
    /\ pc = "ready" /\ pc' = "called"
    /\ target' = t
    /\ LET url == BuildURL(Site[config.baseURL], t)
       IN  IF url = Invalid
           THEN request' = NoRequest /\ logged' = NoHeaders
           ELSE /\ request' = [url |-> url, headers |-> Headers(key)]
                /\ logged' = IF Logs THEN Redact(Headers(key)) ELSE NoHeaders
    /\ UNCHANGED <<env, given, config>>

Next ==
    \/ \E o \in Option : Apply(o)
    \/ New
    \/ \E t \in Target, key \in Idempotency : Request(t, key)

Spec == Init /\ [][Next]_vars

-------------------------------------------------------------------------------
\* Every variable keeps its type, and a client that New returned has all a request needs.
TypeOK ==
    /\ pc \in {"options", "ready", "refused", "called"}
    /\ env \in Environment /\ given \in Seq(Option)
    /\ DOMAIN config = {"apiKey", "baseURL", "timeout", "httpClient", "suffix", "logger"}
    /\ target \in Target \cup {Route}
    /\ pc \in {"ready", "called"} =>
          config.apiKey # "" /\ config.baseURL \in DOMAIN Site /\ "" \notin {config.httpClient, config.logger}

\* The value of the last option that sets a field, among those that count, or a fallback.
LastIn(options, field, ignored, fallback) ==
    LET last == SelectLastInSeq(options, LAMBDA o : o.sets = field /\ o.to \notin ignored)
    IN  IF last = 0 THEN fallback ELSE options[last].to
LastOf(field, ignored, fallback) == LastIn(given, field, ignored, fallback)

\* What the contract's table says of a client: key and base URL come from the last option, then the
\* environment, then the default or a refusal; a suffix is the last one fit for a header; and the
\* timeout is that of the http.Client New builds, 30 seconds unless set.
ConfiguredAsDocumented ==
    LET key == LastOf("apiKey", {}, "")
        url == LastOf("baseURL", {}, "")
    IN  /\ pc = "refused" => key = "" /\ env.apiKey = ""
        /\ pc \in {"ready", "called"} =>
             /\ config.apiKey = IF key # "" THEN key ELSE env.apiKey
             /\ config.baseURL = IF url # "" THEN url
                                 ELSE IF env.baseURL # "" THEN env.baseURL ELSE DefaultBaseURL
             /\ config.suffix = LastOf("suffix", {"", "two lines"}, "")
             /\ config.httpClient = "built" =>
                   config.timeout = LastOf("timeout", {}, DefaultTimeout)

\* "The SDK token always leads", whatever a wrapping tool calls itself, and the version in it is one
\* the toolchain recorded for this module, never "(devel)" and never another module's.
AgentNamesRelease ==
    request # NoRequest => LET agent == request.headers["User-Agent"] IN
        /\ agent[1] = "mailkube-go" /\ Len(agent) \in 2..3
        /\ \/ Module("sdk", TRUE, agent[2]) \in ToSet(env.build)
           \/ agent[2] = "0.0.0" /\ \A m \in ToSet(env.build) : m.path = "other" \/ ~m.tag
        /\ LastOf("suffix", {"", "two lines"}, "") = (IF Len(agent) = 3 THEN agent[3] ELSE "")

\* A request carries the key to the configured origin and nowhere else, whatever link it follows.
KeyStaysHome ==
    request # NoRequest =>
        /\ request.headers["Authorization"] = <<"Bearer", config.apiKey>>
        /\ request.url.origin = Site[config.baseURL].origin

\* A request for an item stays below the directory of the base URL, and the server reads back the
\* identifier the caller gave, as one segment below the collection, whatever characters it has.
\* The three that a path cannot name, "", "." and "..", do not stay a segment: the request leaves
\* the item, if never the base URL.
ItemKeepsItsRoute ==
    request # NoRequest /\ target.kind = "item" =>
        LET dir == request.url.dir
            base == Directory(Site[config.baseURL].dir)
        IN  /\ IsPrefix(base, dir)
            /\ target.id \notin DotSegments \cup {<<>>} =>
                  /\ Len(dir) = Len(base) + 2 /\ dir[Len(dir) - 1] = <<"c">>
                  /\ Each(Unescape, Last(dir)) = target.id

\* "Logging is off by default", "an explicit logger wins over the MAILKUBE_LOG environment variable",
\* also where it takes no debug lines, and a value of it that names no level "still turns logging
\* on, at debug": a request is logged exactly then.  Of a nil that follows a logger, which the
\* comment calls the same as no option and the code a reset, nothing is said.
LogsWhenAsked ==
    LET asked == LastOf("logger", {""}, "")
    IN  request # NoRequest /\ LastOf("logger", {}, "") = asked =>
            (logged # NoHeaders <=>
                asked = "at debug" \/ (asked = "" /\ env.log \in {"debug", "no level"}))

\* No secret is in a log line.
LogHidesSecrets ==
    \A name \in DOMAIN logged : {config.apiKey, "once"} \cap ToSet(logged[name]) = {}
===============================================================================
