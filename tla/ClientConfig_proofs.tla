-------------------------- MODULE ClientConfig_proofs --------------------------
(***************************************************************************)
(* Proofs about ClientConfig, for any options in any number and order, any *)
(* environment, build and base URL: the client is the documented one, its  *)
(* key stays on its origin and out of its log lines.                       *)
(***************************************************************************)
EXTENDS ClientConfig, Induction, SequenceTheorems

Field == {"apiKey", "baseURL", "timeout", "httpClient", "suffix", "logger"}
Ignored(field) == IF field = "suffix" THEN {"", "two lines"} ELSE {}
Fallback(field) == IF field = "timeout" THEN DefaultTimeout ELSE ""

\* What the options given so far say of a field.
Given(field) == LastOf(field, Ignored(field), Fallback(field))

Typed ==
    /\ pc \in {"options", "ready", "refused", "called"}
    /\ env \in Environment /\ given \in Seq(Option)
    /\ DOMAIN config = Field
    /\ target \in Target \cup {Route}

\* Until New returns a field is what the options say; then it is resolved, and stays.
Resolves ==
    /\ config.timeout = Given("timeout") /\ config.suffix = Given("suffix")
    /\ pc \in {"options", "refused"} =>
          \A f \in {"apiKey", "baseURL", "httpClient", "logger"} : config[f] = Given(f)
    /\ pc = "refused" => Or(Given("apiKey"), env.apiKey) = ""
    /\ pc \in {"ready", "called"} =>
          /\ config.apiKey = Or(Given("apiKey"), env.apiKey) /\ config.apiKey # ""
          /\ config.baseURL = Or(Or(Given("baseURL"), env.baseURL), DefaultBaseURL)
          /\ config.httpClient = Or(Given("httpClient"), "built")
          /\ config.logger = resolveLogger(Given("logger"))

\* A request is the one the resolved client makes, and its log line that request redacted.
Requests ==
    /\ pc # "called" => request = NoRequest
    /\ request = NoRequest => logged = NoHeaders
    /\ request # NoRequest => \E key \in Idempotency :
          /\ request.url = BuildURL(Site[config.baseURL], target) /\ request.url # Invalid
          /\ request.headers = Headers(key)
          /\ logged = IF Logs THEN Redact(Headers(key)) ELSE NoHeaders

IInv == Typed /\ Resolves /\ Requests

-------------------------------------------------------------------------------
\* The positions of the options that count for a field.
Counting(s, f, ignored) == {i \in 1..Len(s) : s[i].sets = f /\ s[i].to \notin ignored}

\* LastIn is the value of an option behind which there is none that counts, or the fallback when
\* none counts.
LEMMA LastInIs ==
    ASSUME NEW S, NEW s \in Seq(S), NEW f, NEW ignored, NEW fallback
    PROVE  \/ Counting(s, f, ignored) = {} /\ LastIn(s, f, ignored, fallback) = fallback
           \/ \E n \in Counting(s, f, ignored) :
                 /\ \A m \in Counting(s, f, ignored) : m <= n
                 /\ LastIn(s, f, ignored, fallback) = s[n].to
<1> DEFINE I == Counting(s, f, ignored)
<1>1. I \in SUBSET (Nat \ {0}) /\ Len(s) \in Nat /\ \A m \in I : m <= Len(s)
  BY DEF Counting
<1>2. CASE I = {}
  BY <1>2 DEF LastIn, SelectLastInSeq, Counting
<1>3. CASE I # {}
  <2>1. PICK n \in I : \A m \in I : n >= m
    BY <1>1, <1>3, Greatest
  <2>2. Max(I) = n
    <3>1. \A k \in I : (\A m \in I : k >= m) => k = n
      BY <1>1, <2>1
    <3> QED
      BY <2>1, <3>1 DEF Max
  <2>3. n # 0
    BY <1>1
  <2>4. LastIn(s, f, ignored, fallback) = s[n].to
    BY <1>3, <2>2, <2>3 DEF LastIn, SelectLastInSeq, Counting
  <2>5. \A m \in I : m <= n
    BY <1>1, <2>1
  <2> QED
    BY <2>4, <2>5
<1> QED
  BY <1>2, <1>3

\* What one more option does to it.
LEMMA LastInAppend ==
    ASSUME NEW S, NEW s \in Seq(S), NEW o \in S, NEW f, NEW ignored, NEW fallback
    PROVE  LastIn(Append(s, o), f, ignored, fallback) =
               IF o.sets = f /\ o.to \notin ignored THEN o.to ELSE LastIn(s, f, ignored, fallback)
<1> DEFINE t == Append(s, o)
           I == Counting(s, f, ignored)
           J == Counting(t, f, ignored)
           last == Len(s) + 1
<1>1. /\ t \in Seq(S) /\ Len(s) \in Nat /\ Len(t) = last /\ t[last] = o
      /\ \A i \in 1..Len(s) : t[i] = s[i]
  OBVIOUS
<1>2. \/ J = {} /\ LastIn(t, f, ignored, fallback) = fallback
      \/ \E n \in J : (\A m \in J : m <= n) /\ LastIn(t, f, ignored, fallback) = t[n].to
  <2>1. t \in Seq(S)
    BY <1>1
  <2> HIDE DEF t
  <2> QED
    BY <2>1, LastInIs
<1>3. CASE o.sets = f /\ o.to \notin ignored
  <2>1. last \in J
    BY <1>1, <1>3 DEF Counting
  <2>2. \A n \in J : last <= n => n = last
    BY <1>1 DEF Counting
  <2> QED
    BY <1>1, <1>2, <1>3, <2>1, <2>2
<1>4. CASE ~(o.sets = f /\ o.to \notin ignored)
  <2>1. J = I
    BY <1>1, <1>4 DEF Counting
  <2>2. \/ I = {} /\ LastIn(s, f, ignored, fallback) = fallback
        \/ \E n \in I : (\A m \in I : m <= n) /\ LastIn(s, f, ignored, fallback) = s[n].to
    BY LastInIs
  <2>3. \A n, k \in I : k <= n /\ n <= k => n = k
    BY <1>1 DEF Counting
  <2>4. \A n \in I : t[n] = s[n]
    BY <1>1 DEF Counting
  <2> QED
    BY <1>2, <1>4, <2>1, <2>2, <2>3, <2>4
<1> QED
  BY <1>3, <1>4
-------------------------------------------------------------------------------
\* The initial states satisfy the invariant.
LEMMA Initially == Init => IInv
<1> SUFFICES ASSUME Init PROVE IInv
  OBVIOUS
<1>1. given = <<>> /\ pc = "options"
  BY DEF Init
<1>5. /\ DOMAIN config = Field /\ config.timeout = DefaultTimeout
      /\ \A f \in Field \ {"timeout"} : config[f] = ""
  <2>1. config = [apiKey |-> "", baseURL |-> "", timeout |-> DefaultTimeout,
                  httpClient |-> "", suffix |-> "", logger |-> ""]
    BY DEF Init
  <2>2. DOMAIN config = Field
    BY <2>1 DEF Field
  <2>3. config.timeout = DefaultTimeout
    BY <2>1
  <2>4. /\ config.apiKey = "" /\ config.baseURL = "" /\ config.httpClient = ""
        /\ config.suffix = "" /\ config.logger = ""
    BY <2>1
  <2> QED
    BY <2>2, <2>3, <2>4 DEF Field
<1>6. Typed
  <2>1. given \in Seq(Option)
    BY <1>1
  <2> QED
    BY <1>5, <2>1 DEF Init, Typed
<1>2. ASSUME NEW f, NEW ignored, NEW fallback PROVE LastOf(f, ignored, fallback) = fallback
  <2>1. Counting(<<>>, f, ignored) = {}
    BY DEF Counting
  <2>2. <<>> \in Seq(Option)
    OBVIOUS
  <2> QED
    BY <1>1, <2>1, <2>2, LastInIs DEF LastOf
<1>3. \A f : Given(f) = Fallback(f)
  BY <1>2 DEF Given
<1>4. Resolves
  BY <1>1, <1>3, <1>5 DEF Resolves, Fallback, Field
<1> QED
  BY <1>1, <1>4, <1>6 DEF Init, IInv, Requests

\* An option that New applies.
LEMMA ApplyKeeps ==
    ASSUME IInv, NEW o \in Option, Apply(o)
    PROVE  IInv'
<1>1. /\ pc = "options" /\ given \in Seq(Option) /\ DOMAIN config = Field
      /\ given' = Append(given, o) /\ config' = Configured(config, o)
      /\ UNCHANGED <<pc, env, target, request, logged>>
  BY DEF Apply, IInv, Typed
<1>2. Typed'
  <2>1. given' \in Seq(Option)
    BY <1>1
  <2>2. DOMAIN config' = Field
    BY <1>1 DEF Configured
  <2> QED
    BY <1>1, <2>1, <2>2 DEF IInv, Typed
<1>3. ASSUME NEW f \in Field, config[f] = Given(f) PROVE config'[f] = Given(f)'
  <2>1. Given(f)' = IF o.sets = f /\ o.to \notin Ignored(f) THEN o.to ELSE Given(f)
    BY <1>1, LastInAppend DEF Given, LastOf
  <2>2. config'[f] = IF o.sets = f /\ o.to \notin Ignored(f) THEN o.to ELSE config[f]
    BY <1>1 DEF Configured, Ignored
  <2> QED
    BY <1>3, <2>1, <2>2
<1>4. Resolves'
  BY <1>1, <1>3 DEF IInv, Resolves, Field
<1> QED
  BY <1>1, <1>2, <1>4 DEF IInv, Requests

\* The rest of New.
LEMMA NewKeeps ==
    ASSUME IInv, New
    PROVE  IInv'
<1>1. pc = "options" /\ DOMAIN config = Field /\ UNCHANGED <<env, given, target, request, logged>>
  BY DEF New, IInv, Typed
<1>2. \A f : UNCHANGED Given(f)
  BY <1>1 DEF Given, LastOf
<1>3. \A f \in Field : config[f] = Given(f)
  BY <1>1 DEF IInv, Resolves, Field
<1>4. CASE Resolved(config).apiKey = ""
  <2>1. pc' = "refused" /\ UNCHANGED config
    BY <1>4 DEF New
  <2>2. Resolved(config).apiKey = Or(config.apiKey, env.apiKey)
    BY <1>1 DEF Resolved, Field
  <2>3. Typed'
    BY <1>1, <2>1 DEF IInv, Typed
  <2>4. Resolves'
    BY <1>1, <1>2, <1>3, <1>4, <2>1, <2>2 DEF Resolves, Field
  <2> QED
    BY <1>1, <2>1, <2>3, <2>4 DEF IInv, Requests
<1>5. CASE Resolved(config).apiKey # ""
  <2>1. pc' = "ready" /\ config' = Resolved(config)
    BY <1>5 DEF New
  <2>2. /\ DOMAIN config' = Field
        /\ config'.apiKey = Or(config.apiKey, env.apiKey) /\ config'.apiKey # ""
        /\ config'.baseURL = Or(Or(config.baseURL, env.baseURL), DefaultBaseURL)
        /\ config'.httpClient = Or(config.httpClient, "built")
        /\ config'.logger = resolveLogger(config.logger)
        /\ config'.timeout = config.timeout /\ config'.suffix = config.suffix
    BY <1>1, <1>5, <2>1 DEF Resolved, Field
  <2>3. Typed'
    BY <1>1, <2>1, <2>2 DEF IInv, Typed
  <2>4. \A l : UNCHANGED resolveLogger(l)
    BY <1>1 DEF resolveLogger
  <2>5. Resolves'
    BY <1>1, <1>2, <1>3, <2>1, <2>2, <2>4 DEF Resolves, Field
  <2> QED
    BY <1>1, <2>1, <2>3, <2>5 DEF IInv, Requests
<1> QED
  BY <1>4, <1>5

\* A request, and its log line.
LEMMA RequestKeeps ==
    ASSUME IInv, NEW t \in Target, NEW key \in Idempotency, Request(t, key)
    PROVE  IInv'
<1>1. pc = "ready" /\ pc' = "called" /\ target' = t /\ UNCHANGED <<env, given, config>>
  BY DEF Request
<1>2. Typed'
  BY <1>1 DEF IInv, Typed
<1>3. UNCHANGED <<Headers(key), Logs>> /\ \A l : UNCHANGED resolveLogger(l)
  BY <1>1 DEF Headers, userAgent, Version, Logs, resolveLogger
<1>4. Resolves'
  <2>1. \A f : UNCHANGED Given(f)
    BY <1>1 DEF Given, LastOf
  <2> QED
    BY <1>1, <1>3, <2>1 DEF IInv, Resolves
<1>5. Requests'
  <2> DEFINE url == BuildURL(Site[config.baseURL], t)
  <2>1. CASE url = Invalid
    BY <1>1, <2>1 DEF Request, Requests
  <2>2. CASE url # Invalid
    <3>1. /\ request' = [url |-> url, headers |-> Headers(key)]
          /\ logged' = IF Logs THEN Redact(Headers(key)) ELSE NoHeaders
      BY <2>2 DEF Request
    <3>2. request' # NoRequest
      BY <2>2, <3>1 DEF NoRequest
    <3> QED
      BY <1>1, <1>3, <2>2, <3>1, <3>2 DEF Requests
  <2> QED
    BY <2>1, <2>2
<1> QED
  BY <1>2, <1>4, <1>5 DEF IInv

\* Every step keeps the invariant.
LEMMA Inductive == IInv /\ [Next]_vars => IInv'
<1> SUFFICES ASSUME IInv, [Next]_vars PROVE IInv'
  OBVIOUS
<1>1. CASE UNCHANGED vars
  <2>1. UNCHANGED <<pc, env, given, config, target, request, logged>>
    BY <1>1 DEF vars
  <2>2. Typed'
    BY <2>1 DEF IInv, Typed
  <2>3. Resolves'
    <3>1. (\A f : UNCHANGED Given(f)) /\ (\A l : UNCHANGED resolveLogger(l))
      BY <2>1 DEF Given, LastOf, resolveLogger
    <3> QED
      BY <2>1, <3>1 DEF IInv, Resolves
  <2>4. Requests'
    <3>1. (\A key : UNCHANGED Headers(key)) /\ UNCHANGED Logs
      BY <2>1 DEF Headers, userAgent, Version, Logs
    <3> QED
      BY <2>1, <3>1 DEF IInv, Requests
  <2> QED
    BY <2>2, <2>3, <2>4 DEF IInv
<1> QED
  BY <1>1, ApplyKeeps, NewKeeps, RequestKeeps DEF Next

\* The invariant holds of every reachable state.
LEMMA Invariance == Spec => []IInv
BY Initially, Inductive, PTL DEF Spec
-------------------------------------------------------------------------------
\* What the options say of a field is the value of one of them, or the fallback.
LEMMA GivenIs ==
    ASSUME Typed, NEW f
    PROVE  Given(f) = Fallback(f) \/ \E o \in Option : o.sets = f /\ o.to \notin Ignored(f) /\ Given(f) = o.to
<1>1. given \in Seq(Option)
  BY DEF Typed
<1>2. \/ Given(f) = Fallback(f)
      \/ \E n \in Counting(given, f, Ignored(f)) : Given(f) = given[n].to
  BY <1>1, LastInIs DEF Given, LastOf
<1>3. \A n \in 1..Len(given) : given[n] \in Option
  BY <1>1
<1> QED
  BY <1>2, <1>3 DEF Counting

\* A base URL that the client uses is one it can be given, and it has a logger.
LEMMA Settled ==
    ASSUME IInv, pc \in {"ready", "called"}
    PROVE  /\ config.apiKey # "" /\ config.baseURL \in DOMAIN Site
           /\ config.httpClient # "" /\ config.logger # ""
<1>1. Typed /\ env \in Environment /\ Resolves
  BY DEF IInv, Typed
<1>2. config.baseURL \in DOMAIN Site
  <2>1. Given("baseURL") \in DOMAIN Site \cup {""}
    <3>1. \A o \in Option : o.sets = "baseURL" => o.to \in DOMAIN Site \cup {""}
      BY ConfigAssumption
    <3>2. \/ Given("baseURL") = ""
          \/ \E o \in Option : o.sets = "baseURL" /\ Given("baseURL") = o.to
      BY <1>1, GivenIs DEF Fallback
    <3> QED
      BY <3>1, <3>2
  <2>2. env.baseURL \in DOMAIN Site \cup {""} /\ DefaultBaseURL \in DOMAIN Site
    BY <1>1, ConfigAssumption
  <2>3. config.baseURL = Or(Or(Given("baseURL"), env.baseURL), DefaultBaseURL)
    BY <1>1 DEF Resolves
  <2> QED
    BY <2>1, <2>2, <2>3 DEF Or
<1>3. config.httpClient # "" /\ config.logger # "" /\ config.apiKey # ""
  BY <1>1 DEF Resolves, Or, resolveLogger
<1> QED
  BY <1>2, <1>3

\* Every variable keeps its type, and a client that New returned has a key, a base URL, an
\* http.Client and a logger, whatever options it was given and whatever the process found.
THEOREM TypeCorrectness == Spec => []TypeOK
<1>1. IInv => TypeOK
  <2> SUFFICES ASSUME IInv PROVE TypeOK
    OBVIOUS
  <2>1. pc \in {"ready", "called"} =>
           config.apiKey # "" /\ config.baseURL \in DOMAIN Site
           /\ "" \notin {config.httpClient, config.logger}
    BY Settled
  <2> QED
    BY <2>1 DEF IInv, Typed, TypeOK, Field
<1> QED
  BY <1>1, Invariance, PTL

\* New configures the client as the contract's table says: the last option of its kind counts, then
\* the environment, then the default; only a client without a key is refused.
THEOREM Configuration == Spec => []ConfiguredAsDocumented
<1>1. IInv => ConfiguredAsDocumented
  <2> SUFFICES ASSUME IInv PROVE ConfiguredAsDocumented
    OBVIOUS
  <2>1. /\ Given("apiKey") = LastOf("apiKey", {}, "") /\ Given("baseURL") = LastOf("baseURL", {}, "")
        /\ Given("suffix") = LastOf("suffix", {"", "two lines"}, "")
        /\ Given("timeout") = LastOf("timeout", {}, DefaultTimeout)
    BY DEF Given, Ignored, Fallback
  <2> QED
    BY <2>1 DEF IInv, Resolves, ConfiguredAsDocumented, Or
<1> QED
  BY <1>1, Invariance, PTL

\* A request is one that the client makes, and the client is ready for it.
LEMMA Requested ==
    ASSUME IInv, request # NoRequest
    PROVE  /\ pc = "called"
           /\ \E key \in Idempotency :
                 /\ request.url = BuildURL(Site[config.baseURL], target) /\ request.url # Invalid
                 /\ request.headers = Headers(key)
                 /\ logged = IF Logs THEN Redact(Headers(key)) ELSE NoHeaders
BY DEF IInv, Requests

\* The names and values of a request's headers.
LEMMA HeadersAre ==
    ASSUME NEW key
    PROVE  /\ {"Authorization", "User-Agent", "Accept"} \subseteq DOMAIN Headers(key)
           /\ DOMAIN Headers(key) \subseteq {"Authorization", "User-Agent", "Accept", "Idempotency-Key"}
           /\ Headers(key)["Authorization"] = <<"Bearer", config.apiKey>>
           /\ Headers(key)["User-Agent"] = userAgent
           /\ Headers(key)["Accept"] = <<"json">>
BY DEF Headers

\* A request has the client's key and the origin of its base URL, also when the API issued the link.
THEOREM KeyAtHome == Spec => []KeyStaysHome
<1>1. IInv => KeyStaysHome
  <2> SUFFICES ASSUME IInv, request # NoRequest
               PROVE  /\ request.headers["Authorization"] = <<"Bearer", config.apiKey>>
                      /\ request.url.origin = Site[config.baseURL].origin
    BY DEF KeyStaysHome
  <2>1. PICK key \in Idempotency :
           /\ request.url = BuildURL(Site[config.baseURL], target) /\ request.url # Invalid
           /\ request.headers = Headers(key)
    BY Requested
  <2>2. \A base, t : BuildURL(base, t) # Invalid => BuildURL(base, t).origin = base.origin
    BY DEF BuildURL
  <2> QED
    BY <2>1, <2>2, HeadersAre
<1> QED
  BY <1>1, Invariance, PTL

\* A client logs its requests exactly when it was given a logger that takes debug lines or, without
\* one, when MAILKUBE_LOG names debug or no level.  A nil after a logger is left out.
THEOREM LoggingOnRequest == Spec => []LogsWhenAsked
<1>1. IInv => LogsWhenAsked
  <2> DEFINE asked == LastOf("logger", {""}, "")
  <2> SUFFICES ASSUME IInv, request # NoRequest, LastOf("logger", {}, "") = asked
               PROVE  logged # NoHeaders <=>
                          asked = "at debug" \/ (asked = "" /\ env.log \in {"debug", "no level"})
    BY DEF LogsWhenAsked
  <2>1. PICK key \in Idempotency : logged = IF Logs THEN Redact(Headers(key)) ELSE NoHeaders
    BY Requested
  <2>2. Redact(Headers(key)) # NoHeaders
    <3>1. DOMAIN Redact(Headers(key)) = DOMAIN Headers(key)
      BY DEF Redact
    <3>2. DOMAIN NoHeaders = {}
      BY DEF NoHeaders
    <3> QED
      BY <3>1, <3>2, HeadersAre
  <2>3. config.logger = resolveLogger(Given("logger")) /\ Typed /\ env \in Environment
    BY Requested DEF IInv, Resolves, Typed
  <2>4. Given("logger") \in {"", "at debug", "at info"} /\ env.log \in {"", "debug", "info", "no level"}
    BY <2>3, GivenIs, ConfigAssumption DEF Fallback
  <2>5. Given("logger") = asked
    BY DEF Given, Ignored, Fallback
  <2> HIDE DEF asked
  <2> QED
    BY <2>1, <2>2, <2>3, <2>4, <2>5 DEF Logs, resolveLogger
<1> QED
  BY <1>1, Invariance, PTL

\* The version is one the toolchain recorded for a tagged build of this module, or there is none.
LEMMA VersionIs ==
    ASSUME env \in Environment
    PROVE  \/ Module("sdk", TRUE, Version) \in ToSet(env.build)
           \/ Version = "0.0.0" /\ \A m \in ToSet(env.build) : m.path = "other" \/ ~m.tag
<1> DEFINE build == env.build
           I == {i \in 1..Len(build) : releaseVersion(build[i])}
<1>1. build \in Seq([path : {"sdk", "other"}, tag : BOOLEAN, version : STRING])
  BY ConfigAssumption
<1>2. \A i \in 1..Len(build) : build[i] \in [path : {"sdk", "other"}, tag : BOOLEAN, version : STRING]
  BY <1>1, ElementOfSeq
<1>6. Len(build) \in Nat
  BY <1>1
<1>7. I \in SUBSET (Nat \ {0})
  BY <1>6
<1>3. ToSet(build) = {build[i] : i \in 1..Len(build)}
  BY <1>1 DEF ToSet
<1> HIDE DEF build
<1>4. CASE I = {}
  <2>1. \A m \in ToSet(build) : m.path = "other" \/ ~m.tag
    BY <1>2, <1>3, <1>4 DEF releaseVersion
  <2>2. Version = "0.0.0"
    BY <1>4 DEF Version, SelectInSeq, build
  <2> QED
    BY <2>1, <2>2 DEF build
<1>5. CASE I # {}
  <2>1. PICK n \in I : \A m \in I : n <= m
    BY <1>5, <1>7, Least
  <2>2. Min(I) = n
    <3>1. \A k \in I : (\A m \in I : k <= m) => k = n
      BY <1>7, <2>1
    <3> QED
      BY <2>1, <3>1 DEF Min
  <2>3. Version = build[n].version
    BY <1>5, <1>7, <2>1, <2>2 DEF Version, SelectInSeq, build
  <2>4. build[n] = Module("sdk", TRUE, build[n].version)
    BY <1>2, <2>1 DEF releaseVersion, Module
  <2>5. build[n] \in ToSet(build)
    BY <1>2, <1>3, <2>1
  <2> QED
    BY <2>3, <2>4, <2>5 DEF build
<1> QED
  BY <1>4, <1>5

\* A pair followed by one more.
LEMMA TwoAndOne ==
    ASSUME NEW S, NEW s \in Seq(S), NEW t \in Seq(S), Len(s) = 2, Len(t) = 1
    PROVE  /\ Len(s \o t) = 3 /\ DOMAIN (s \o t) = {1, 2, 3}
           /\ (s \o t)[1] = s[1] /\ (s \o t)[2] = s[2] /\ (s \o t)[3] = t[1]
<1> DEFINE u == s \o t
<1>1. /\ u \in Seq(S) /\ Len(u) = Len(s) + Len(t)
      /\ \A i \in 1..Len(s) + Len(t) : u[i] = IF i <= Len(s) THEN s[i] ELSE t[i - Len(s)]
  BY ConcatProperties, Zenon
<1> HIDE DEF u
<1>2. DOMAIN u = {1, 2, 3} /\ Len(u) = 3 /\ u[1] = s[1] /\ u[2] = s[2] /\ u[3] = t[1]
  BY <1>1
<1> QED
  BY <1>2 DEF u

IsPair(s, a, b) == Len(s) = 2 /\ DOMAIN s = {1, 2} /\ s[1] = a /\ s[2] = b
IsTriple(s, a, b, c) == Len(s) = 3 /\ DOMAIN s = {1, 2, 3} /\ s[1] = a /\ s[2] = b /\ s[3] = c

LEMMA Pair ==
    ASSUME NEW a, NEW b, NEW s, s = <<a, b>> \o <<>>
    PROVE  IsPair(s, a, b)
<1>1. <<a, b>> \in Seq({a, b})
  OBVIOUS
<1>2. s = <<a, b>>
  BY <1>1, ConcatEmptySeq
<1> QED
  BY <1>2 DEF IsPair

LEMMA Triple ==
    ASSUME NEW a, NEW b, NEW c, NEW agent, agent = <<a, b>> \o <<c>>
    PROVE  IsTriple(agent, a, b, c)
<1> DEFINE s == <<a, b>>
           t == <<c>>
<1>1. s \in Seq({a, b, c}) /\ Len(s) = 2 /\ s[1] = a /\ s[2] = b
  OBVIOUS
<1>2. t \in Seq({a, b, c}) /\ Len(t) = 1 /\ t[1] = c
  OBVIOUS
<1>3. agent = s \o t
  OBVIOUS
<1> HIDE DEF s, t
<1> QED
  BY <1>1, <1>2, <1>3, TwoAndOne DEF IsTriple

\* What a User-Agent is made of.
LEMMA AgentIs ==
    IF config.suffix = "" THEN IsPair(userAgent, "mailkube-go", Version)
                          ELSE IsTriple(userAgent, "mailkube-go", Version, config.suffix)
<1>1. CASE config.suffix = ""
  <2>1. userAgent = <<"mailkube-go", Version>> \o <<>>
    BY <1>1 DEF userAgent
  <2> QED
    BY <1>1, <2>1, Pair
<1>2. CASE config.suffix # ""
  <2>1. userAgent = <<"mailkube-go", Version>> \o <<config.suffix>>
    BY <1>2 DEF userAgent
  <2> QED
    BY <1>2, <2>1, Triple
<1> QED
  BY <1>1, <1>2

LEMMA AgentWords ==
    ASSUME NEW word \in ToSet(userAgent)
    PROVE  \/ word \in {"mailkube-go", Version}
           \/ config.suffix # "" /\ word = config.suffix
BY AgentIs DEF ToSet, IsPair, IsTriple

LEMMA OneWord == ASSUME NEW word PROVE ToSet(<<word>>) = {word}
BY DEF ToSet

\* The SDK's token and the version of a release of this module lead every User-Agent; the suffix that
\* may follow is the last one fit for a header.
THEOREM AgentOnRequest == Spec => []AgentNamesRelease
<1>1. IInv => AgentNamesRelease
  <2> SUFFICES ASSUME IInv, request # NoRequest PROVE AgentNamesRelease
    BY DEF AgentNamesRelease
  <2> DEFINE agent == request.headers["User-Agent"]
  <2>1. agent = userAgent
    BY Requested, HeadersAre
  <2>2. config.suffix = LastOf("suffix", {"", "two lines"}, "") /\ env \in Environment
    BY DEF IInv, Typed, Resolves, Given, Ignored, Fallback
  <2>3. /\ userAgent[1] = "mailkube-go" /\ Len(userAgent) \in 2..3 /\ userAgent[2] = Version
        /\ config.suffix = (IF Len(userAgent) = 3 THEN userAgent[3] ELSE "")
    <3>1. CASE config.suffix = ""
      <4>1. Len(userAgent) = 2 /\ userAgent[1] = "mailkube-go" /\ userAgent[2] = Version
        BY <3>1, AgentIs DEF IsPair
      <4>2. Len(userAgent) \in 2..3 /\ Len(userAgent) # 3
        BY <4>1
      <4> QED
        BY <3>1, <4>1, <4>2, Zenon
    <3>2. CASE config.suffix # ""
      <4>1. /\ Len(userAgent) = 3 /\ userAgent[1] = "mailkube-go" /\ userAgent[2] = Version
            /\ userAgent[3] = config.suffix
        BY <3>2, AgentIs DEF IsTriple
      <4>2. Len(userAgent) \in 2..3
        BY <4>1
      <4> QED
        BY <3>2, <4>1, <4>2, Zenon
    <3> QED
      BY <3>1, <3>2, Zenon
  <2> QED
    BY <2>1, <2>2, <2>3, VersionIs DEF AgentNamesRelease
<1> QED
  BY <1>1, Invariance, PTL

\* What a caller or the process means to keep secret, and the words that headers show.  A caller who
\* makes the key the name of a tool shows it.
Secrets == {o.to : o \in {x \in Option : x.sets = "apiKey"}} \cup {e.apiKey : e \in Environment} \cup {"once"}
Shown ==
    {"***", "json", "mailkube-go", "0.0.0"} \cup {o.to : o \in {x \in Option : x.sets = "suffix"}}
    \cup UNION {{m.version : m \in ToSet(e.build)} : e \in Environment}

\* No log line has the key or the idempotency key of its request, as long as neither is a word that
\* the headers show anyway.
THEOREM SecretsStaySecret ==
    ASSUME Secrets \cap Shown \subseteq {""}
    PROVE  Spec => []LogHidesSecrets
<1>1. IInv => LogHidesSecrets
  <2> SUFFICES ASSUME IInv, NEW name \in DOMAIN logged
               PROVE  {config.apiKey, "once"} \cap ToSet(logged[name]) = {}
    BY DEF LogHidesSecrets
  <2>1. Typed /\ env \in Environment /\ logged # NoHeaders
    BY DEF IInv, Typed, NoHeaders
  <2>2. PICK key \in Idempotency : logged = Redact(Headers(key))
    <3>1. request # NoRequest
      BY <2>1 DEF IInv, Requests
    <3> QED
      BY <2>1, <3>1, Requested
  <2>3. config.apiKey \in Secrets /\ "once" \in Secrets /\ config.apiKey # ""
    <3>1. config.apiKey = Or(Given("apiKey"), env.apiKey) /\ config.apiKey # ""
      BY <2>1, Requested DEF IInv, Requests, Resolves
    <3>2. Given("apiKey") = "" \/ \E o \in Option : o.sets = "apiKey" /\ Given("apiKey") = o.to
      BY <2>1, GivenIs DEF Fallback
    <3> QED
      BY <2>1, <3>1, <3>2 DEF Or, Secrets
  <2>4. logged[name] \in {<<"***">>, <<"json">>, userAgent}
    BY <2>2, HeadersAre DEF Redact
  <2>5. \/ ToSet(logged[name]) \in {{"***"}, {"json"}}
        \/ logged[name] = userAgent
    BY <2>4, OneWord, Zenon
  <2>6. Version \in Shown
    <3>1. ASSUME NEW e \in Environment, NEW m \in ToSet(e.build) PROVE m.version \in Shown
      <4>1. m.version \in {x.version : x \in ToSet(e.build)}
        OBVIOUS
      <4> QED
        BY <4>1 DEF Shown
    <3>2. Module("sdk", TRUE, Version).version = Version
      BY DEF Module
    <3> QED
      BY <2>1, <3>1, <3>2, VersionIs DEF Shown
  <2>7. config.suffix # "" => config.suffix \in Shown
    <3>1. config.suffix = Given("suffix")
      BY DEF IInv, Resolves
    <3>2. \/ Given("suffix") = ""
          \/ \E o \in Option : o.sets = "suffix" /\ Given("suffix") = o.to
      BY <2>1, GivenIs DEF Fallback
    <3> QED
      BY <3>1, <3>2 DEF Shown
  <2>8. {"***", "json", "mailkube-go"} \subseteq Shown
    BY DEF Shown
  <2>9. config.apiKey \notin Shown /\ "once" \notin Shown
    <3>1. \A x \in Secrets : x \in Shown => x = ""
      OBVIOUS
    <3> QED
      BY <2>3, <3>1
  <2> QED
    BY <2>5, <2>6, <2>7, <2>8, <2>9, AgentWords
<1> QED
  BY <1>1, Invariance, PTL


-------------------------------------------------------------------------------
\* Identifiers.

\* The characters of an identifier, and what escaping makes of one.
Character == STRING \ {"%2F", "%3F", "%25"}
LEMMA Escaping ==
    ASSUME NEW ch \in Character
    PROVE  /\ Unescape(Escape(ch)) = ch /\ Escape(ch) \notin {"/", "?", "%"}
           /\ Escape(ch) = "." <=> ch = "."
<1>1. CASE ch \in {"/", "?", "%"}
  <2>1. CASE ch = "/"
    BY <2>1 DEF Escape, Unescape
  <2>2. CASE ch = "?"
    BY <2>2 DEF Escape, Unescape
  <2>3. CASE ch = "%"
    BY <2>3 DEF Escape, Unescape
  <2> QED
    BY <1>1, <2>1, <2>2, <2>3
<1>2. CASE ch \notin {"/", "?", "%"}
  <2>1. Escape(ch) = ch
    BY <1>2 DEF Escape
  <2>2. Unescape(ch) = ch
    BY DEF Character, Unescape
  <2> QED
    BY <1>2, <2>1, <2>2 DEF Character
<1> QED
  BY <1>1, <1>2

LEMMA AppendOne == ASSUME NEW x, NEW y PROVE Append(<<x>>, y) = <<x, y>>
<1> DEFINE S == {x, y}
           a == Append(<<x>>, y)
           b == <<x, y>>
<1>1. a \in Seq(S) /\ Len(a) = 2 /\ a[1] = x /\ a[2] = y
  OBVIOUS
<1>2. b \in Seq(S) /\ Len(b) = 2 /\ b[1] = x /\ b[2] = y
  OBVIOUS
<1> HIDE DEF S, a, b
<1>3. a = b
  BY <1>1, <1>2
<1> QED
  BY <1>3 DEF a, b

LEMMA CutOpens == ASSUME NEW x PROVE Cut(<<x>>, "/") = <<x, <<>>>>
  BY AppendOne DEF Cut

LEMMA CutFirst == Cut(<< <<>> >>, "c") = << <<"c">> >>
  BY DEF Cut

LEMMA CutFills ==
    ASSUME NEW x, NEW y, NEW ch, ch # "/"
    PROVE  Cut(<<x, y>>, ch) = <<x, Append(y, ch)>>
  BY DEF Cut

\* The beginnings of a sequence grow by one element.
LEMMA Beginnings ==
    ASSUME NEW S, NEW e \in Seq(S), NEW n \in 1..Len(e)
    PROVE  SubSeq(e, 1, n) = Append(SubSeq(e, 1, n - 1), e[n])
<1>1. /\ SubSeq(e, 1, n) \in Seq(S) /\ Len(SubSeq(e, 1, n)) = n
      /\ \A i \in 1..n : SubSeq(e, 1, n)[i] = e[i]
  OBVIOUS
<1>2. /\ SubSeq(e, 1, n - 1) \in Seq(S) /\ Len(SubSeq(e, 1, n - 1)) = n - 1
      /\ \A i \in 1..(n - 1) : SubSeq(e, 1, n - 1)[i] = e[i]
  OBVIOUS
<1> DEFINE a == SubSeq(e, 1, n)
           b == SubSeq(e, 1, n - 1)
<1> HIDE DEF a, b
<1>3. e[n] \in S
  OBVIOUS
<1> QED
  BY <1>1, <1>2, <1>3 DEF a, b


\* The path of an item, character by character.
LEMMA ItemPathIs ==
    ASSUME NEW S, NEW e \in Seq(S), NEW path, path = <<"c">> \o <<"/">> \o e
    PROVE  /\ path \in Seq(S \cup {"c", "/"}) /\ Len(path) = Len(e) + 2 /\ Len(e) \in Nat
           /\ path[1] = "c" /\ path[2] = "/" /\ \A i \in 1..Len(e) : path[i + 2] = e[i]
<1> DEFINE T == S \cup {"c", "/"}
           a == <<"c">> \o <<"/">>
<1>1. a \in Seq(T) /\ Len(a) = 2 /\ a[1] = "c" /\ a[2] = "/"
  OBVIOUS
<1>2. e \in Seq(T) /\ Len(e) \in Nat
  OBVIOUS
<1> HIDE DEF a
<1>3. path = a \o e
  BY DEF a
<1> HIDE DEF T
<1>4. /\ path \in Seq(T) /\ Len(path) = 2 + Len(e)
      /\ \A i \in 1..2 : path[i] = a[i]
      /\ \A i \in 1..Len(e) : path[2 + i] = e[i]
  BY <1>1, <1>2, <1>3
<1>5. path[1] = "c" /\ path[2] = "/" /\ \A i \in 1..Len(e) : path[i + 2] = e[i]
  BY <1>1, <1>2, <1>4
<1> QED
  BY <1>2, <1>4, <1>5 DEF T

\* The first question mark of a path that has none is the one behind it.
LEMMA NoQuery ==
    ASSUME NEW T, NEW path \in Seq(T), "?" \notin T
    PROVE  SelectInSeq(path \o <<"?">>, LAMBDA ch : ch = "?") - 1 = Len(path)
<1> DEFINE q == path \o <<"?">>
           n == Len(path)
           I == {i \in 1..Len(q) : q[i] = "?"}
<1>1. n \in Nat /\ Len(q) = n + 1 /\ q[n + 1] = "?" /\ \A i \in 1..n : q[i] = path[i] /\ path[i] \in T
  OBVIOUS
<1> HIDE DEF q, n
<1>2. I = {n + 1}
  BY <1>1
<1>3. Min({n + 1}) = n + 1
  BY <1>1 DEF Min
<1>4. SelectInSeq(q, LAMBDA ch : ch = "?") = n + 1
  BY <1>2, <1>3 DEF SelectInSeq
<1>5. n + 1 - 1 = n
  BY <1>1
<1> QED
  BY <1>4, <1>5 DEF q, n

\* An escaped identifier is one segment behind the collection.
LEMMA TwoSegments ==
    ASSUME NEW S, NEW e \in Seq(S), "/" \notin S, "?" \notin S
    PROVE  Segments(<<"c">> \o <<"/">> \o e) = << <<"c">>, e >>
<1> DEFINE path == <<"c">> \o <<"/">> \o e
           n == Len(path)
           T == S \cup {"c", "/"}
           P(cut) == cut = [k \in 0..n |-> IF k = 0 THEN << <<>> >> ELSE Cut(cut[k - 1], path[k])]
           f == CHOOSE cut : P(cut)
           part(k) == IF k = 0 THEN << <<>> >> ELSE IF k = 1 THEN << <<"c">> >>
                      ELSE << <<"c">>, SubSeq(e, 1, k - 2) >>
           g == [k \in 0..n |-> part(k)]
<1>1. /\ path \in Seq(T) /\ n = Len(e) + 2 /\ Len(e) \in Nat
      /\ path[1] = "c" /\ path[2] = "/" /\ \A i \in 1..Len(e) : path[i + 2] = e[i]
  BY ItemPathIs
<1>2. SelectInSeq(path \o <<"?">>, LAMBDA ch : ch = "?") - 1 = n
  <2>1. path \in Seq(T) /\ "?" \notin T
    BY <1>1
  <2> HIDE DEF path, T
  <2> QED
    BY <2>1, NoQuery
<1>3. Segments(path) = f[n]
  BY <1>2, Zenon DEF Segments
<1> HIDE DEF path, n
<1>4. \A k \in 1..n : part(k) = Cut(part(k - 1), path[k])
  <2> SUFFICES ASSUME NEW k \in 1..n PROVE part(k) = Cut(part(k - 1), path[k])
    OBVIOUS
  <2>1. CASE k = 1
    BY <1>1, <2>1, CutFirst
  <2>2. CASE k = 2
    <3>1. part(2) = << <<"c">>, <<>> >> /\ part(1) = << <<"c">> >>
      BY SubSeqEmpty
    <3>2. Cut(<< <<"c">> >>, "/") = << <<"c">>, <<>> >>
      BY CutOpens
    <3>3. k = 2 /\ k - 1 = 1 /\ path[k] = "/"
      BY <1>1, <2>2
    <3> HIDE DEF part
    <3>4. part(k) = part(2) /\ part(k - 1) = part(1)
      BY <3>3
    <3> QED
      BY <3>1, <3>2, <3>3, <3>4, Zenon
  <2>3. CASE k \in 3..n
    <3>1. k - 2 \in 1..Len(e) /\ path[k] = e[k - 2]
      <4>1. k - 2 \in 1..Len(e) /\ (k - 2) + 2 = k
        BY <1>1, <2>3
      <4> QED
        BY <1>1, <4>1
    <3>2. SubSeq(e, 1, k - 2) = Append(SubSeq(e, 1, (k - 2) - 1), e[k - 2])
      BY <3>1, Beginnings
    <3>3. e[k - 2] # "/"
      BY <3>1
    <3>4. Cut(<< <<"c">>, SubSeq(e, 1, (k - 2) - 1) >>, e[k - 2]) = << <<"c">>, SubSeq(e, 1, k - 2) >>
      <4> DEFINE ch == e[k - 2]
                 y == SubSeq(e, 1, (k - 2) - 1)
                 z == SubSeq(e, 1, k - 2)
      <4>1. z = Append(y, ch) /\ ch # "/"
        BY <3>2, <3>3
      <4> HIDE DEF ch, y, z
      <4>2. Cut(<< <<"c">>, y >>, ch) = << <<"c">>, Append(y, ch) >>
        BY <4>1, CutFills
      <4>3. Cut(<< <<"c">>, y >>, ch) = << <<"c">>, z >>
        BY <4>1, <4>2
      <4> QED
        BY <4>3 DEF ch, y, z
    <3>5. part(k) = << <<"c">>, SubSeq(e, 1, k - 2) >>
      BY <1>1, <2>3
    <3>6. part(k - 1) = << <<"c">>, SubSeq(e, 1, (k - 2) - 1) >>
      <4>1. (k - 1) - 2 = (k - 2) - 1 /\ k - 1 # 0 /\ k - 1 # 1
        BY <1>1, <2>3
      <4> QED
        BY <4>1
    <3> HIDE DEF part
    <3> QED
      BY <3>1, <3>4, <3>5, <3>6
  <2> QED
    BY <1>1, <2>1, <2>2, <2>3
<1>5. n \in Nat /\ part(0) = << <<>> >>
  BY <1>1
<1> HIDE DEF part
<1>6. P(g)
  BY <1>4, <1>5
<1>7. P(f)
  BY <1>6
<1> HIDE DEF f, g
<1>8. f[0] = part(0) /\ \A k \in 1..n : f[k] = Cut(f[k - 1], path[k])
  BY <1>5, <1>7
<1> DEFINE K == {k \in Nat : k <= n => f[k] = part(k)}
<1>9. Nat \subseteq K
  <2>1. 0 \in K
    BY <1>8
  <2>2. ASSUME NEW k \in Nat, k \in K PROVE k + 1 \in K
    <3> SUFFICES ASSUME k + 1 <= n PROVE f[k + 1] = part(k + 1)
      OBVIOUS
    <3>1. k + 1 \in 1..n /\ (k + 1) - 1 = k /\ k <= n
      BY <1>5
    <3>2. f[k] = part(k)
      BY <2>2, <3>1
    <3> QED
      BY <1>4, <1>8, <3>1, <3>2
  <2> HIDE DEF K
  <2> QED
    BY <2>1, <2>2, Induct
<1>10. f[n] = part(n)
  BY <1>5, <1>9
<1>11. part(n) = << <<"c">>, e >>
  <2>1. n - 2 = Len(e) /\ n # 0 /\ n # 1
    BY <1>1
  <2>2. SubSeq(e, 1, Len(e)) = e
    BY SubSeqFull
  <2> QED
    BY <2>1, <2>2 DEF part
<1> QED
  BY <1>3, <1>10, <1>11 DEF path


\* Two segments resolved below a directory.
LEMMA BelowTwo ==
    ASSUME NEW base, NEW x, NEW y
    PROVE  Below(base, <<x, y>>) =
               Enter(Enter(Directory(base), x), y)
               \o (IF y \in DotSegments THEN << <<>> >> ELSE <<>>)
<1> DEFINE segs == <<x, y>>
           d == Directory(base)
           P(up) == up = [n \in 0..Len(segs) |-> IF n = 0 THEN d ELSE Enter(up[n - 1], segs[n])]
           f == CHOOSE up : P(up)
           g == [n \in 0..2 |-> IF n = 0 THEN d ELSE IF n = 1 THEN Enter(d, x) ELSE Enter(Enter(d, x), y)]
<1>1. Len(segs) = 2 /\ segs[1] = x /\ segs[2] = y
  OBVIOUS
<1>2. Below(base, segs) = f[Len(segs)] \o (IF Last(segs) \in DotSegments THEN << <<>> >> ELSE <<>>)
  BY Zenon DEF Below
<1> HIDE DEF segs, d
<1>3. P(g)
  BY <1>1
<1>4. P(f)
  BY <1>3
<1> HIDE DEF f
<1>5. f[0] = d /\ f[1] = Enter(f[0], x) /\ f[2] = Enter(f[1], y)
  BY <1>1, <1>4
<1>6. Last(segs) = y
  BY <1>1 DEF Last
<1>7. f[Len(segs)] = Enter(Enter(d, x), y)
  BY <1>1, <1>5
<1>8. Below(base, segs) = Enter(Enter(d, x), y) \o (IF y \in DotSegments THEN << <<>> >> ELSE <<>>)
  BY <1>2, <1>6, <1>7, Zenon
<1> QED
  BY <1>8 DEF segs, d

\* Appending and joining leave a sequence in front of what is new.
Adds(a, S, d, x) ==
    /\ a \in Seq(S) /\ Len(a) = Len(d) + 1 /\ Len(d) \in Nat
    /\ \A i \in 1..Len(d) : a[i] = d[i]
    /\ a[Len(a)] = x /\ Front(a) = d
LEMMA Behind ==
    ASSUME NEW S, NEW d \in Seq(S), NEW x \in S
    PROVE  LET a == Append(d, x) IN Adds(a, S, d, x) /\ a \o <<>> = a /\ d \o <<x>> = a
<1> DEFINE a == Append(d, x)
<1>1. /\ a \in Seq(S) /\ Len(a) = Len(d) + 1 /\ Len(d) \in Nat
      /\ \A i \in 1..Len(d) : a[i] = d[i]
      /\ a[Len(d) + 1] = x
  OBVIOUS
<1> HIDE DEF a
<1>2. Front(a) = d
  <2> DEFINE b == Front(a)
  <2>1. b \in Seq(S) /\ Len(b) = Len(d) /\ \A i \in 1..Len(d) : b[i] = a[i]
    BY <1>1 DEF Front
  <2> HIDE DEF b
  <2>2. b = d
    BY <1>1, <2>1
  <2> QED
    BY <2>2 DEF b
<1>3. a \o <<>> = a
  BY <1>1, ConcatEmptySeq
<1>4. d \o <<x>> = a
  BY AppendIsConcat DEF a
<1> QED
  BY <1>1, <1>2, <1>3, <1>4 DEF a, Adds

LEMMA StaysBelow ==
    ASSUME NEW S, NEW d \in Seq(S), NEW a \in Seq(S), Len(d) <= Len(a), \A i \in 1..Len(d) : a[i] = d[i]
    PROVE  IsPrefix(d, a)
<1> DEFINE b == SubSeq(d, 1, Len(d))
           c == SubSeq(a, 1, Len(d))
<1>1. b \in Seq(S) /\ Len(b) = Len(d) /\ \A i \in 1..Len(d) : b[i] = d[i]
  OBVIOUS
<1>2. c \in Seq(S) /\ Len(c) = Len(d) /\ \A i \in 1..Len(d) : c[i] = a[i]
  OBVIOUS
<1> HIDE DEF b, c
<1>3. b = c
  BY <1>1, <1>2
<1> QED
  BY <1>3 DEF IsPrefix, b, c

\* Where the path of an item leads, by its escaped identifier.
LEMMA ItemLeads ==
    ASSUME NEW S, <<>> \in S, <<"c">> \in S, NEW d \in Seq(S), NEW base, d = Directory(base), NEW y \in S,
           NEW dir, dir = Below(base, << <<"c">>, y >>)
    PROVE  /\ IsPrefix(d, dir)
           /\ y \notin DotSegments =>
                  Len(dir) = Len(d) + 2 /\ dir[Len(dir) - 1] = <<"c">> /\ Last(dir) = y
<1> DEFINE c == <<"c">>
           dc == Append(d, c)
<1>1. dir = Enter(Enter(d, c), y) \o (IF y \in DotSegments THEN << <<>> >> ELSE <<>>)
  BY BelowTwo
<1>2. c # <<".">> /\ c # <<".", ".">>
  OBVIOUS
<1>3. Enter(d, c) = dc
  BY <1>2 DEF Enter
<1>4. /\ dc \in Seq(S) /\ Len(dc) = Len(d) + 1 /\ Len(d) \in Nat /\ \A i \in 1..Len(d) : dc[i] = d[i]
      /\ dc[Len(dc)] = c /\ Front(dc) = d
  BY Behind DEF Adds
<1> HIDE DEF c, dc
<1>5. CASE y = <<".">>
  <2>1. dir = Append(dc, <<>>)
    <3>1. Enter(dc, y) = dc /\ y \in DotSegments
      BY <1>5 DEF Enter, DotSegments
    <3>2. dc \o << <<>> >> = Append(dc, <<>>)
      BY <1>4, Behind
    <3> QED
      BY <1>1, <1>3, <3>1, <3>2
  <2>2. /\ dir \in Seq(S) /\ Len(dir) = Len(dc) + 1 /\ \A i \in 1..Len(dc) : dir[i] = dc[i]
        /\ dir[Len(dir)] = <<>>
    <3>1. Adds(dir, S, dc, <<>>)
      BY <1>4, <2>1, Behind
    <3> QED
      BY <3>1 DEF Adds
  <2>3. IsPrefix(d, dir)
    <3>1. Len(d) <= Len(dir) /\ \A i \in 1..Len(d) : i \in 1..Len(dc)
      BY <1>4, <2>2
    <3>2. \A i \in 1..Len(d) : dir[i] = d[i]
      BY <1>4, <2>2, <3>1
    <3> QED
      BY <2>2, <3>1, <3>2, StaysBelow
  <2> QED
    BY <1>5, <2>2, <2>3 DEF Last, DotSegments
<1>6. CASE y = <<".", ".">>
  <2>1. dir = Append(d, <<>>)
    <3>0. y # <<".">>
      BY <1>6
    <3>1. Enter(dc, y) = d /\ y \in DotSegments
      BY <1>4, <1>6, <3>0 DEF Enter, DotSegments
    <3>2. d \o << <<>> >> = Append(d, <<>>)
      BY Behind
    <3> QED
      BY <1>1, <1>3, <3>1, <3>2
  <2>2. /\ dir \in Seq(S) /\ Len(dir) = Len(d) + 1 /\ Len(d) \in Nat /\ \A i \in 1..Len(d) : dir[i] = d[i]
        /\ dir[Len(dir)] = <<>>
    <3>1. Adds(dir, S, d, <<>>)
      BY <2>1, Behind
    <3> QED
      BY <3>1 DEF Adds
  <2>3. IsPrefix(d, dir)
    <3>1. Len(d) <= Len(dir)
      BY <2>2
    <3> QED
      BY <2>2, <3>1, StaysBelow
  <2> QED
    BY <1>6, <2>2, <2>3 DEF Last, DotSegments
<1>7. CASE y \notin DotSegments
  <2>1. dir = Append(dc, y)
    <3>1. Enter(dc, y) = Append(dc, y)
      BY <1>7 DEF Enter, DotSegments
    <3>2. Append(dc, y) \o <<>> = Append(dc, y)
      BY <1>4, Behind
    <3> QED
      BY <1>1, <1>3, <1>7, <3>1, <3>2
  <2>2. /\ dir \in Seq(S) /\ Len(dir) = Len(dc) + 1 /\ \A i \in 1..Len(dc) : dir[i] = dc[i]
        /\ dir[Len(dir)] = y
    <3>1. Adds(dir, S, dc, y)
      BY <1>4, <2>1, Behind
    <3> QED
      BY <3>1 DEF Adds
  <2>3. IsPrefix(d, dir)
    <3>1. Len(d) <= Len(dir) /\ \A i \in 1..Len(d) : i \in 1..Len(dc)
      BY <1>4, <2>2
    <3>2. \A i \in 1..Len(d) : dir[i] = d[i]
      BY <1>4, <2>2, <3>1
    <3> QED
      BY <2>2, <3>1, <3>2, StaysBelow
  <2>4. Len(dir) = Len(d) + 2 /\ dir[Len(dir) - 1] = c
    <3>1. Len(dc) \in 1..Len(dc) /\ Len(dir) - 1 = Len(dc)
      BY <1>4, <2>2
    <3> QED
      BY <1>4, <2>2, <3>1
  <2>5. y = <<>> => Last(dir) = <<>>
    BY <2>2 DEF Last
  <2> QED
    BY <1>7, <2>2, <2>3, <2>4, <2>5 DEF Last, c
<1> QED
  BY <1>5, <1>6, <1>7 DEF DotSegments


\* An identifier and its escaped form.
Escaped == {Escape(ch) : ch \in Character}
LEMMA EachEscaped ==
    ASSUME NEW id \in Seq(Character)
    PROVE  LET y == Each(Escape, id) IN
           /\ y \in Seq(Escaped) /\ Each(Unescape, y) = id
           /\ y \in DotSegments <=> id \in DotSegments
           /\ y = <<>> <=> id = <<>>
<1> DEFINE y == Each(Escape, id)
           n == Len(id)
<1>1. n \in Nat /\ \A i \in 1..n : id[i] \in Character
  OBVIOUS
<1>2. y = [i \in 1..n |-> Escape(id[i])]
  BY DEF Each
<1>3. y \in Seq(Escaped) /\ Len(y) = n /\ \A i \in 1..n : y[i] = Escape(id[i])
  <2>1. y \in [1..n -> Escaped]
    BY <1>1, <1>2 DEF Escaped
  <2> HIDE DEF y
  <2> QED
    BY <1>1, <1>2, <2>1
<1> HIDE DEF y
<1>4. Each(Unescape, y) = id
  <2> DEFINE z == Each(Unescape, y)
  <2>1. z = [i \in 1..n |-> Unescape(y[i])]
    BY <1>3 DEF Each
  <2>2. \A i \in 1..n : Unescape(y[i]) = id[i]
    BY <1>1, <1>3, Escaping
  <2>3. z \in Seq(Character) /\ Len(z) = n /\ \A i \in 1..n : z[i] = id[i]
    <3> HIDE DEF z
    <3>1. z \in [1..n -> Character]
      BY <1>1, <2>1, <2>2
    <3> QED
      BY <1>1, <2>1, <2>2, <3>1
  <2> HIDE DEF z
  <2>4. z = id
    BY <1>1, <2>3
  <2> QED
    BY <2>4 DEF z
<1>5. y = <<>> <=> id = <<>>
  BY <1>1, <1>3
<1>6. \A i \in 1..n : y[i] = "." <=> id[i] = "."
  BY <1>1, <1>3, Escaping
<1>7. y = <<".">> <=> id = <<".">>
  <2>1. y = <<".">> <=> n = 1 /\ y[1] = "."
    <3>1. y \in Seq(Escaped) /\ Len(y) = n
      BY <1>3
    <3> HIDE DEF n
    <3> QED
      BY <3>1
  <2>2. id = <<".">> <=> n = 1 /\ id[1] = "."
    BY <1>1
  <2>3. n = 1 => (y[1] = "." <=> id[1] = ".")
    BY <1>6
  <2> QED
    BY <2>1, <2>2, <2>3, Zenon
<1>8. y = <<".", ".">> <=> id = <<".", ".">>
  <2>1. y = <<".", ".">> <=> n = 2 /\ y[1] = "." /\ y[2] = "."
    <3>1. y \in Seq(Escaped) /\ Len(y) = n
      BY <1>3
    <3> HIDE DEF n
    <3> QED
      BY <3>1
  <2>2. id = <<".", ".">> <=> n = 2 /\ id[1] = "." /\ id[2] = "."
    BY <1>1
  <2>3. n = 2 => (y[1] = "." <=> id[1] = ".") /\ (y[2] = "." <=> id[2] = ".")
    BY <1>6
  <2> QED
    BY <2>1, <2>2, <2>3, Zenon
<1> QED
  BY <1>3, <1>4, <1>5, <1>7, <1>8 DEF y, DotSegments

\* A request for an item stays below the base URL and reaches that item, whatever characters its
\* identifier has, unless that is empty or a dot segment.
THEOREM ItemsAreReached == Spec => []ItemKeepsItsRoute
<1>1. IInv => ItemKeepsItsRoute
  <2> SUFFICES ASSUME IInv, request # NoRequest, target.kind = "item" PROVE ItemKeepsItsRoute
    BY DEF ItemKeepsItsRoute
  <2> DEFINE base == Site[config.baseURL]
             d == Directory(base.dir)
             y == Each(Escape, target.id)
             S == Seq(STRING) \cup Seq(Escaped) \cup {<<"c">>}
             dir == request.url.dir
  <2>1. request.url = BuildURL(base, target) /\ request.url # Invalid
    BY DEF IInv, Requests
  <2>2. target.id \in Seq(Character)
    <3>1. target \in Target
      <4>1. target \in Target \cup {Route}
        BY Zenon DEF IInv, Typed
      <4>2. Route.kind = "route"
        BY DEF Route
      <4> QED
        BY <4>1, <4>2
    <3> QED
      BY <3>1, ConfigAssumption, Zenon DEF Character
  <2>3. y \in Seq(Escaped) /\ Segments(ItemPath(<<"c">>, target.id)) = << <<"c">>, y >>
    <3>1. y \in Seq(Escaped)
      BY <2>2, EachEscaped
    <3>2. "/" \notin Escaped /\ "?" \notin Escaped
      BY Escaping DEF Escaped
    <3> HIDE DEF y
    <3>3. Segments(<<"c">> \o <<"/">> \o y) = << <<"c">>, y >>
      BY <3>1, <3>2, TwoSegments
    <3> QED
      BY <3>1, <3>3 DEF y, ItemPath
  <2>4. dir = Below(base.dir, << <<"c">>, y >>)
    <3>1. base # Invalid /\ BuildURL(base, target) # Invalid
      BY <2>1 DEF BuildURL
    <3> DEFINE path == ItemPath(<<"c">>, target.id)
               built == [origin |-> base.origin, dir |-> Below(base.dir, Segments(path))]
    <3>2. BuildURL(base, target) = built
      <4> HIDE DEF base
      <4>1. BuildURL(base, target) = IF Contains(path, "%") THEN Invalid ELSE built
        BY <3>1 DEF BuildURL
      <4> QED
        BY <3>1, <4>1
    <3>3. built.dir = Below(base.dir, Segments(path))
      OBVIOUS
    <3> QED
      BY <2>1, <2>3, <3>2, <3>3, Zenon
  <2>5. d \in Seq(S)
    <3>1. base.dir \in Seq(Seq(STRING))
      <4>1. config.baseURL \in DOMAIN Site
        BY Settled DEF IInv, Requests, Typed
      <4>2. \A b \in DOMAIN Site : Site[b].dir \in Seq(Seq(STRING))
        BY ConfigAssumption, Zenon
      <4> QED
        BY <4>1, <4>2, Zenon
    <3> QED
      BY <3>1 DEF Directory, Front
  <2>6. <<>> \in S /\ <<"c">> \in S /\ y \in S
    BY <2>3
  <2> HIDE DEF S, d, y, dir
  <2>7. /\ IsPrefix(d, dir)
        /\ y \notin DotSegments =>
               Len(dir) = Len(d) + 2 /\ dir[Len(dir) - 1] = <<"c">> /\ Last(dir) = y
    BY <2>4, <2>5, <2>6, ItemLeads DEF d
  <2>8. /\ Each(Unescape, y) = target.id
        /\ y \in DotSegments <=> target.id \in DotSegments
    BY <2>2, EachEscaped DEF y
  <2> QED
    BY <2>7, <2>8 DEF ItemKeepsItsRoute, d, dir
<1> QED
  BY <1>1, Invariance, PTL
===============================================================================
