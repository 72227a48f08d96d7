---------------------------- MODULE MCClientConfig ----------------------------
(* Three options in any order and number, over an environment that sets the   *)
(* key, the base URL, both or neither, in four builds and at four log levels; *)
(* a base URL with a trailing slash, one without, and one that does not       *)
(* parse; items with every identifier of up to two of five characters.        *)
EXTENDS ClientConfig

Opt(field, values) == {[sets |-> field, to |-> v] : v \in values}
MCOption == Opt("apiKey", {"", "k1", "k2"}) \cup Opt("baseURL", {"staging", "broken"})
            \cup Opt("suffix", {"tool", "two lines"}) \cup Opt("timeout", {5}) \cup Opt("logger", {"", "at debug", "at info"})
            \cup Opt("httpClient", {"", "injected"})
Released == Module("sdk", TRUE, "1.2.0")
Devel == Module("sdk", FALSE, "(devel)")
App == Module("other", TRUE, "9.9.9")
MCEnvironment ==
    {[apiKey |-> "", baseURL |-> "", log |-> "no level", build |-> Build(<<App, Released>>, App)],
     [apiKey |-> "k3", baseURL |-> "", log |-> "debug", build |-> Build(<<>>, Released)],
     [apiKey |-> "", baseURL |-> "staging", log |-> "", build |-> Build(<<App>>, Devel)],
     [apiKey |-> "k3", baseURL |-> "staging", log |-> "info", build |-> <<>>]}
MCSite == [s \in {DefaultBaseURL, "staging", "broken"} |->
    CASE s = "broken" -> Invalid
      [] s = "staging" -> [origin |-> "staging", dir |-> << <<"v">> >>]
      [] OTHER -> [origin |-> "api", dir |-> << <<"v">>, <<>> >>]]
MCTarget == {Route} \cup {Link(o) : o \in {"api", "staging"}}
            \cup {Item(id) : id \in UNION {[1..n -> {"x", "/", "?", ".", "%"}] : n \in 0..2}}
===============================================================================
